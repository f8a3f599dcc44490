---------------------------- MODULE AppBarsProofs ----------------------------
(* AreaFollowsBars, BarsDisjoint and the type of AppBars for any windows,    *)
(* monitors, places, work areas and bounds.                                  *)
EXTENDS AppBars, SequenceTheorems, WellFoundedInduction, TLAPS

-----------------------------------------------------------------------------
(* Induction over a set of numbers, and functions defined by recursion.     *)

LEMMA Least ==
  ASSUME NEW T \in SUBSET Nat, T # {}
  PROVE  \E n \in T : \A k \in T : n <= k
<1>1. PICK n \in T : \A k \in T : ~(<<k, n>> \in OpToRel(<, Nat))
  BY NatLessThanWellFounded, WFMin
<1>2. ASSUME NEW k \in T PROVE <<k, n>> \in OpToRel(<, Nat) <=> k < n
  BY DEF OpToRel
<1>3. \A k \in T : ~(k < n)
  BY <1>1, <1>2
<1>4. n \in Nat /\ \A k \in T : k \in Nat
  OBVIOUS
<1>5. \A k \in T : n <= k
  BY <1>3, <1>4
<1> QED
  BY <1>5

LEMMA Induct ==
  ASSUME NEW T \in SUBSET Nat, 0 \in T, \A n \in T : n + 1 \in T
  PROVE  T = Nat
<1> SUFFICES ASSUME T # Nat PROVE FALSE
  OBVIOUS
<1>1. PICK n \in Nat \ T : \A k \in Nat \ T : n <= k
  <2>1. Nat \ T \in SUBSET Nat /\ Nat \ T # {}
    OBVIOUS
  <2> QED
    BY <2>1, Least
<1>2. n - 1 \in Nat /\ n - 1 \in T
  BY <1>1
<1> QED
  BY <1>1, <1>2

\* Induction up to n.
LEMMA InductTo ==
  ASSUME NEW n \in Nat, NEW T, 0 \in T, \A i \in 1..n : i - 1 \in T => i \in T
  PROVE  0..n \subseteq T
<1> DEFINE U == {k \in Nat : k <= n => k \in T}
<1>1. U \in SUBSET Nat /\ 0 \in U
  OBVIOUS
<1>2. ASSUME NEW k \in U PROVE k + 1 \in U
  <2>1. CASE k + 1 <= n
    <3>1. k + 1 \in 1..n /\ (k + 1) - 1 = k /\ k \in T
      BY <2>1
    <3> QED
      BY <3>1
  <2> QED
    BY <2>1
<1> HIDE DEF U
<1>3. U = Nat
  BY <1>1, <1>2, Induct
<1> QED
  BY <1>3 DEF U

\* A state that steps G, one per element, take from a.
Steps(f, n, a, G) == f[0] = a /\ \A i \in 1..n : f[i] = G[i][f[i - 1]]

LEMMA Recursion ==
  ASSUME NEW n \in Nat, NEW S, NEW a \in S, NEW G \in [1..n -> [S -> S]]
  PROVE  \E f \in [0..n -> S] : Steps(f, n, a, G)
<1> USE DEF Steps
<1> DEFINE Good(f, k) == f[0] = a /\ \A i \in 1..k : f[i] = G[i][f[i - 1]]
           T == {k \in Nat : \E f \in [0..k -> S] : Good(f, k)}
<1>1. 0 \in T
  <2> DEFINE g == [i \in 0..0 |-> a]
  <2>1. g \in [0..0 -> S] /\ Good(g, 0)
    OBVIOUS
  <2> HIDE DEF g
  <2> QED
    BY <2>1
<1>2. ASSUME NEW k \in 1..n, k - 1 \in T PROVE k \in T
  <2>1. PICK f \in [0..(k - 1) -> S] : Good(f, k - 1)
    BY <1>2
  <2> DEFINE g == [i \in 0..k |-> IF i = k THEN G[k][f[k - 1]] ELSE f[i]]
  <2>2. g \in [0..k -> S]
    <3>1. f[k - 1] \in S /\ G[k] \in [S -> S]
      OBVIOUS
    <3> QED
      BY <3>1
  <2>3. Good(g, k)
    BY <2>1
  <2> HIDE DEF g
  <2> QED
    BY <2>2, <2>3
<1> HIDE DEF T
<1>3. n \in T
  <2>1. \A k \in 1..n : k - 1 \in T => k \in T
    BY <1>2
  <2>2. 0..n \subseteq T
    BY <1>1, <2>1, InductTo
  <2> QED
    BY <2>2
<1> QED
  BY <1>3 DEF T
-----------------------------------------------------------------------------
(* The bars that are left when some are deleted.                            *)

AppBar ==
  {b \in [win : Windows, edge : Edges \cup {None}, mon : Monitors \cup {None},
          rect : [Sides -> Int], clean : BOOLEAN, overlap : BOOLEAN, autohide : BOOLEAN] :
     b.clean => b.edge # None /\ b.mon # None}
OneEach(bs) == \A i, j \in 1..Len(bs) : bs[i].win = bs[j].win => i = j

\* The bars of ks come in the order they have among the first i of bs.
Orderly(ks, bs, i) ==
  \A j1, j2 \in 1..Len(ks) :
     j1 < j2 => \E k1, k2 \in 1..i : k1 < k2 /\ bs[k1] = ks[j1] /\ bs[k2] = ks[j2]
\* ks are the first i bars of bs but for those whose windows are in ws.
Keeps(ks, bs, i, ws) ==
  /\ ks \in Seq(AppBar) /\ OneEach(ks) /\ Orderly(ks, bs, i)
  /\ \A j \in 1..Len(ks) : \E k \in 1..i : bs[k] = ks[j] /\ bs[k].win \notin ws
  /\ \A k \in 1..i : bs[k].win \notin ws => \E j \in 1..Len(ks) : ks[j] = bs[k]

LEMMA KeepsNext ==
  ASSUME NEW bs \in Seq(AppBar), OneEach(bs), NEW ws, NEW i \in 1..Len(bs),
         NEW ks, Keeps(ks, bs, i - 1, ws)
  PROVE  Keeps(IF bs[i].win \in ws THEN ks ELSE Append(ks, bs[i]), bs, i, ws)
<1>1. Len(bs) \in Nat /\ bs[i] \in AppBar /\ i \in Nat
  BY LenProperties, ElementOfSeq
<1>2. 1..i = 1..(i - 1) \cup {i} /\ i \notin 1..(i - 1)
  BY <1>1
<1>3. CASE bs[i].win \in ws
  BY <1>2, <1>3 DEF Keeps, Orderly
<1>4. CASE bs[i].win \notin ws
  <2> DEFINE ls == Append(ks, bs[i])
  <2>1. /\ ls \in Seq(AppBar) /\ Len(ls) = Len(ks) + 1 /\ Len(ks) \in Nat
        /\ \A j \in 1..Len(ks) : ls[j] = ks[j]
        /\ ls[Len(ks) + 1] = bs[i]
    BY <1>1, AppendProperties, LenProperties DEF Keeps
  <2> HIDE DEF ls
  <2>2. 1..Len(ls) = 1..Len(ks) \cup {Len(ks) + 1}
    BY <2>1
  <2>3. \A j \in 1..Len(ks) : ls[j].win # bs[i].win
    <3> SUFFICES ASSUME NEW j \in 1..Len(ks) PROVE ls[j].win # bs[i].win
      OBVIOUS
    <3>1. PICK k \in 1..(i - 1) : bs[k] = ks[j]
      BY DEF Keeps
    <3>2. k \in 1..Len(bs) /\ k # i
      BY <1>1, <3>1
    <3> QED
      BY <2>1, <3>1, <3>2 DEF OneEach
  <2>4. OneEach(ls)
    <3> SUFFICES ASSUME NEW j \in 1..Len(ls), NEW k \in 1..Len(ls), ls[j].win = ls[k].win
                 PROVE  j = k
      BY DEF OneEach
    <3>1. CASE j \in 1..Len(ks) /\ k \in 1..Len(ks)
      BY <2>1, <3>1 DEF Keeps, OneEach
    <3>2. CASE j = Len(ks) + 1 \/ k = Len(ks) + 1
      BY <2>1, <2>2, <2>3, <3>2
    <3> QED
      BY <2>2, <3>1, <3>2
  <2>5. \A j \in 1..Len(ls) : \E k \in 1..i : bs[k] = ls[j] /\ bs[k].win \notin ws
    <3> SUFFICES ASSUME NEW j \in 1..Len(ls)
                 PROVE  \E k \in 1..i : bs[k] = ls[j] /\ bs[k].win \notin ws
      OBVIOUS
    <3>1. CASE j \in 1..Len(ks)
      <4>1. PICK k \in 1..(i - 1) : bs[k] = ks[j] /\ bs[k].win \notin ws
        BY <3>1 DEF Keeps
      <4>2. k \in 1..i /\ bs[k] = ls[j]
        BY <1>2, <2>1, <3>1, <4>1
      <4> QED
        BY <4>1, <4>2
    <3>2. CASE j = Len(ks) + 1
      BY <1>2, <1>4, <2>1, <3>2
    <3> QED
      BY <2>2, <3>1, <3>2
  <2>6. \A k \in 1..i : bs[k].win \notin ws => \E j \in 1..Len(ls) : ls[j] = bs[k]
    BY <1>2, <2>1, <2>2 DEF Keeps
  <2>8. Orderly(ls, bs, i)
    <3> SUFFICES ASSUME NEW j1 \in 1..Len(ls), NEW j2 \in 1..Len(ls), j1 < j2
                 PROVE  \E k1, k2 \in 1..i : k1 < k2 /\ bs[k1] = ls[j1] /\ bs[k2] = ls[j2]
      BY DEF Orderly
    <3>1. j1 \in 1..Len(ks)
      BY <2>1, <2>2
    <3>2. CASE j2 \in 1..Len(ks)
      <4>1. PICK k1 \in 1..(i - 1), k2 \in 1..(i - 1) :
               k1 < k2 /\ bs[k1] = ks[j1] /\ bs[k2] = ks[j2]
        BY <3>1, <3>2 DEF Keeps, Orderly
      <4> QED
        BY <1>2, <2>1, <3>1, <3>2, <4>1
    <3>3. CASE j2 = Len(ks) + 1
      <4>1. PICK k \in 1..(i - 1) : bs[k] = ks[j1]
        BY <3>1 DEF Keeps
      <4>2. k \in 1..i /\ i \in 1..i /\ k < i
        BY <1>1, <4>1
      <4>3. bs[k] = ls[j1] /\ bs[i] = ls[j2]
        BY <2>1, <3>1, <3>3, <4>1
      <4> QED
        BY <4>2, <4>3
    <3> QED
      BY <2>2, <3>2, <3>3
  <2>7. Keeps(ls, bs, i, ws)
    BY <2>1, <2>4, <2>5, <2>6, <2>8 DEF Keeps
  <2> QED
    BY <1>4, <2>7 DEF ls
<1> QED
  BY <1>3, <1>4

LEMMA Deleted ==
  ASSUME NEW bs \in Seq(AppBar), OneEach(bs), NEW ws
  PROVE  Keeps(Delete(bs, ws), bs, Len(bs), ws)
<1> DEFINE n == Len(bs)
           S == Seq(AppBar)
           G == [i \in 1..n |-> [ks \in S |-> IF bs[i].win \in ws THEN ks ELSE Append(ks, bs[i])]]
           R(f) == f = [i \in 0..n |-> IF i = 0 THEN <<>>
                         ELSE IF bs[i].win \in ws THEN f[i - 1] ELSE Append(f[i - 1], bs[i])]
           kept == CHOOSE f : R(f)
<1>1. n \in Nat /\ \A i \in 1..n : bs[i] \in AppBar
  BY LenProperties, ElementOfSeq
<1>2. G \in [1..n -> [S -> S]]
  BY <1>1
<1>3. \E f : R(f)
  <2>0. <<>> \in S
    OBVIOUS
  <2>1. PICK f \in [0..n -> S] : Steps(f, n, <<>>, G)
    <3> HIDE DEF G, S, n
    <3> QED
      BY <1>1, <1>2, <2>0, Recursion
  <2> HIDE DEF n
  <2>2. f[0] = <<>> /\ \A i \in 1..n : f[i] = G[i][f[i - 1]]
    BY <2>1 DEF Steps
  <2>3. ASSUME NEW i \in 0..n
        PROVE  f[i] = IF i = 0 THEN <<>>
                      ELSE IF bs[i].win \in ws THEN f[i - 1] ELSE Append(f[i - 1], bs[i])
    <3>1. CASE i = 0
      BY <2>2, <3>1
    <3>2. CASE i # 0
      <4>1. i \in 1..n /\ f[i - 1] \in S
        BY <1>1, <3>2
      <4>2. f[i] = G[i][f[i - 1]]
        <5> HIDE DEF G
        <5> QED
          BY <2>2, <4>1
      <4> QED
        BY <3>2, <4>1, <4>2
    <3> QED
      BY <3>1, <3>2
  <2>4. f = [i \in 0..n |-> f[i]]
    OBVIOUS
  <2>5. R(f)
    <3> HIDE DEF G
    <3> QED
      BY <2>3, <2>4, Zenon
  <2> QED
    BY <2>5
<1>4. R(kept)
  BY <1>3
<1>5. Delete(bs, ws) = kept[n]
  BY DEF Delete
<1> HIDE DEF kept
<1>6. kept[0] = <<>>
  BY <1>1, <1>4
<1>7. ASSUME NEW i \in 1..n
      PROVE  kept[i] = IF bs[i].win \in ws THEN kept[i - 1] ELSE Append(kept[i - 1], bs[i])
  <2>1. i \in 0..n /\ i # 0
    BY <1>1
  <2> HIDE DEF n
  <2> QED
    BY <1>4, <2>1
<1> DEFINE T == {i \in 0..n : Keeps(kept[i], bs, i, ws)}
<1>8. 0 \in T
  <2>1. <<>> \in Seq(AppBar) /\ 1..0 = {} /\ Len(<<>>) = 0
    OBVIOUS
  <2>2. Keeps(<<>>, bs, 0, ws)
    BY <2>1 DEF Keeps, OneEach, Orderly
  <2> QED
    BY <1>1, <1>6, <2>2
<1>9. ASSUME NEW i \in 1..n, i - 1 \in T PROVE i \in T
  <2>1. Keeps(kept[i - 1], bs, i - 1, ws)
    BY <1>9
  <2>2. Keeps(IF bs[i].win \in ws THEN kept[i - 1] ELSE Append(kept[i - 1], bs[i]), bs, i, ws)
    BY <2>1, KeepsNext
  <2> QED
    BY <1>1, <1>7, <2>2
<1> HIDE DEF T
<1>10. n \in T
  <2>1. \A i \in 1..n : i - 1 \in T => i \in T
    BY <1>9
  <2>2. 0..n \subseteq T
    <3> HIDE DEF n
    <3> QED
      BY <1>1, <1>8, <2>1, InductTo
  <2> QED
    BY <1>1, <2>2
<1> QED
  BY <1>5, <1>10 DEF T

-----------------------------------------------------------------------------
(* What is left of a monitor: at each side, the end of the bar that reaches *)
(* furthest into it, or the side of the area they are taken from.           *)

Rects == [Sides -> Int]
\* At side s, y is as far into the monitor as x, or further.
Within(s, x, y) == IF s \in {"left", "top"} THEN x <= y ELSE y <= x
\* Bars that adjustWorkArea subtracts at side s.
Stands(b, m, live, s) == TakesRoom(b, m) /\ b.win \in live /\ b.edge = s
\* Where those among the first i bars end.
Ends(bs, i, m, live, s) ==
  {x \in Int : \E k \in 1..i : Stands(bs[k], m, live, s) /\ x = bs[k].rect[Opposite[s]]}
Furthest(s, x, X) == x \in X /\ \A y \in X : Within(s, y, x)
\* r is left of base by the first i bars.
Rest(r, base, bs, i, m, live) ==
  /\ r \in Rects
  /\ \A s \in Sides : Furthest(s, r[s], {base[s]} \cup Ends(bs, i, m, live, s))

\* Left with the state it depends on as parameters.
Without(r, b, m, live) ==
  IF TakesRoom(b, m) /\ b.win \in live THEN Subtract(r, b.edge, b.rect) ELSE r
LeftOf(bs, m, base, live) ==
  LET Step(r, b) == IF TakesRoom(b, m) /\ b.win \in live THEN Subtract(r, b.edge, b.rect) ELSE r
      after[i \in 0 .. Len(bs)] == IF i = 0 THEN base ELSE Step(after[i - 1], bs[i])
  IN after[Len(bs)]

LEMMA SidesOpposite ==
  ASSUME NEW s \in Sides
  PROVE  Opposite[s] \in Sides
BY DEF Sides, Opposite

LEMMA Subtracted ==
  ASSUME NEW r \in Rects, NEW s \in Sides, NEW bar \in Rects
  PROVE  /\ Subtract(r, s, bar) \in Rects
         /\ Furthest(s, Subtract(r, s, bar)[s], {r[s], bar[Opposite[s]]})
         /\ \A t \in Sides \ {s} : Subtract(r, s, bar)[t] = r[t]
<1> DEFINE end == bar[Opposite[s]]
<1>1. end \in Int /\ r[s] \in Int
  BY SidesOpposite DEF Rects
<1> HIDE DEF end
<1>2. Inward[s] * (end - r[s]) > 0 <=> ~Within(s, end, r[s])
  BY <1>1 DEF Inward, Sides, Within
<1>3. Subtract(r, s, bar) = IF ~Within(s, end, r[s]) THEN [r EXCEPT ![s] = end] ELSE r
  BY <1>2 DEF Subtract, end
<1>4. Within(s, r[s], r[s]) /\ Within(s, end, end) /\ (Within(s, end, r[s]) \/ Within(s, r[s], end))
  BY <1>1 DEF Within
<1>5. CASE Within(s, end, r[s])
  <2>1. Subtract(r, s, bar) = r
    BY <1>3, <1>5
  <2>2. Furthest(s, r[s], {r[s], end})
    BY <1>4, <1>5 DEF Furthest
  <2> QED
    BY <2>1, <2>2 DEF end
<1>6. CASE ~Within(s, end, r[s])
  <2> DEFINE q == [r EXCEPT ![s] = end]
  <2>1. Subtract(r, s, bar) = q
    BY <1>3, <1>6
  <2>2. q \in Rects /\ q[s] = end /\ \A t \in Sides \ {s} : q[t] = r[t]
    BY <1>1 DEF Rects
  <2>3. Furthest(s, end, {r[s], end})
    BY <1>4, <1>6 DEF Furthest
  <2> HIDE DEF q
  <2> QED
    BY <2>1, <2>2, <2>3 DEF end
<1> QED
  BY <1>5, <1>6

LEMMA OneMoreEnd ==
  ASSUME NEW bs, NEW i \in Nat \ {0}, NEW m, NEW live, NEW s
  PROVE  Ends(bs, i, m, live, s)
         = Ends(bs, i - 1, m, live, s)
           \cup {x \in Int : Stands(bs[i], m, live, s) /\ x = bs[i].rect[Opposite[s]]}
<1>1. 1..i = 1..(i - 1) \cup {i}
  OBVIOUS
<1> QED
  BY <1>1 DEF Ends

LEMMA RestNext ==
  ASSUME NEW bs \in Seq(AppBar), NEW i \in 1..Len(bs), NEW m \in Monitors, NEW live,
         NEW base \in Rects, NEW r, Rest(r, base, bs, i - 1, m, live)
  PROVE  Rest(Without(r, bs[i], m, live), base, bs, i, m, live)
<1> DEFINE b == bs[i]
<1>1. i \in Nat \ {0} /\ b \in AppBar
  BY LenProperties, ElementOfSeq
<1>2. \A s : ~Stands(b, m, live, s) => Ends(bs, i, m, live, s) = Ends(bs, i - 1, m, live, s)
  <2> SUFFICES ASSUME NEW s, ~Stands(b, m, live, s)
               PROVE  Ends(bs, i, m, live, s) = Ends(bs, i - 1, m, live, s)
    OBVIOUS
  <2>1. 1..i = 1..(i - 1) \cup {i}
    BY <1>1
  <2> QED
    BY <2>1 DEF Ends
<1>4. CASE ~(TakesRoom(b, m) /\ b.win \in live)
  <2>1. \A s \in Sides : Ends(bs, i, m, live, s) = Ends(bs, i - 1, m, live, s)
    BY <1>2, <1>4 DEF Stands
  <2> QED
    BY <1>4, <2>1 DEF Rest, Without
<1>3. CASE TakesRoom(b, m) /\ b.win \in live
  <2> DEFINE q == Subtract(r, b.edge, b.rect)
             t == b.edge
             end == b.rect[Opposite[t]]
  <2>1. t \in Sides /\ b.rect \in Rects /\ r \in Rects
    BY <1>1, <1>3, BarsAssumption DEF AppBar, Rects, TakesRoom, Rest
  <2>2. /\ q \in Rects /\ Furthest(t, q[t], {r[t], end})
        /\ \A s \in Sides \ {t} : q[s] = r[s]
    BY <2>1, Subtracted
  <2>3. Without(r, b, m, live) = q
    BY <1>3 DEF Without
  <2>4. end \in Int
    BY <2>1, SidesOpposite DEF Rects
  <2>5. Ends(bs, i, m, live, t) = Ends(bs, i - 1, m, live, t) \cup {end}
    <3>1. {x \in Int : Stands(b, m, live, t) /\ x = end} = {end}
      BY <1>3, <2>4 DEF Stands
    <3> QED
      BY <1>1, <3>1, OneMoreEnd
  <2>6. \A s \in Sides \ {t} : Ends(bs, i, m, live, s) = Ends(bs, i - 1, m, live, s)
    BY <1>2 DEF Stands
  <2> HIDE DEF q, t, end
  <2>7. Furthest(t, q[t], {base[t]} \cup Ends(bs, i, m, live, t))
    <3> DEFINE X == {base[t]} \cup Ends(bs, i - 1, m, live, t)
    <3>1. X \subseteq Int /\ q[t] \in Int /\ r[t] \in Int
      BY <2>1, <2>2 DEF Rects, Ends
    <3>2. Furthest(t, r[t], X)
      BY <2>1 DEF Rest
    <3> HIDE DEF X
    <3>3. Furthest(t, q[t], X \cup {end})
      BY <2>2, <2>4, <3>1, <3>2 DEF Furthest, Within
    <3> QED
      BY <2>5, <3>3 DEF X
  <2>8. \A s \in Sides \ {t} : Furthest(s, q[s], {base[s]} \cup Ends(bs, i, m, live, s))
    BY <2>2, <2>6 DEF Rest
  <2> QED
    BY <2>2, <2>3, <2>7, <2>8 DEF Rest
<1> QED
  BY <1>3, <1>4

LEMMA LeftIs ==
  ASSUME NEW bs \in Seq(AppBar), NEW m \in Monitors, NEW live, NEW base \in Rects
  PROVE  Rest(LeftOf(bs, m, base, live), base, bs, Len(bs), m, live)
<1> DEFINE n == Len(bs)
           G == [i \in 1..n |-> [r \in Rects |-> Without(r, bs[i], m, live)]]
           R(f) == f = [i \in 0..n |-> IF i = 0 THEN base
                         ELSE IF TakesRoom(bs[i], m) /\ bs[i].win \in live
                              THEN Subtract(f[i - 1], bs[i].edge, bs[i].rect) ELSE f[i - 1]]
           after == CHOOSE f : R(f)
<1>1. n \in Nat /\ \A i \in 1..n : bs[i] \in AppBar
  BY LenProperties, ElementOfSeq
<1>2. ASSUME NEW i \in 1..n, NEW r \in Rects
      PROVE  Without(r, bs[i], m, live) \in Rects
  <2>1. CASE TakesRoom(bs[i], m) /\ bs[i].win \in live
    <3>1. bs[i].edge \in Sides /\ bs[i].rect \in Rects
      BY <1>1, <2>1, BarsAssumption DEF AppBar, Rects, TakesRoom
    <3> QED
      BY <2>1, <3>1, Subtracted DEF Without
  <2>2. CASE ~(TakesRoom(bs[i], m) /\ bs[i].win \in live)
    BY <2>2 DEF Without
  <2> QED
    BY <2>1, <2>2
<1>3. G \in [1..n -> [Rects -> Rects]]
  BY <1>2
<1>4. \E f : R(f)
  <2>1. PICK f \in [0..n -> Rects] : Steps(f, n, base, G)
    <3> HIDE DEF G, n
    <3> QED
      BY <1>1, <1>3, Recursion
  <2> HIDE DEF n
  <2>2. f[0] = base /\ \A i \in 1..n : f[i] = G[i][f[i - 1]]
    BY <2>1 DEF Steps
  <2>3. ASSUME NEW i \in 0..n
        PROVE  f[i] = IF i = 0 THEN base
                      ELSE IF TakesRoom(bs[i], m) /\ bs[i].win \in live
                           THEN Subtract(f[i - 1], bs[i].edge, bs[i].rect) ELSE f[i - 1]
    <3>1. CASE i = 0
      BY <2>2, <3>1
    <3>2. CASE i # 0
      <4>1. i \in 1..n /\ f[i - 1] \in Rects
        BY <1>1, <3>2
      <4>2. f[i] = G[i][f[i - 1]]
        <5> HIDE DEF G
        <5> QED
          BY <2>2, <4>1
      <4>3. f[i] = Without(f[i - 1], bs[i], m, live)
        BY <4>1, <4>2
      <4> QED
        BY <3>2, <4>3 DEF Without
    <3> QED
      BY <3>1, <3>2
  <2>4. f = [i \in 0..n |-> f[i]]
    OBVIOUS
  <2>5. R(f)
    <3> HIDE DEF G
    <3> QED
      BY <2>3, <2>4, Zenon
  <2> QED
    BY <2>5
<1>5. R(after)
  BY <1>4
<1>6. LeftOf(bs, m, base, live) = after[n]
  BY DEF LeftOf
<1> HIDE DEF after
<1>7. after[0] = base
  BY <1>1, <1>5
<1>8. ASSUME NEW i \in 1..n PROVE after[i] = Without(after[i - 1], bs[i], m, live)
  <2>1. i \in 0..n /\ i # 0
    BY <1>1
  <2> HIDE DEF n
  <2> QED
    BY <1>5, <2>1 DEF Without
<1> DEFINE T == {i \in 0..n : Rest(after[i], base, bs, i, m, live)}
<1>9. 0 \in T
  <2>1. \A s \in Sides : Ends(bs, 0, m, live, s) = {}
    BY DEF Ends
  <2>2. \A s \in Sides : Within(s, base[s], base[s])
    BY DEF Within, Rects
  <2>3. Rest(base, base, bs, 0, m, live)
    BY <2>1, <2>2 DEF Rest, Furthest
  <2> QED
    BY <1>1, <1>7, <2>3
<1>10. ASSUME NEW i \in 1..n, i - 1 \in T PROVE i \in T
  <2>1. Rest(after[i - 1], base, bs, i - 1, m, live)
    BY <1>10
  <2>2. Rest(Without(after[i - 1], bs[i], m, live), base, bs, i, m, live)
    BY <2>1, RestNext
  <2> QED
    BY <1>1, <1>8, <2>2
<1> HIDE DEF T
<1>11. n \in T
  <2>1. \A i \in 1..n : i - 1 \in T => i \in T
    BY <1>10
  <2>2. 0..n \subseteq T
    <3> HIDE DEF n
    <3> QED
      BY <1>1, <1>9, <2>1, InductTo
  <2> QED
    BY <1>1, <2>2
<1> QED
  BY <1>6, <1>11 DEF T

\* Bars that stand in the same places leave the same.
SameEnds(bs, live, cs, live2, m) ==
  \A s \in Sides : Ends(bs, Len(bs), m, live, s) = Ends(cs, Len(cs), m, live2, s)

LEMMA LeftSame ==
  ASSUME NEW bs \in Seq(AppBar), NEW cs \in Seq(AppBar), NEW m \in Monitors,
         NEW live, NEW live2, NEW base \in Rects, SameEnds(bs, live, cs, live2, m)
  PROVE  LeftOf(bs, m, base, live) = LeftOf(cs, m, base, live2)
<1> DEFINE q == LeftOf(bs, m, base, live)
           r == LeftOf(cs, m, base, live2)
<1>1. Rest(q, base, bs, Len(bs), m, live) /\ Rest(r, base, cs, Len(cs), m, live2)
  BY LeftIs
<1> HIDE DEF q, r
<1>2. ASSUME NEW s \in Sides PROVE q[s] = r[s]
  <2>1. q[s] \in Int /\ r[s] \in Int
    BY <1>1 DEF Rest, Rects
  <2>2. Within(s, q[s], r[s]) /\ Within(s, r[s], q[s])
    BY <1>1 DEF Rest, Furthest, SameEnds
  <2> QED
    BY <2>1, <2>2 DEF Within
<1>3. q \in Rects /\ r \in Rects
  BY <1>1 DEF Rest
<1>4. q = [s \in Sides |-> q[s]] /\ r = [s \in Sides |-> r[s]]
  BY <1>3 DEF Rects
<1>5. q = r
  BY <1>2, <1>4
<1> QED
  BY <1>5 DEF q, r

LEMMA LeftRect ==
  ASSUME NEW bs \in Seq(AppBar), NEW m \in Monitors, NEW live, NEW base \in Rects
  PROVE  LeftOf(bs, m, base, live) \in Rects
BY LeftIs DEF Rest

-----------------------------------------------------------------------------
(* Where a bar is put is a rectangle.                                       *)

ScreenRect == Screen \in Rects

LEMMA ScreenIs == ScreenRect
BY BarsAssumption DEF ScreenRect, Screen, Rects, Sides

LEMMA BroadIs ==
  ASSUME NEW r \in Rects, NEW s \in Sides
  PROVE  Broad(r, s) \in Rects
BY DEF Broad, Rects, Sides, Opposite, Inward

LEMMA YieldIs ==
  ASSUME NEW b \in AppBar, b.clean, NEW s \in Sides,
         NEW q \in [dst : Rects, found : BOOLEAN]
  PROVE  Yield(b, s, q) \in [dst : Rects, found : BOOLEAN]
<1>1. b.edge \in Sides /\ b.rect \in Rects
  BY BarsAssumption DEF AppBar, Rects
<1> DEFINE Set(t) == [q EXCEPT !.dst[t] = b.rect[Opposite[t]]]
<1>2. ASSUME NEW t \in Sides PROVE Set(t) \in [dst : Rects, found : BOOLEAN]
  <2>1. b.rect[Opposite[t]] \in Int
    BY <1>1, SidesOpposite DEF Rects
  <2> DEFINE x == b.rect[Opposite[t]]
             d == [q.dst EXCEPT ![t] = x]
  <2>2. d \in Rects
    <3> HIDE DEF x
    <3> QED
      BY <2>1 DEF Rects, x
  <2>3. [q EXCEPT !.dst = d] \in [dst : Rects, found : BOOLEAN]
    <3> HIDE DEF d
    <3> QED
      BY <2>2
  <2> QED
    BY <2>3
<1>3. Yield(b, s, q) \in {q, Set(s), Set(b.edge)}
  <2>1. b.edge = s => Set(s) = Set(b.edge)
    OBVIOUS
  <2> QED
    BY <2>1 DEF Yield
<1> HIDE DEF Set
<1> QED
  BY <1>1, <1>2, <1>3

(* What modifyNormalBar makes of the first i bars of bs, without the fold.  *)
Scan == [dst : Rects, found : BOOLEAN]
Scans(s, b, w, e, m) ==
  CASE b.win = w /\ ~b.overlap /\ b.mon = m -> [s EXCEPT !.found = TRUE]
    [] b.win # w /\ TakesRoom(b, m) -> Yield(b, e, s)
    [] OTHER -> s

\* Bar b is found to be that of w.
Own(b, w, m) == b.win = w /\ ~b.overlap /\ b.mon = m
\* Bar i stands at edge e and pushes w, whose bar has not been found yet.
Heads(bs, w, e, m, i) ==
  bs[i].win # w /\ TakesRoom(bs[i], m) /\ bs[i].edge = e /\ \A j \in 1..i : ~Own(bs[j], w, m)
\* Bar b lies across, and has the better right to the corner.
Crosses(b, w, m) == b.win # w /\ TakesRoom(b, m) /\ Horizontal(b.edge)
EndOf(b) == b.rect[Opposite[b.edge]]
\* x is where the last bar ends that pushes w.
Pushed(x, bs, w, e, m, i) ==
  \/ x = Base(m)[e] /\ \A j \in 1..i : ~Heads(bs, w, e, m, j)
  \/ \E k \in 1..i : /\ Heads(bs, w, e, m, k) /\ x = EndOf(bs[k])
                     /\ \A j \in 1..i : Heads(bs, w, e, m, j) => j <= k
\* Some dst which bar b, that lies across, did not meet.
Missed(d, b, bs, w, e, m, i) ==
  /\ d \in Rects /\ ~Intersect(b.rect, d)
  /\ d[e] = Base(m)[e] \/ \E k \in 1..i : Heads(bs, w, e, m, k) /\ d[e] = EndOf(bs[k])
  /\ d[Opposite[e]] = Base(m)[Opposite[e]]
  /\ d[Opposite[b.edge]] = Base(m)[Opposite[b.edge]]
Cleared(dst, b, bs, w, e, m, i) ==
  \/ Within(b.edge, EndOf(b), dst[b.edge])
  \/ \E d : Missed(d, b, bs, w, e, m, i) /\ Within(b.edge, d[b.edge], dst[b.edge])
\* The sides that no bar moves.
Fixed(e) == {t \in Sides : t # e /\ (Horizontal(e) \/ ~Horizontal(t) \/ t \notin Edges)}
Scanned(s, bs, w, e, m, i) ==
  /\ s.found <=> \E j \in 1..i : Own(bs[j], w, m)
  /\ Pushed(s.dst[e], bs, w, e, m, i)
  /\ \A t \in Fixed(e) : s.dst[t] = Base(m)[t]
  /\ Horizontal(e) \/ \A t \in 1..i : Crosses(bs[t], w, m) => Cleared(s.dst, bs[t], bs, w, e, m, i)

\* What one bar does to dst.
Pushes(s, b, w, e, m) == b.win # w /\ TakesRoom(b, m) /\ b.edge = e /\ ~s.found
Meets(s, b, w, e, m)  == Crosses(b, w, m) /\ ~Horizontal(e) /\ b.edge # e /\ Intersect(b.rect, s.dst)
ScanStep(s, q, b, w, e, m) ==
  /\ q.found <=> s.found \/ Own(b, w, m)
  /\ Pushes(s, b, w, e, m) => q.dst = [s.dst EXCEPT ![e] = EndOf(b)]
  /\ Meets(s, b, w, e, m) => q.dst = [s.dst EXCEPT ![b.edge] = EndOf(b)]
  /\ Pushes(s, b, w, e, m) \/ Meets(s, b, w, e, m) \/ q.dst = s.dst

LEMMA ScansIs ==
  ASSUME NEW b \in AppBar, NEW w, NEW e \in Sides, NEW m \in Monitors, NEW s \in Scan,
         NEW q, q = Scans(s, b, w, e, m)
  PROVE  ScanStep(s, q, b, w, e, m)
<1> USE DEF ScanStep
<1>0. /\ s.found \in BOOLEAN /\ s.dst \in Rects /\ s = [dst |-> s.dst, found |-> s.found]
  BY DEF Scan
<1>1. CASE Own(b, w, m)
  <2>1. q = [s EXCEPT !.found = TRUE]
    BY <1>1 DEF Own, Scans
  <2>2. q.dst = s.dst /\ q.found = TRUE
    BY <1>0, <2>1
  <2>3. ~Pushes(s, b, w, e, m) /\ ~Meets(s, b, w, e, m)
    BY <1>1 DEF Own, Pushes, Meets, Crosses
  <2> QED
    BY <1>1, <2>2, <2>3
<1>2. CASE ~Own(b, w, m) /\ ~(b.win # w /\ TakesRoom(b, m))
  <2>1. q = s
    BY <1>2 DEF Own, Scans
  <2>2. ~Pushes(s, b, w, e, m) /\ ~Meets(s, b, w, e, m)
    BY <1>2 DEF Pushes, Meets, Crosses
  <2> QED
    BY <1>2, <2>1, <2>2
<1>3. CASE b.win # w /\ TakesRoom(b, m)
  <2>0. q = Yield(b, e, s) /\ ~Own(b, w, m)
    BY <1>3 DEF Own, Scans
  <2>1. CASE Pushes(s, b, w, e, m)
    <3>1. q = [s EXCEPT !.dst[e] = b.rect[Opposite[e]]] /\ b.edge = e
      BY <2>0, <2>1 DEF Pushes, Yield
    <3>2. q.dst = [s.dst EXCEPT ![e] = EndOf(b)] /\ q.found = s.found
      BY <1>0, <3>1 DEF EndOf
    <3>3. ~Meets(s, b, w, e, m)
      BY <3>1 DEF Meets
    <3> QED
      BY <2>0, <2>1, <3>2, <3>3
  <2>2. CASE Meets(s, b, w, e, m)
    <3>1. q = [s EXCEPT !.dst[b.edge] = b.rect[Opposite[b.edge]]] /\ b.edge # e
      BY <2>0, <2>2 DEF Meets, Crosses, Yield
    <3>2. q.dst = [s.dst EXCEPT ![b.edge] = EndOf(b)] /\ q.found = s.found
      BY <1>0, <3>1 DEF EndOf
    <3>3. ~Pushes(s, b, w, e, m)
      BY <3>1 DEF Pushes
    <3> QED
      BY <2>0, <2>2, <3>2, <3>3
  <2>3. CASE ~Pushes(s, b, w, e, m) /\ ~Meets(s, b, w, e, m)
    <3>1. q = s
      BY <1>3, <2>0, <2>3 DEF Pushes, Meets, Crosses, Yield
    <3> QED
      BY <2>0, <2>3, <3>1
  <2> QED
    BY <2>1, <2>2, <2>3
<1> QED
  BY <1>1, <1>2, <1>3

LEMMA ScanStart ==
  ASSUME NEW bs, NEW w, NEW e, NEW m, NEW s, s = [dst |-> Base(m), found |-> FALSE]
  PROVE  Scanned(s, bs, w, e, m, 0)
<1>1. s.dst = Base(m) /\ s.found = FALSE /\ 1..0 = {}
  OBVIOUS
<1> QED
  BY <1>1 DEF Scanned, Pushed

LEMMA WithinTwice ==
  ASSUME NEW s, NEW x \in Int, NEW y \in Int, NEW z \in Int, Within(s, x, y), Within(s, y, z)
  PROVE  Within(s, x, z)
BY DEF Within

\* Bars that meet dst push it inward.
LEMMA MetEnds ==
  ASSUME NEW b \in AppBar, NEW d \in Rects, Intersect(b.rect, d), Horizontal(b.edge)
  PROVE  Within(b.edge, d[b.edge], EndOf(b))
<1>1. b.rect \in Rects
  BY DEF AppBar, Rects
<1>2. /\ d["top"] \in Int /\ d["bottom"] \in Int /\ b.rect["top"] \in Int /\ b.rect["bottom"] \in Int
  BY <1>1 DEF Rects, Sides
<1>3. d["top"] < b.rect["bottom"] /\ b.rect["top"] < d["bottom"]
  BY DEF Intersect, Opposite
<1>4. CASE b.edge = "top"
  BY <1>2, <1>3, <1>4 DEF EndOf, Opposite, Within
<1>5. CASE b.edge = "bottom"
  BY <1>2, <1>3, <1>5 DEF EndOf, Opposite, Within
<1> QED
  BY <1>4, <1>5 DEF Horizontal

LEMMA ScanNext ==
  ASSUME NEW bs \in Seq(AppBar), NEW i \in 1..Len(bs), NEW w, NEW e \in Edges, NEW m \in Monitors,
         def \in Rects, NoneFacing, NEW s \in Scan, Scanned(s, bs, w, e, m, i - 1),
         NEW q \in Scan, q = Scans(s, bs[i], w, e, m)
  PROVE  Scanned(q, bs, w, e, m, i)
<1> DEFINE b == bs[i]
<1>1. b \in AppBar /\ i \in Nat /\ e \in Sides
  BY LenProperties, ElementOfSeq, BarsAssumption
<1>2. 1..i = 1..(i - 1) \cup {i} /\ \A k \in 1..(i - 1) : k \in Nat /\ k < i
  BY <1>1
<1>3. /\ q.found <=> s.found \/ Own(b, w, m)
      /\ Pushes(s, b, w, e, m) => q.dst = [s.dst EXCEPT ![e] = EndOf(b)]
      /\ Meets(s, b, w, e, m) => q.dst = [s.dst EXCEPT ![b.edge] = EndOf(b)]
      /\ Pushes(s, b, w, e, m) \/ Meets(s, b, w, e, m) \/ q.dst = s.dst
  <2>1. ScanStep(s, q, b, w, e, m)
    BY <1>1, ScansIs
  <2> QED
    BY <2>1 DEF ScanStep
<1>4. s.found <=> \E j \in 1..(i - 1) : Own(bs[j], w, m)
  BY DEF Scanned
<1>5. s.dst \in Rects /\ q.dst \in Rects
  BY DEF Scan
<1>6. TakesRoom(b, m) => b.edge \in Edges /\ b.edge \in Sides /\ EndOf(b) \in Int
  BY <1>1, SidesOpposite, BarsAssumption DEF TakesRoom, AppBar, EndOf
<1>7. Heads(bs, w, e, m, i) <=> Pushes(s, b, w, e, m)
  BY <1>2, <1>4 DEF Heads, Pushes, Own
<1> HIDE DEF b
<1>8. q.found <=> \E j \in 1..i : Own(bs[j], w, m)
  BY <1>2, <1>3, <1>4 DEF b
<1>9. Pushed(q.dst[e], bs, w, e, m, i)
  <2>1. CASE Pushes(s, b, w, e, m)
    <3>1. q.dst[e] = EndOf(b)
      BY <1>1, <1>3, <1>5, <2>1 DEF Rects
    <3>2. i \in 1..i /\ \A j \in 1..i : j <= i
      BY <1>1, <1>2
    <3> QED
      BY <1>7, <2>1, <3>1, <3>2 DEF Pushed, b
  <2>2. CASE ~Pushes(s, b, w, e, m)
    <3>1. q.dst[e] = s.dst[e]
      BY <1>1, <1>3, <1>5, <1>6, <2>2 DEF Rects, Meets, Crosses
    <3>2. Pushed(s.dst[e], bs, w, e, m, i - 1) /\ ~Heads(bs, w, e, m, i)
      BY <1>7, <2>2 DEF Scanned
    <3> QED
      BY <1>2, <3>1, <3>2 DEF Pushed
  <2> QED
    BY <2>1, <2>2
<1>10. ASSUME NEW t \in Fixed(e) PROVE q.dst[t] = Base(m)[t]
  <2>1. s.dst[t] = Base(m)[t] /\ t \in Sides /\ t # e
    BY DEF Scanned, Fixed
  <2>2. Meets(s, b, w, e, m) => t # b.edge
    BY <1>6 DEF Fixed, Meets, Crosses
  <2>3. q.dst[t] = s.dst[t]
    BY <1>3, <1>5, <2>1, <2>2 DEF Rects
  <2> QED
    BY <2>1, <2>3
<1>11. ASSUME ~Horizontal(e), NEW t \in 1..i, Crosses(bs[t], w, m)
       PROVE  Cleared(q.dst, bs[t], bs, w, e, m, i)
  <2> DEFINE c == bs[t]
  <2>1. c \in AppBar /\ c.edge \in Edges /\ c.edge \in Sides /\ EndOf(c) \in Int /\ Horizontal(c.edge)
        /\ Crosses(c, w, m)
    <3>1. t \in 1..Len(bs)
      BY <1>1, LenProperties
    <3>2. c \in AppBar
      BY <3>1, ElementOfSeq
    <3> QED
      BY <1>11, <3>2, SidesOpposite, BarsAssumption DEF Crosses, TakesRoom, AppBar, EndOf
  <2>2. c.edge # e
    BY <1>11, <2>1
  <2>3. CASE t \in 1..(i - 1)
    <3>1. Cleared(s.dst, c, bs, w, e, m, i - 1)
      BY <1>11, <2>3 DEF Scanned
    <3>2. Within(c.edge, s.dst[c.edge], q.dst[c.edge])
      <4>1. s.dst[c.edge] \in Int
        BY <1>5, <2>1 DEF Rects
      <4>2. CASE Meets(s, b, w, e, m) /\ b.edge = c.edge
        <5>1. Within(b.edge, s.dst[b.edge], EndOf(b))
          BY <1>1, <1>5, <4>2, MetEnds DEF Meets, Crosses, b
        <5>2. q.dst[c.edge] = EndOf(b)
          BY <1>3, <1>5, <2>1, <4>2 DEF Rects
        <5> QED
          BY <4>2, <5>1, <5>2
      <4>3. CASE ~(Meets(s, b, w, e, m) /\ b.edge = c.edge)
        <5>1. q.dst[c.edge] = s.dst[c.edge]
          BY <1>3, <1>5, <2>1, <2>2, <4>3 DEF Rects
        <5> QED
          BY <4>1, <5>1 DEF Within
      <4> QED
        BY <4>2, <4>3
    <3>3. s.dst[c.edge] \in Int /\ q.dst[c.edge] \in Int
      BY <1>5, <2>1 DEF Rects
    <3>4. CASE Within(c.edge, EndOf(c), s.dst[c.edge])
      BY <2>1, <3>2, <3>3, <3>4, WithinTwice DEF Cleared
    <3>5. ASSUME NEW d, Missed(d, c, bs, w, e, m, i - 1), Within(c.edge, d[c.edge], s.dst[c.edge])
          PROVE  Cleared(q.dst, c, bs, w, e, m, i)
      <4>1. d[c.edge] \in Int
        BY <2>1, <3>5 DEF Missed, Rects
      <4>2. Within(c.edge, d[c.edge], q.dst[c.edge])
        BY <3>2, <3>3, <3>5, <4>1, WithinTwice
      <4>3. Missed(d, c, bs, w, e, m, i)
        BY <1>2, <3>5 DEF Missed
      <4> QED
        BY <4>2, <4>3 DEF Cleared
    <3> QED
      BY <3>1, <3>4, <3>5 DEF Cleared
  <2>4. CASE t = i
    <3>1. c = b
      BY <2>4 DEF b
    <3>2. CASE Meets(s, b, w, e, m)
      <4>1. q.dst[c.edge] = EndOf(c)
        BY <1>3, <1>5, <2>1, <3>1, <3>2 DEF Rects
      <4>2. Within(c.edge, EndOf(c), q.dst[c.edge])
        BY <2>1, <4>1 DEF Within
      <4> QED
        BY <4>2 DEF Cleared
    <3>3. CASE ~Meets(s, b, w, e, m)
      <4>1. q.dst = s.dst /\ ~Intersect(c.rect, s.dst)
        BY <1>3, <1>11, <2>1, <2>2, <3>1, <3>3 DEF Meets, Pushes
      <4>2. Opposite[e] \in Fixed(e) /\ Opposite[c.edge] \in Fixed(e)
        <5>1. /\ Opposite[e] \in Sides /\ Opposite[e] \notin Edges /\ Opposite[e] # e
              /\ Opposite[c.edge] \in Sides /\ Opposite[c.edge] \notin Edges /\ Opposite[c.edge] # e
          BY <1>1, <2>1, SidesOpposite DEF NoneFacing
        <5> QED
          BY <5>1 DEF Fixed
      <4>3. s.dst[e] = Base(m)[e] \/ \E k \in 1..i : Heads(bs, w, e, m, k) /\ s.dst[e] = EndOf(bs[k])
        BY <1>2 DEF Scanned, Pushed
      <4>4. Missed(s.dst, c, bs, w, e, m, i)
        BY <1>5, <4>1, <4>2, <4>3 DEF Missed, Scanned
      <4>5. Within(c.edge, s.dst[c.edge], q.dst[c.edge])
        <5>1. s.dst[c.edge] \in Int
          BY <1>5, <2>1 DEF Rects
        <5> QED
          BY <4>1, <5>1 DEF Within
      <4> QED
        BY <4>4, <4>5 DEF Cleared
    <3> QED
      BY <3>2, <3>3
  <2> QED
    BY <1>2, <2>3, <2>4
<1> QED
  BY <1>8, <1>9, <1>10, <1>11 DEF Scanned
LEMMA NormalScan ==
  ASSUME NEW bs \in Seq(AppBar), NEW w, NEW e \in Sides, NEW m \in Monitors, def \in Rects
  PROVE  \E s \in Scan : /\ NormalRect(bs, w, e, m) = Broad(s.dst, e)
                         /\ NoneFacing /\ e \in Edges => Scanned(s, bs, w, e, m, Len(bs))
<1> DEFINE n == Len(bs)
           a == [dst |-> Base(m), found |-> FALSE]
           S == Scan
           Step(s, b) == Scans(s, b, w, e, m)
           G == [i \in 1..n |-> [s \in S |-> Step(s, bs[i])]]
           R(f) == f = [i \in 0..n |-> IF i = 0 THEN a ELSE Step(f[i - 1], bs[i])]
           after == CHOOSE f : R(f)
<1>1. n \in Nat /\ \A i \in 1..n : bs[i] \in AppBar
  BY LenProperties, ElementOfSeq
<1>2. a \in S
  BY ScreenIs DEF Base, ScreenRect, Scan
<1>3. ASSUME NEW i \in 1..n, NEW s \in S PROVE Step(s, bs[i]) \in S
  <2>1. CASE bs[i].win # w /\ TakesRoom(bs[i], m)
    BY <1>1, <2>1, YieldIs DEF TakesRoom, Scan, Scans
  <2>2. CASE ~(bs[i].win # w /\ TakesRoom(bs[i], m))
    BY <2>2 DEF Scan, Scans
  <2> QED
    BY <2>1, <2>2
<1> HIDE DEF a
<1>4. G \in [1..n -> [S -> S]]
  <2> HIDE DEF S, Step
  <2> QED
    BY <1>3
<1>5. \E f : R(f)
  <2>1. PICK f \in [0..n -> S] : Steps(f, n, a, G)
    <3> HIDE DEF G, n, S
    <3> QED
      BY <1>1, <1>2, <1>4, Recursion
  <2> HIDE DEF n, Step, S
  <2>2. f[0] = a /\ \A i \in 1..n : f[i] = G[i][f[i - 1]]
    BY <2>1 DEF Steps
  <2>3. ASSUME NEW i \in 0..n
        PROVE  f[i] = IF i = 0 THEN a ELSE Step(f[i - 1], bs[i])
    <3>1. CASE i = 0
      BY <2>2, <3>1
    <3>2. CASE i # 0
      <4>1. i \in 1..n /\ f[i - 1] \in S
        BY <1>1, <3>2
      <4>2. f[i] = G[i][f[i - 1]]
        <5> HIDE DEF G
        <5> QED
          BY <2>2, <4>1
      <4> QED
        BY <3>2, <4>1, <4>2
    <3> QED
      BY <3>1, <3>2
  <2>4. f = [i \in 0..n |-> f[i]]
    OBVIOUS
  <2>5. R(f)
    <3> HIDE DEF G
    <3> QED
      BY <2>3, <2>4, Zenon
  <2> QED
    BY <2>5
<1>6. R(after)
  BY <1>5
<1>7. NormalRect(bs, w, e, m) = Broad(after[n].dst, e)
  BY DEF NormalRect, Scans, a
<1> HIDE DEF after
<1> DEFINE Fine(i) == NoneFacing /\ e \in Edges => Scanned(after[i], bs, w, e, m, i)
           T == {i \in 0..n : after[i] \in S /\ Fine(i)}
<1>8. 0 \in T
  <2>1. after[0] = a
    BY <1>1, <1>6
  <2>2. Scanned(a, bs, w, e, m, 0)
    BY ScanStart DEF a
  <2> QED
    BY <1>1, <1>2, <2>1, <2>2
<1>9. ASSUME NEW i \in 1..n, i - 1 \in T PROVE i \in T
  <2>1. i \in 0..n /\ i # 0
    BY <1>1
  <2>2. after[i] = Step(after[i - 1], bs[i])
    <3> HIDE DEF n, Step
    <3> QED
      BY <1>6, <2>1
  <2>3. after[i - 1] \in S /\ Fine(i - 1)
    BY <1>9
  <2>4. after[i] \in S
    <3> HIDE DEF S, Step, n
    <3> QED
      BY <1>3, <2>1, <2>2, <2>3
  <2>5. Fine(i)
    <3> SUFFICES ASSUME NoneFacing, e \in Edges PROVE Scanned(after[i], bs, w, e, m, i)
      OBVIOUS
    <3>1. Scanned(after[i - 1], bs, w, e, m, i - 1)
      BY <2>3
    <3>2. after[i - 1] \in Scan /\ after[i] \in Scan /\ i \in 1..Len(bs)
      BY <2>3, <2>4
    <3>3. after[i] = Scans(after[i - 1], bs[i], w, e, m)
      BY <2>2
    <3> QED
      BY <3>1, <3>2, <3>3, ScanNext
  <2> QED
    BY <2>1, <2>4, <2>5
<1> HIDE DEF T
<1>10. n \in T
  <2>1. \A i \in 1..n : i - 1 \in T => i \in T
    BY <1>9
  <2>2. 0..n \subseteq T
    <3> HIDE DEF n
    <3> QED
      BY <1>1, <1>8, <2>1, InductTo
  <2> QED
    BY <1>1, <2>2
<1>11. after[n] \in Scan /\ Fine(n)
  BY <1>10 DEF T
<1> QED
  BY <1>7, <1>11

LEMMA NormalIs ==
  ASSUME NEW bs \in Seq(AppBar), NEW w, NEW e \in Sides, NEW m \in Monitors, def \in Rects
  PROVE  NormalRect(bs, w, e, m) \in Rects
<1>1. PICK s \in Scan : NormalRect(bs, w, e, m) = Broad(s.dst, e)
  BY NormalScan
<1>2. s.dst \in Rects
  BY DEF Scan
<1> QED
  BY <1>1, <1>2, BroadIs

\* The place that modifyNormalBar finds.
PlacedAt(d, r, bs, w, e, m) ==
  /\ r \in Rects /\ r[e] = d[e] /\ r[Opposite[e]] = d[e] + Inward[e]
  /\ \A t \in Sides : t # Opposite[e] => r[t] = d[t]
  /\ Pushed(d[e], bs, w, e, m, Len(bs))
  /\ \A t \in Fixed(e) : d[t] = Base(m)[t]
  /\ Horizontal(e) \/ \A t \in 1..Len(bs) :
                       Crosses(bs[t], w, m) => Cleared(d, bs[t], bs, w, e, m, Len(bs))
LEMMA PlaceFound ==
  ASSUME NEW bs \in Seq(AppBar), NEW w, NEW e \in Edges, NEW m \in Monitors, def \in Rects, NoneFacing,
         NEW r, r = NormalRect(bs, w, e, m)
  PROVE  \E d \in Rects : PlacedAt(d, r, bs, w, e, m)
<1>1. e \in Sides
  BY BarsAssumption
<1>2. PICK s \in Scan : r = Broad(s.dst, e) /\ Scanned(s, bs, w, e, m, Len(bs))
  <2>1. PICK s \in Scan : /\ NormalRect(bs, w, e, m) = Broad(s.dst, e)
                          /\ NoneFacing /\ e \in Edges => Scanned(s, bs, w, e, m, Len(bs))
    BY <1>1, NormalScan
  <2> QED
    BY <2>1
<1>3. PICK d : d = s.dst
  OBVIOUS
<1>4. d \in Rects /\ r = [d EXCEPT ![Opposite[e]] = d[e] + Inward[e]]
  BY <1>2, <1>3 DEF Scan, Broad
<1>5. Opposite[e] \in Sides /\ Opposite[e] # e
  BY <1>1 DEF Sides, Opposite
<1>6. /\ r \in Rects /\ r[e] = d[e] /\ r[Opposite[e]] = d[e] + Inward[e]
      /\ \A t \in Sides : t # Opposite[e] => r[t] = d[t]
  <2>1. d[e] + Inward[e] \in Int
    BY <1>1, <1>4 DEF Rects, Inward, Sides
  <2> QED
    BY <1>1, <1>4, <1>5, <2>1 DEF Rects
<1>7. /\ Pushed(d[e], bs, w, e, m, Len(bs))
      /\ \A t \in Fixed(e) : d[t] = Base(m)[t]
      /\ Horizontal(e) \/ \A t \in 1..Len(bs) : Crosses(bs[t], w, m) => Cleared(d, bs[t], bs, w, e, m, Len(bs))
  BY <1>2, <1>3 DEF Scanned
<1> QED
  BY <1>4, <1>6, <1>7 DEF PlacedAt

\* A bar at the top or the bottom is as long as the monitor.
SpansAt(r, base) == \A s \in Sides : Horizontal(s) \/ r[s] = base[s]
LEMMA PlaceSpans ==
  ASSUME NEW bs \in Seq(AppBar), NEW w, NEW e \in Edges, NEW m \in Monitors, def \in Rects, NoneFacing,
         NEW r, r = NormalRect(bs, w, e, m), Horizontal(e)
  PROVE  SpansAt(r, Base(m))
<1>1. PICK d \in Rects : PlacedAt(d, r, bs, w, e, m)
  BY PlaceFound
<1>2. \A t \in Sides : ~Horizontal(t) => t # Opposite[e] /\ t # e
  BY DEF Horizontal, Opposite
<1> QED
  BY <1>1, <1>2 DEF SpansAt, Fixed, PlacedAt

\* If a bar at the left or the right is put over a bar that lies across, a bar before it
\* ends further in than where it is put.
LEMMA PlaceCrosses ==
  ASSUME NEW bs \in Seq(AppBar), NEW w, NEW e \in Edges, NEW m \in Monitors, def \in Rects, NoneFacing,
         NEW r, r = NormalRect(bs, w, e, m), ~Horizontal(e),
         NEW t \in 1..Len(bs), Crosses(bs[t], w, m), SpansAt(bs[t].rect, Base(m)), Intersect(bs[t].rect, r)
  PROVE  \E k \in 1..Len(bs) : Heads(bs, w, e, m, k) /\ ~Within(e, EndOf(bs[k]), r[e])
<1> DEFINE c == bs[t].rect
           h == bs[t].edge
           base == Base(m)
<1>1. e \in {"left", "right"} /\ h \in {"top", "bottom"} /\ h \in Edges
  <2>1. bs[t] \in AppBar
    BY ElementOfSeq
  <2> QED
    BY <2>1, BarsAssumption DEF Sides, Horizontal, Crosses, TakesRoom, AppBar
<1>2. PICK d \in Rects :
            /\ r \in Rects /\ r[e] = d[e] /\ r[Opposite[e]] = d[e] + Inward[e]
            /\ \A s \in Sides : s # Opposite[e] => r[s] = d[s]
            /\ \A s \in Fixed(e) : d[s] = base[s]
            /\ Cleared(d, bs[t], bs, w, e, m, Len(bs))
  <2>1. PICK d \in Rects : PlacedAt(d, r, bs, w, e, m)
    BY PlaceFound
  <2> QED
    BY <2>1 DEF PlacedAt
<1>3. EndOf(bs[t]) = c[Opposite[h]]
  BY DEF EndOf
<1>4. c \in Rects /\ base \in Rects
  <2>1. bs[t] \in AppBar
    BY ElementOfSeq
  <2> QED
    BY <2>1, ScreenIs DEF AppBar, Rects, Base, ScreenRect
<1>5. c["left"] = base["left"] /\ c["right"] = base["right"]
  BY DEF SpansAt, Sides, Horizontal
<1>6. Intersect(c, r)
  OBVIOUS
<1>7. r[h] = d[h] /\ r[Opposite[h]] = base[Opposite[h]]
  <2>1. h \in Sides /\ Opposite[h] \in Sides /\ h # Opposite[e] /\ Opposite[h] # Opposite[e] /\ Opposite[h] # e
    BY <1>1 DEF Sides, Opposite
  <2>2. Opposite[h] \in Fixed(e)
    BY <1>1, <2>1 DEF Fixed, NoneFacing
  <2> QED
    BY <1>2, <2>1, <2>2
<1>8. ~Within(h, EndOf(bs[t]), d[h])
  <2>1. \A s \in Sides : c[s] \in Int /\ r[s] \in Int /\ d[s] \in Int
    BY <1>2, <1>4 DEF Rects
  <2>2. c["top"] < r["bottom"] /\ r["top"] < c["bottom"]
    BY <1>6 DEF Intersect, Opposite
  <2>3. CASE h = "top"
    BY <1>3, <1>7, <2>1, <2>2, <2>3 DEF Within, Opposite, Sides
  <2>4. CASE h = "bottom"
    BY <1>3, <1>7, <2>1, <2>2, <2>4 DEF Within, Opposite, Sides
  <2> HIDE DEF h
  <2> QED
    BY <1>1, <2>3, <2>4
<1>9. PICK x : Missed(x, bs[t], bs, w, e, m, Len(bs)) /\ Within(h, x[h], d[h])
  BY <1>2, <1>8 DEF Cleared
<1>10. /\ x \in Rects /\ ~Intersect(c, x)
       /\ x[Opposite[e]] = base[Opposite[e]] /\ x[Opposite[h]] = base[Opposite[h]]
       /\ x[e] = base[e] \/ \E k \in 1..Len(bs) : Heads(bs, w, e, m, k) /\ x[e] = EndOf(bs[k])
  BY <1>9 DEF Missed
<1>11. \A s \in Sides : c[s] \in Int /\ r[s] \in Int /\ d[s] \in Int /\ x[s] \in Int /\ base[s] \in Int
  BY <1>2, <1>4, <1>10 DEF Rects
<1> HIDE DEF c, h, base
<1>16. /\ Opposite["left"] = "right" /\ Opposite["right"] = "left"
       /\ Opposite["top"] = "bottom" /\ Opposite["bottom"] = "top"
  BY DEF Opposite
<1>17. {"left", "right", "top", "bottom"} \subseteq Sides
  BY DEF Sides
<1>18. /\ x[Opposite[e]] = base[Opposite[e]] /\ x[Opposite[h]] = base[Opposite[h]]
  BY <1>10
<1>12. c["top"] < c["bottom"] /\ x["top"] < x["bottom"] /\ c["top"] < x["bottom"] /\ x["top"] < c["bottom"]
  <2>1. c["top"] < c["bottom"] /\ r["top"] < r["bottom"] /\ c["top"] < r["bottom"] /\ r["top"] < c["bottom"]
    BY <1>6 DEF Intersect, Opposite
  <2>2. CASE h = "top"
    <3>1. r["bottom"] = x["bottom"] /\ r["top"] = d["top"] /\ x["top"] <= d["top"]
      BY <1>7, <1>9, <1>16, <1>18, <2>2 DEF Within
    <3> QED
      BY <1>11, <1>17, <2>1, <3>1
  <2>3. CASE h = "bottom"
    <3>1. r["top"] = x["top"] /\ r["bottom"] = d["bottom"] /\ d["bottom"] <= x["bottom"]
      BY <1>7, <1>9, <1>16, <1>18, <2>3 DEF Within
    <3> QED
      BY <1>11, <1>17, <2>1, <3>1
  <2> QED
    BY <1>1, <2>2, <2>3
<1>13. ~(c["left"] < c["right"] /\ x["left"] < x["right"] /\ c["left"] < x["right"] /\ x["left"] < c["right"])
  BY <1>10, <1>12 DEF Intersect, Opposite
<1>14. /\ c["left"] < c["right"] /\ r["left"] < r["right"] /\ c["left"] < r["right"] /\ r["left"] < c["right"]
  BY <1>6 DEF Intersect, Opposite
<1>15. x[e] # base[e] /\ ~Within(e, x[e], r[e])
  <2>1. CASE e = "left"
    <3>1. x["right"] = base["right"]
      BY <1>16, <1>18, <2>1
    <3>2. x["left"] # base["left"] /\ ~(x["left"] <= r["left"])
      BY <1>5, <1>11, <1>13, <1>14, <1>17, <3>1
    <3> QED
      BY <2>1, <3>2 DEF Within
  <2>2. CASE e = "right"
    <3>1. x["left"] = base["left"]
      BY <1>16, <1>18, <2>2
    <3>2. x["right"] # base["right"] /\ ~(r["right"] <= x["right"])
      BY <1>5, <1>11, <1>13, <1>14, <1>17, <3>1
    <3> QED
      BY <2>2, <3>2 DEF Within
  <2> QED
    BY <1>1, <2>1, <2>2
<1> QED
  BY <1>10, <1>15

-----------------------------------------------------------------------------
(* Changing one bar, adding one, deleting some.                             *)

Regular(bs) == bs \in Seq(AppBar) /\ OneEach(bs)

LEMMA BarAt ==
  ASSUME NEW bs, Regular(bs)
  PROVE  /\ Len(bs) \in Nat /\ DOMAIN bs = 1..Len(bs)
         /\ \A i \in 1..Len(bs) : bs[i] \in AppBar
BY LenProperties, ElementOfSeq DEF Regular

LEMMA Found ==
  ASSUME NEW bs, Regular(bs), NEW w, IsBar(bs, w)
  PROVE  /\ IndexOf(bs, w) \in 1..Len(bs) /\ bs[IndexOf(bs, w)].win = w
         /\ \A j \in 1..Len(bs) : bs[j].win = w => j = IndexOf(bs, w)
<1>1. DOMAIN bs = 1..Len(bs)
  BY BarAt
<1>2. \E i \in DOMAIN bs : bs[i].win = w
  BY DEF IsBar
<1>3. IndexOf(bs, w) \in DOMAIN bs /\ bs[IndexOf(bs, w)].win = w
  BY <1>2 DEF IndexOf
<1>4. \A j \in 1..Len(bs) : bs[j].win = w => j = IndexOf(bs, w)
  BY <1>1, <1>3 DEF Regular, OneEach
<1> QED
  BY <1>1, <1>3, <1>4

LEMMA Kept ==
  ASSUME NEW bs, Regular(bs), NEW ws, NEW ks, ks = Delete(bs, ws)
  PROVE  /\ Regular(ks)
         /\ \A w : IsBar(ks, w) => IsBar(bs, w) /\ w \notin ws
         /\ \A w : IsBar(bs, w) /\ w \notin ws
                     => IsBar(ks, w) /\ ks[IndexOf(ks, w)] = bs[IndexOf(bs, w)]
<1>1. Keeps(ks, bs, Len(bs), ws)
  BY Deleted DEF Regular
<1>2. Regular(ks)
  BY <1>1 DEF Keeps, Regular
<1>3. DOMAIN ks = 1..Len(ks) /\ DOMAIN bs = 1..Len(bs)
  BY <1>2, BarAt
<1>4. ASSUME NEW w, IsBar(ks, w) PROVE IsBar(bs, w) /\ w \notin ws
  <2>1. PICK j \in 1..Len(ks) : ks[j].win = w
    BY <1>3, <1>4 DEF IsBar
  <2>2. PICK k \in 1..Len(bs) : bs[k] = ks[j] /\ bs[k].win \notin ws
    BY <1>1 DEF Keeps
  <2> QED
    BY <1>3, <2>1, <2>2 DEF IsBar
<1>5. ASSUME NEW w, IsBar(bs, w), w \notin ws
      PROVE  IsBar(ks, w) /\ ks[IndexOf(ks, w)] = bs[IndexOf(bs, w)]
  <2>1. IndexOf(bs, w) \in 1..Len(bs) /\ bs[IndexOf(bs, w)].win = w
    BY <1>5, Found
  <2>2. PICK j \in 1..Len(ks) : ks[j] = bs[IndexOf(bs, w)]
    BY <1>1, <1>5, <2>1 DEF Keeps
  <2>3. IsBar(ks, w)
    BY <1>3, <2>1, <2>2 DEF IsBar
  <2>4. j = IndexOf(ks, w)
    BY <1>2, <2>1, <2>2, <2>3, Found
  <2> QED
    BY <2>2, <2>3, <2>4
<1> QED
  BY <1>2, <1>4, <1>5

\* Those that are kept have the same order.
LEMMA KeptOrder ==
  ASSUME NEW bs, Regular(bs), NEW ws, NEW ks, ks = Delete(bs, ws),
         NEW a, IsBar(ks, a), NEW b, IsBar(ks, b)
  PROVE  IndexOf(ks, a) < IndexOf(ks, b) <=> IndexOf(bs, a) < IndexOf(bs, b)
<1>1. Keeps(ks, bs, Len(bs), ws)
  BY Deleted DEF Regular
<1>2. Regular(ks) /\ Len(bs) \in Nat
  BY <1>1, BarAt DEF Keeps, Regular
<1>3. ASSUME NEW c, IsBar(ks, c), NEW d, IsBar(ks, d), IndexOf(ks, c) < IndexOf(ks, d)
      PROVE  IndexOf(bs, c) < IndexOf(bs, d)
  <2>1. /\ IndexOf(ks, c) \in 1..Len(ks) /\ ks[IndexOf(ks, c)].win = c
        /\ IndexOf(ks, d) \in 1..Len(ks) /\ ks[IndexOf(ks, d)].win = d
    BY <1>2, <1>3, Found
  <2>2. PICK k1 \in 1..Len(bs), k2 \in 1..Len(bs) :
           k1 < k2 /\ bs[k1] = ks[IndexOf(ks, c)] /\ bs[k2] = ks[IndexOf(ks, d)]
    BY <1>1, <1>3, <2>1 DEF Keeps, Orderly
  <2>3. IsBar(bs, c) /\ IsBar(bs, d)
    BY <1>3, Kept
  <2>4. k1 = IndexOf(bs, c) /\ k2 = IndexOf(bs, d)
    BY <2>1, <2>2, <2>3, Found
  <2> QED
    BY <2>2, <2>4
<1>4. /\ IndexOf(ks, a) \in 1..Len(ks) /\ ks[IndexOf(ks, a)].win = a
      /\ IndexOf(ks, b) \in 1..Len(ks) /\ ks[IndexOf(ks, b)].win = b
      /\ IndexOf(bs, a) \in 1..Len(bs) /\ IndexOf(bs, b) \in 1..Len(bs)
  BY <1>2, Found, Kept
<1>5. CASE IndexOf(ks, a) < IndexOf(ks, b)
  BY <1>3, <1>5
<1>6. CASE IndexOf(ks, b) < IndexOf(ks, a)
  <2>1. IndexOf(bs, b) < IndexOf(bs, a)
    BY <1>3, <1>6
  <2> QED
    BY <1>2, <1>4, <1>6, <2>1
<1>7. CASE IndexOf(ks, a) = IndexOf(ks, b)
  <2>1. a = b
    BY <1>4, <1>7
  <2> QED
    BY <1>4, <2>1
<1> QED
  BY <1>2, <1>4, <1>5, <1>6, <1>7, BarAt

\* Deleting bars that do not stand.
LEMMA KeptEnds ==
  ASSUME NEW bs, Regular(bs), NEW ws, NEW ks, ks = Delete(bs, ws), NEW m, NEW live, NEW live2,
         \A i \in 1..Len(bs) : \A s \in Sides :
            /\ bs[i].win \in ws => ~Stands(bs[i], m, live, s)
            /\ bs[i].win \notin ws => (Stands(bs[i], m, live2, s) <=> Stands(bs[i], m, live, s))
  PROVE  SameEnds(bs, live, ks, live2, m)
<1>1. Keeps(ks, bs, Len(bs), ws)
  BY Deleted DEF Regular
<1> SUFFICES ASSUME NEW s \in Sides
             PROVE  Ends(bs, Len(bs), m, live, s) = Ends(ks, Len(ks), m, live2, s)
  BY DEF SameEnds
<1>2. ASSUME NEW x \in Ends(bs, Len(bs), m, live, s) PROVE x \in Ends(ks, Len(ks), m, live2, s)
  <2>1. PICK k \in 1..Len(bs) : Stands(bs[k], m, live, s) /\ x = bs[k].rect[Opposite[s]]
    BY DEF Ends
  <2>2. PICK j \in 1..Len(ks) : ks[j] = bs[k]
    BY <1>1, <2>1 DEF Keeps
  <2>3. Stands(ks[j], m, live2, s) /\ x = ks[j].rect[Opposite[s]] /\ x \in Int
    BY <2>1, <2>2 DEF Ends
  <2> QED
    BY <2>3 DEF Ends
<1>3. ASSUME NEW x \in Ends(ks, Len(ks), m, live2, s) PROVE x \in Ends(bs, Len(bs), m, live, s)
  <2>1. PICK j \in 1..Len(ks) : Stands(ks[j], m, live2, s) /\ x = ks[j].rect[Opposite[s]]
    BY DEF Ends
  <2>2. PICK k \in 1..Len(bs) : bs[k] = ks[j] /\ bs[k].win \notin ws
    BY <1>1 DEF Keeps
  <2>3. Stands(bs[k], m, live, s) /\ x = bs[k].rect[Opposite[s]] /\ x \in Int
    BY <2>1, <2>2 DEF Ends
  <2> QED
    BY <2>3 DEF Ends
<1> QED
  BY <1>2, <1>3

\* b in the place of the k-th bar.
LEMMA Put ==
  ASSUME NEW bs, Regular(bs), NEW k \in 1..Len(bs), NEW b \in AppBar, b.win = bs[k].win,
         NEW cs, cs = [bs EXCEPT ![k] = b]
  PROVE  /\ Regular(cs) /\ Len(cs) = Len(bs) /\ cs[k] = b
         /\ \A i \in 1..Len(bs) : i # k => cs[i] = bs[i]
<1>1. bs \in Seq(AppBar)
  BY DEF Regular
<1>2. cs \in Seq(AppBar) /\ Len(cs) = Len(bs) /\ \A i \in 1..Len(bs) : cs[i] = IF i = k THEN b ELSE bs[i]
  BY <1>1, ExceptSeq
<1>3. OneEach(cs)
  BY <1>2 DEF Regular, OneEach
<1> QED
  BY <1>2, <1>3 DEF Regular

LEMMA PutRegular ==
  ASSUME NEW bs, Regular(bs), NEW k \in 1..Len(bs), NEW b \in AppBar, b.win = bs[k].win
  PROVE  Regular([bs EXCEPT ![k] = b])
<1> DEFINE cs == [bs EXCEPT ![k] = b]
<1>1. cs = [bs EXCEPT ![k] = b]
  OBVIOUS
<1> HIDE DEF cs
<1>2. Regular(cs)
  BY <1>1, Put
<1> QED
  BY <1>2 DEF cs

LEMMA PutEnds ==
  ASSUME NEW bs, NEW k \in 1..Len(bs), NEW cs, Len(cs) = Len(bs),
         \A i \in 1..Len(bs) : i # k => cs[i] = bs[i],
         NEW m, NEW live,
         \A s \in Sides : /\ Stands(bs[k], m, live, s) <=> Stands(cs[k], m, live, s)
                          /\ Stands(cs[k], m, live, s) => cs[k].rect = bs[k].rect
  PROVE  SameEnds(bs, live, cs, live, m)
<1> SUFFICES ASSUME NEW s \in Sides
             PROVE  Ends(bs, Len(bs), m, live, s) = Ends(cs, Len(bs), m, live, s)
  BY DEF SameEnds
<1>1. ASSUME NEW i \in 1..Len(bs), NEW x
      PROVE  /\ Stands(bs[i], m, live, s) <=> Stands(cs[i], m, live, s)
             /\ Stands(cs[i], m, live, s) => cs[i].rect = bs[i].rect
  BY DEF Stands
<1> QED
  BY <1>1 DEF Ends

\* A new bar does not stand yet.
LEMMA Added ==
  ASSUME NEW bs, Regular(bs), NEW b \in AppBar, ~IsBar(bs, b.win), NEW cs, cs = Append(bs, b)
  PROVE  /\ Regular(cs) /\ Len(cs) = Len(bs) + 1 /\ cs[Len(bs) + 1] = b
         /\ \A i \in 1..Len(bs) : cs[i] = bs[i]
<1>1. /\ cs \in Seq(AppBar) /\ Len(cs) = Len(bs) + 1 /\ cs[Len(bs) + 1] = b
      /\ \A i \in 1..Len(bs) : cs[i] = bs[i]
  BY AppendProperties DEF Regular
<1>2. Len(bs) \in Nat /\ \A i \in 1..Len(bs) : bs[i].win # b.win
  BY BarAt DEF IsBar
<1>3. 1..Len(cs) = 1..Len(bs) \cup {Len(bs) + 1}
  BY <1>1, <1>2
<1>4. OneEach(cs)
  <2> SUFFICES ASSUME NEW i \in 1..Len(cs), NEW j \in 1..Len(cs), cs[i].win = cs[j].win
               PROVE  i = j
    BY DEF OneEach
  <2>1. CASE i \in 1..Len(bs) /\ j \in 1..Len(bs)
    BY <1>1, <2>1 DEF Regular, OneEach
  <2>2. CASE i = Len(bs) + 1 \/ j = Len(bs) + 1
    BY <1>1, <1>2, <1>3, <2>2
  <2> QED
    BY <1>3, <2>1, <2>2
<1> QED
  BY <1>1, <1>4 DEF Regular

LEMMA AddedEnds ==
  ASSUME NEW bs, Len(bs) \in Nat, NEW cs, Len(cs) = Len(bs) + 1,
         \A i \in 1..Len(bs) : cs[i] = bs[i],
         NEW m, NEW live, \A s \in Sides : ~Stands(cs[Len(bs) + 1], m, live, s)
  PROVE  SameEnds(bs, live, cs, live, m)
<1>1. 1..Len(cs) = 1..Len(bs) \cup {Len(bs) + 1}
  OBVIOUS
<1> SUFFICES ASSUME NEW s \in Sides
             PROVE  Ends(bs, Len(bs), m, live, s) = Ends(cs, Len(cs), m, live, s)
  BY DEF SameEnds
<1> QED
  BY <1>1 DEF Ends

LEMMA EndsTwice ==
  ASSUME NEW bs, NEW cs, NEW ds, NEW l1, NEW l2, NEW l3, NEW m,
         SameEnds(bs, l1, cs, l2, m), SameEnds(cs, l2, ds, l3, m)
  PROVE  SameEnds(bs, l1, ds, l3, m)
BY DEF SameEnds

\* The windows W that have a place keep one.
KeepsClean(bs, cs, W) ==
  \A w \in W : IsBar(bs, w) /\ bs[IndexOf(bs, w)].clean
                 => IsBar(cs, w) /\ cs[IndexOf(cs, w)].clean

LEMMA KeptClean ==
  ASSUME NEW bs, Regular(bs), NEW ws, NEW ks, ks = Delete(bs, ws), NEW W, W \cap ws = {}
  PROVE  KeepsClean(bs, ks, W)
BY Kept DEF KeepsClean

LEMMA PutClean ==
  ASSUME NEW bs, Regular(bs), NEW k \in 1..Len(bs), NEW cs, Regular(cs), Len(cs) = Len(bs),
         \A i \in 1..Len(bs) : i # k => cs[i] = bs[i],
         cs[k].win = bs[k].win, bs[k].clean => cs[k].clean, NEW W
  PROVE  KeepsClean(bs, cs, W)
<1> SUFFICES ASSUME NEW w, IsBar(bs, w), bs[IndexOf(bs, w)].clean
             PROVE  IsBar(cs, w) /\ cs[IndexOf(cs, w)].clean
  BY DEF KeepsClean
<1> DEFINE j == IndexOf(bs, w)
<1>1. j \in 1..Len(bs) /\ bs[j].win = w
  BY Found
<1>2. cs[j].win = w /\ cs[j].clean
  BY <1>1
<1> HIDE DEF j
<1>3. IsBar(cs, w)
  BY <1>1, <1>2, BarAt DEF IsBar
<1>4. IndexOf(cs, w) = j
  BY <1>1, <1>2, <1>3, Found
<1> QED
  BY <1>2, <1>3, <1>4

LEMMA AddedClean ==
  ASSUME NEW bs, Regular(bs), NEW cs, Regular(cs), Len(cs) = Len(bs) + 1,
         \A i \in 1..Len(bs) : cs[i] = bs[i], NEW W
  PROVE  KeepsClean(bs, cs, W)
<1> SUFFICES ASSUME NEW w, IsBar(bs, w), bs[IndexOf(bs, w)].clean
             PROVE  IsBar(cs, w) /\ cs[IndexOf(cs, w)].clean
  BY DEF KeepsClean
<1> DEFINE j == IndexOf(bs, w)
<1>1. j \in 1..Len(bs) /\ bs[j].win = w
  BY Found
<1>2. cs[j].win = w /\ cs[j].clean /\ j \in 1..Len(cs)
  BY <1>1, BarAt
<1> HIDE DEF j
<1>3. IsBar(cs, w)
  BY <1>1, <1>2, BarAt DEF IsBar
<1>4. IndexOf(cs, w) = j
  BY <1>1, <1>2, <1>3, Found
<1> QED
  BY <1>2, <1>3, <1>4

LEMMA CleanTwice ==
  ASSUME NEW bs, NEW cs, NEW ds, NEW W, KeepsClean(bs, cs, W), KeepsClean(cs, ds, W)
  PROVE  KeepsClean(bs, ds, W)
BY DEF KeepsClean

-----------------------------------------------------------------------------
(* The invariants.                                                          *)

AnswersInv ==
  /\ alive \subseteq Windows /\ told \subseteq alive
  /\ \A w \in told : IsBar(bars, w) /\ bars[IndexOf(bars, w)].clean
RectsInv == area \in [Monitors -> Rects] /\ {def, cur, external} \subseteq Rects

Notices  == [skip : Windows \cup {None}, mon : Monitors \cup {None}]
Handlers ==
  {l \in [on : BOOLEAN, sending : BOOLEAN, todo : Seq(Windows), skip : Windows \cup {None},
          mon : Monitors \cup {None}, p : Windows \cup {None}, gone : SUBSET Windows] :
     ~l.on => l = NoLoop}
MessagesInv == posted \in Seq(Notices) /\ loop \in Handlers
CountsInv ==
  /\ sent \in Nat /\ sent <= events /\ moves \in 0..MaxMoves /\ events \in 0..MaxEvents
  /\ known \subseteq Windows /\ astray \subseteq Windows /\ unadjusted \subseteq Monitors

\* The work area of m will be adjusted yet.
Pending(m) ==
  \/ \E i \in 1..Len(posted) : posted[i].mon = m
  \/ loop.on /\ loop.mon = m
  \/ m = Primary /\ sent > 0
Adjusted(m) == area[m] = Left(bars, m)
AreaInv ==
  /\ cur = area[Primary] \/ sent > 0
  /\ \A m \in Monitors : m \in unadjusted \/ Pending(m) \/ Adjusted(m)

BarsInv == Regular(bars) /\ AnswersInv /\ RectsInv

-----------------------------------------------------------------------------
(* What each action does with the bars.                                     *)

LEMMA LiveIs ==
  ASSUME BarsInv
  PROVE  /\ Regular(LiveBars)
         /\ \A w \in alive : /\ IsBar(bars, w) <=> IsBar(LiveBars, w)
                             /\ IsBar(bars, w) => LiveBars[IndexOf(LiveBars, w)] = Bar(w)
         /\ KeepsClean(bars, LiveBars, alive)
         /\ \A m : SameEnds(bars, alive, LiveBars, alive, m)
<1>1. alive \cap Dead = {} /\ \A w \in alive : w \notin Dead
  BY DEF Dead
<1>2. Regular(bars) /\ LiveBars = Delete(bars, Dead)
  BY DEF BarsInv, LiveBars
<1>3. \A i \in 1..Len(bars) : bars[i].win \in Dead => bars[i].win \notin alive
  BY DEF Dead
<1>4. \A m : SameEnds(bars, alive, LiveBars, alive, m)
  BY <1>2, <1>3, KeptEnds DEF Stands
<1> QED
  BY <1>1, <1>2, <1>4, Kept, KeptClean DEF Bar

LEMMA NewBarIs ==
  ASSUME NEW w \in Windows
  PROVE  NewBar(w) \in AppBar /\ NewBar(w).win = w /\ NewBar(w).clean = FALSE
BY ScreenIs DEF NewBar, AppBar, ScreenRect, Rects

AutoHideBar(w, e) == [NewBar(w) EXCEPT !.overlap = TRUE, !.autohide = TRUE, !.edge = e]

LEMMA AutoHideBarIs ==
  ASSUME NEW w \in Windows, NEW e \in Edges
  PROVE  /\ AutoHideBar(w, e) \in AppBar /\ AutoHideBar(w, e).win = w
         /\ AutoHideBar(w, e).clean = FALSE
BY ScreenIs DEF AutoHideBar, NewBar, AppBar, ScreenRect, Rects

\* A bar that does not stand yet is added.
LEMMA AddToLive ==
  ASSUME BarsInv, NEW b \in AppBar, ~b.clean, ~IsBar(LiveBars, b.win),
         NEW cs, cs = Append(LiveBars, b)
  PROVE  /\ Regular(cs) /\ KeepsClean(bars, cs, alive)
         /\ \A m : SameEnds(bars, alive, cs, alive, m)
<1> DEFINE L == LiveBars
<1>1. ~IsBar(L, b.win) /\ cs = Append(L, b)
  OBVIOUS
<1>2. /\ Regular(L) /\ KeepsClean(bars, L, alive)
      /\ \A m : SameEnds(bars, alive, L, alive, m)
  BY LiveIs
<1> HIDE DEF L
<1>3. /\ Regular(cs) /\ Len(cs) = Len(L) + 1 /\ cs[Len(L) + 1] = b
      /\ \A i \in 1..Len(L) : cs[i] = L[i]
  <2>1. Regular(L) /\ ~IsBar(L, b.win) /\ cs = Append(L, b) /\ b \in AppBar
    BY <1>1, <1>2
  <2>2. Regular(cs)
    BY <2>1, Added
  <2>3. Len(cs) = Len(L) + 1
    BY <2>1, Added
  <2>4. cs[Len(L) + 1] = b
    BY <2>1, Added
  <2>5. \A i \in 1..Len(L) : cs[i] = L[i]
    BY <2>1, Added
  <2> QED
    BY <2>2, <2>3, <2>4, <2>5
<1>4. KeepsClean(L, cs, alive)
  BY <1>2, <1>3, AddedClean
<1>5. \A m : SameEnds(L, alive, cs, alive, m)
  <2>1. Len(L) \in Nat
    BY <1>2, BarAt
  <2>2. \A m : \A s \in Sides : ~Stands(cs[Len(L) + 1], m, alive, s)
    BY <1>3 DEF Stands, TakesRoom
  <2> QED
    BY <1>3, <2>1, <2>2, AddedEnds
<1> QED
  BY <1>2, <1>3, <1>4, <1>5, EndsTwice, CleanTwice

LEMMA CreateBars ==
  ASSUME BarsInv, NEW w, barCreate(w)
  PROVE  /\ Regular(bars') /\ KeepsClean(bars, bars', alive)
         /\ \A m : SameEnds(bars, alive, bars', alive, m)
<1>1. w \in Windows /\ ~IsBar(LiveBars, w) /\ bars' = Append(LiveBars, NewBar(w))
  BY DEF barCreate, Callers, BarsInv, AnswersInv
<1> DEFINE b == NewBar(w)
<1>2. b \in AppBar /\ b.win = w /\ ~b.clean
  BY <1>1, NewBarIs
<1>3. ~IsBar(LiveBars, b.win) /\ bars' = Append(LiveBars, b)
  BY <1>1, <1>2
<1> HIDE DEF b
<1> QED
  BY <1>2, <1>3, AddToLive

LEMMA DestroyBars ==
  ASSUME BarsInv, NEW w, barDestroy(w)
  PROVE  /\ Regular(bars') /\ KeepsClean(bars, bars', alive \ {w})
         /\ \A m : m # Bar(w).mon => SameEnds(bars, alive, bars', alive, m)
<1> DEFINE D == Dead \cup {w}
<1>1. IsBar(bars, w) /\ Regular(bars) /\ bars' = Delete(bars, D)
  BY DEF barDestroy, BarsInv
<1>2. (alive \ {w}) \cap D = {}
  BY DEF Dead
<1>3. \A i \in 1..Len(bars) : bars[i].win \in D => bars[i].win \notin alive \/ bars[i] = Bar(w)
  BY <1>1, Found DEF Dead, Bar
<1> HIDE DEF D
<1>4. ASSUME NEW m, m # Bar(w).mon PROVE SameEnds(bars, alive, bars', alive, m)
  <2>1. \A i \in 1..Len(bars) : \A s \in Sides :
          bars[i].win \in D => ~Stands(bars[i], m, alive, s)
    BY <1>3, <1>4 DEF Stands, TakesRoom
  <2> QED
    BY <1>1, <2>1, KeptEnds
<1> QED
  BY <1>1, <1>2, <1>4, Kept, KeptClean

\* A live bar of w is replaced.
LEMMA PutLive ==
  ASSUME BarsInv, NEW w \in alive, IsBar(bars, w), NEW b \in AppBar, b.win = w,
         Bar(w).clean => b.clean,
         NEW cs, cs = [LiveBars EXCEPT ![IndexOf(LiveBars, w)] = b]
  PROVE  /\ Regular(cs) /\ KeepsClean(bars, cs, alive)
         /\ \A m : (\A s \in Sides : /\ Stands(Bar(w), m, alive, s) <=> Stands(b, m, alive, s)
                                     /\ Stands(b, m, alive, s) => b.rect = Bar(w).rect)
                     => SameEnds(bars, alive, cs, alive, m)
<1> DEFINE L == LiveBars
           k == IndexOf(L, w)
<1>1. cs = [L EXCEPT ![k] = b]
  OBVIOUS
<1>2. /\ Regular(L) /\ KeepsClean(bars, L, alive) /\ IsBar(L, w) /\ L[k] = Bar(w)
      /\ \A m : SameEnds(bars, alive, L, alive, m)
  BY LiveIs
<1>3. k \in 1..Len(L) /\ L[k].win = w
  BY <1>2, Found
<1> HIDE DEF L, k
<1>4. Regular(cs) /\ Len(cs) = Len(L) /\ cs[k] = b
  <2>1. b.win = L[k].win
    BY <1>3
  <2>2. Regular(cs)
    <3>1. Regular(L) /\ k \in 1..Len(L) /\ cs = [L EXCEPT ![k] = b]
      BY <1>1, <1>2, <1>3
    <3>2. Regular([L EXCEPT ![k] = b])
      BY <2>1, <3>1, PutRegular
    <3> QED
      BY <3>1, <3>2
  <2>3. Len(cs) = Len(L)
    BY <1>1, <1>2, <1>3, <2>1, Put
  <2>4. cs[k] = b
    BY <1>1, <1>2, <1>3, <2>1, Put
  <2> QED
    BY <2>2, <2>3, <2>4
<1>5. \A i \in 1..Len(L) : i # k => cs[i] = L[i]
  BY <1>1, <1>2, <1>3, Put
<1>6. KeepsClean(L, cs, alive)
  <2>1. cs[k].win = L[k].win
    BY <1>3, <1>4
  <2>2. L[k].clean => cs[k].clean
    BY <1>2, <1>4
  <2>3. Regular(L) /\ k \in 1..Len(L) /\ Regular(cs) /\ Len(cs) = Len(L)
    BY <1>2, <1>3, <1>4
  <2> QED
    BY <1>5, <2>1, <2>2, <2>3, PutClean
<1>7. KeepsClean(bars, cs, alive)
  BY <1>2, <1>6, CleanTwice
<1>8. ASSUME NEW m, \A s \in Sides : /\ Stands(Bar(w), m, alive, s) <=> Stands(b, m, alive, s)
                                     /\ Stands(b, m, alive, s) => b.rect = Bar(w).rect
      PROVE  SameEnds(bars, alive, cs, alive, m)
  <2>1. \A s \in Sides : /\ Stands(L[k], m, alive, s) <=> Stands(cs[k], m, alive, s)
                         /\ Stands(cs[k], m, alive, s) => cs[k].rect = L[k].rect
    BY <1>2, <1>4, <1>8
  <2>2. SameEnds(L, alive, cs, alive, m)
    BY <1>3, <1>4, <1>5, <2>1, PutEnds
  <2> QED
    BY <1>2, <2>2, EndsTwice
<1> QED
  BY <1>4, <1>7, <1>8

LEMMA BarIs ==
  ASSUME BarsInv, NEW w, IsBar(bars, w)
  PROVE  Bar(w) \in AppBar /\ Bar(w).win = w
BY Found, BarAt DEF Bar, BarsInv

\* The place a bar gets.
PosRect(w, e, m) == IF Bar(w).overlap THEN OverlapRect(e) ELSE NormalRect(LiveBars, w, e, m)

LEMMA SetPosBars ==
  ASSUME BarsInv, NEW w, NEW e \in Edges, NEW m \in Monitors, barSetPos(w, e, m)
  PROVE  /\ Regular(bars') /\ KeepsClean(bars, bars', alive)
         /\ IF Tells(Bar(w), m, PosRect(w, e, m)) THEN Notify(w, m) ELSE UNCHANGED posted
         /\ unadjusted' = unadjusted \cup LeftAlone(Bar(w), e, m, PosRect(w, e, m))
         /\ \A n : \/ n \in LeftAlone(Bar(w), e, m, PosRect(w, e, m))
                   \/ n = m /\ Tells(Bar(w), m, PosRect(w, e, m))
                   \/ SameEnds(bars, alive, bars', alive, n)
<1> DEFINE r == PosRect(w, e, m)
           b == Bar(w)
           c == Placed(b, e, m, r)
<1>1. /\ w \in alive /\ IsBar(bars, w)
      /\ bars' = [LiveBars EXCEPT ![IndexOf(LiveBars, w)] = c]
      /\ IF Tells(b, m, r) THEN Notify(w, m) ELSE UNCHANGED posted
      /\ unadjusted' = unadjusted \cup LeftAlone(b, e, m, r)
  BY DEF barSetPos, PosRect
<1>2. r \in Rects
  <2>1. e \in Sides /\ def \in Rects /\ LiveBars \in Seq(AppBar)
    BY BarsAssumption, LiveIs DEF BarsInv, RectsInv, Regular
  <2>2. NormalRect(LiveBars, w, e, m) \in Rects
    BY <2>1, NormalIs
  <2>3. OverlapRect(e) \in Rects
    BY <2>1, ScreenIs, BroadIs DEF OverlapRect, ScreenRect
  <2> QED
    BY <2>2, <2>3 DEF PosRect
<1>3. b \in AppBar /\ b.win = w
  BY <1>1, BarIs
<1> HIDE DEF r, b
<1>4. /\ c \in AppBar /\ c.win = w /\ c.clean /\ c.mon = m /\ c.edge = e /\ c.rect = r
      /\ c.overlap = b.overlap
  BY <1>2, <1>3, BarsAssumption DEF Placed, AppBar, Rects
<1> HIDE DEF c
<1>5. Regular(bars') /\ KeepsClean(bars, bars', alive)
  BY <1>1, <1>4, PutLive
<1>6. ASSUME NEW n, n \notin LeftAlone(b, e, m, r), ~(n = m /\ Tells(b, m, r))
      PROVE  SameEnds(bars, alive, bars', alive, n)
  <2>1. ASSUME NEW s \in Sides
        PROVE  /\ Stands(b, n, alive, s) <=> Stands(c, n, alive, s)
               /\ Stands(c, n, alive, s) => c.rect = b.rect
    <3>1. b.clean \in BOOLEAN /\ b.overlap \in BOOLEAN
      BY <1>3 DEF AppBar
    <3> QED
      BY <1>1, <1>3, <1>4, <1>6, <3>1 DEF Stands, TakesRoom, LeftAlone, Tells
  <2>2. \A s \in Sides : /\ Stands(Bar(w), n, alive, s) <=> Stands(c, n, alive, s)
                         /\ Stands(c, n, alive, s) => c.rect = Bar(w).rect
    BY <2>1 DEF b
  <2> QED
    BY <1>1, <1>4, <2>2, PutLive
<1> QED
  BY <1>1, <1>5, <1>6 DEF r, b

LEMMA HideBars ==
  ASSUME BarsInv, NEW w, NEW e \in Edges, NEW m, barSetAutoHide(w, e, m)
  PROVE  /\ Regular(bars') /\ KeepsClean(bars, bars', alive)
         /\ \A n : n \in unadjusted' \/ SameEnds(bars, alive, bars', alive, n)
<1>1. /\ w \in Windows /\ w \in alive
      /\ bars' = LiveBars \/ bars' = HideBar(w, e)
  BY DEF barSetAutoHide, Callers, BarsInv, AnswersInv
<1>2. CASE bars' = LiveBars
  BY <1>2, LiveIs
<1>3. CASE bars' = HideBar(w, e) /\ bars' # LiveBars /\ IsBar(bars, w)
  <2> DEFINE L == LiveBars
             k == IndexOf(L, w)
             b == Bar(w)
             a == [b EXCEPT !.autohide = TRUE]
             c == [a EXCEPT !.edge = e]
  <2>1. /\ IsBar(L, w) /\ L[k] = b /\ Regular(L)
    BY <1>1, <1>3, LiveIs
  <2>2. bars' = [L EXCEPT ![k].autohide = TRUE, ![k].edge = e]
    BY <1>3, <2>1 DEF HideBar
  <2>3. k \in DOMAIN L
    BY <2>1, BarAt, Found
  <2>4. b \in AppBar /\ b.win = w
    BY <1>3, BarIs
  <2>5. b.clean /\ ~b.overlap => b.edge = e \/ b.mon \in unadjusted'
    BY <1>3 DEF barSetAutoHide, Turns, TakesRoom
  <2>6. [L EXCEPT ![k].autohide = TRUE, ![k].edge = e] = [L EXCEPT ![k] = c]
    <3> HIDE DEF L, k, b
    <3> QED
      BY <2>1, <2>3
  <2>7. bars' = [LiveBars EXCEPT ![IndexOf(LiveBars, w)] = c]
    BY <2>2, <2>6
  <2> HIDE DEF b
  <2>8. /\ c \in AppBar /\ c.win = w /\ c.clean = b.clean /\ c.mon = b.mon /\ c.rect = b.rect
        /\ c.overlap = b.overlap /\ c.edge = e
    <3>1. e # None
      BY BarsAssumption
    <3> QED
      BY <2>4, <3>1 DEF AppBar
  <2> HIDE DEF c
  <2>11. Bar(w).clean => c.clean
    BY <2>8 DEF b
  <2>12. /\ Regular(bars') /\ KeepsClean(bars, bars', alive)
         /\ \A n : (\A s \in Sides : /\ Stands(Bar(w), n, alive, s) <=> Stands(c, n, alive, s)
                                     /\ Stands(c, n, alive, s) => c.rect = Bar(w).rect)
                     => SameEnds(bars, alive, bars', alive, n)
    BY <1>1, <1>3, <2>7, <2>8, <2>11, PutLive
  <2>13. ASSUME NEW n, n \notin unadjusted' PROVE SameEnds(bars, alive, bars', alive, n)
    <3>1. \A s \in Sides : /\ Stands(Bar(w), n, alive, s) <=> Stands(c, n, alive, s)
                           /\ Stands(c, n, alive, s) => c.rect = Bar(w).rect
      BY <2>4, <2>5, <2>8, <2>13 DEF Stands, TakesRoom, b
    <3> QED
      BY <2>12, <3>1
  <2> QED
    BY <2>12, <2>13
<1>4. CASE bars' = HideBar(w, e) /\ ~IsBar(bars, w)
  <2> DEFINE b == AutoHideBar(w, e)
  <2>1. ~IsBar(LiveBars, w)
    BY <1>1, <1>4, LiveIs
  <2>2. bars' = Append(LiveBars, b)
    BY <1>4, <2>1 DEF HideBar, AutoHideBar
  <2>3. b \in AppBar /\ b.win = w /\ ~b.clean
    BY <1>1, AutoHideBarIs
  <2>4. ~IsBar(LiveBars, b.win)
    BY <2>1, <2>3
  <2> HIDE DEF b
  <2> QED
    BY <2>2, <2>3, <2>4, AddToLive
<1> QED
  BY <1>1, <1>2, <1>3, <1>4

LEMMA ClearBars ==
  ASSUME BarsInv, NEW w, NEW e \in Edges, NEW m, barClearAutoHide(w, e, m)
  PROVE  /\ Regular(bars') /\ KeepsClean(bars, bars', told')
         /\ \A n : SameEnds(bars, alive, bars', alive, n)
<1> DEFINE L == LiveBars
           k == IndexOf(L, w)
<1>1. /\ w \in alive /\ IsBar(bars, w) /\ k \in DOMAIN L
      /\ \/ Bar(w).overlap /\ bars' = Delete(L, {w}) /\ told' = told \ {w}
         \/ ~Bar(w).overlap /\ bars' = [L EXCEPT ![k].autohide = FALSE] /\ told' = told
  BY DEF barClearAutoHide, AutoHideBars
<1>2. /\ Regular(L) /\ KeepsClean(bars, L, alive) /\ IsBar(L, w) /\ L[k] = Bar(w)
      /\ \A n : SameEnds(bars, alive, L, alive, n)
  BY <1>1, LiveIs
<1>3. Bar(w) \in AppBar /\ Bar(w).win = w
  BY <1>1, BarIs
<1>4. told \subseteq alive
  BY DEF BarsInv, AnswersInv
<1>5. CASE Bar(w).overlap /\ bars' = Delete(L, {w}) /\ told' = told \ {w}
  <2>1. \A i \in 1..Len(L) : L[i].win = w => L[i] = Bar(w)
    BY <1>2, Found
  <2> HIDE DEF L, k
  <2>2. ASSUME NEW n PROVE SameEnds(L, alive, bars', alive, n)
    <3>1. \A i \in 1..Len(L) : \A s \in Sides : L[i].win \in {w} => ~Stands(L[i], n, alive, s)
      BY <1>5, <2>1 DEF Stands, TakesRoom
    <3> QED
      BY <1>2, <1>5, <3>1, KeptEnds
  <2>3. Regular(bars')
    BY <1>2, <1>5, Kept
  <2>4. KeepsClean(L, bars', told')
    BY <1>2, <1>5, KeptClean
  <2>5. KeepsClean(bars, L, told')
    BY <1>2, <1>4, <1>5 DEF KeepsClean
  <2> QED
    BY <1>2, <2>2, <2>3, <2>4, <2>5, EndsTwice, CleanTwice
<1>6. CASE bars' = [L EXCEPT ![k].autohide = FALSE] /\ told' = told
  <2> DEFINE b == Bar(w)
             c == [b EXCEPT !.autohide = FALSE]
  <2>1. [L EXCEPT ![k].autohide = FALSE] = [L EXCEPT ![k] = c]
    <3> HIDE DEF L, k, b
    <3> QED
      BY <1>1, <1>2 DEF b
  <2>2. bars' = [LiveBars EXCEPT ![IndexOf(LiveBars, w)] = c]
    BY <1>6, <2>1
  <2> HIDE DEF b
  <2>3. /\ c \in AppBar /\ c.win = w /\ c.clean = b.clean /\ c.mon = b.mon /\ c.rect = b.rect
        /\ c.overlap = b.overlap /\ c.edge = b.edge
    BY <1>3 DEF AppBar, b
  <2> HIDE DEF c
  <2>4. \A n : \A s \in Sides : /\ Stands(Bar(w), n, alive, s) <=> Stands(c, n, alive, s)
                                /\ Stands(c, n, alive, s) => c.rect = Bar(w).rect
    BY <1>3, <2>3 DEF Stands, TakesRoom, b
  <2>5. Bar(w).clean => c.clean
    BY <2>3 DEF b
  <2>6. Regular(bars') /\ KeepsClean(bars, bars', alive)
    BY <1>1, <2>2, <2>3, <2>5, PutLive
  <2>7. \A n : SameEnds(bars, alive, bars', alive, n)
    BY <1>1, <2>2, <2>3, <2>4, <2>5, PutLive
  <2>8. KeepsClean(bars, bars', told')
    BY <1>4, <1>6, <2>6 DEF KeepsClean
  <2> QED
    BY <2>6, <2>7, <2>8
<1> QED
  BY <1>1, <1>5, <1>6

LEMMA ChangeBars ==
  ASSUME BarsInv, SettingChange
  PROVE  /\ Regular(bars') /\ KeepsClean(bars, bars', alive)
         /\ \A n : SameEnds(bars, alive, bars', alive, n)
BY LiveIs DEF SettingChange

\* A window that dies leaves the monitor where it stands to be adjusted.
LEMMA DieEnds ==
  ASSUME BarsInv, NEW w, Die(w), NEW m, m \notin unadjusted'
  PROVE  SameEnds(bars, alive, bars, alive', m)
<1>1. /\ alive' = alive \ {w}
      /\ ~(IsBar(bars, w) /\ TakesRoom(Bar(w), Bar(w).mon) /\ Bar(w).mon = m)
  BY DEF Die, ghosts
<1>2. \A i \in 1..Len(bars) : bars[i].win = w => IsBar(bars, w) /\ bars[i] = Bar(w)
  <2>1. \A i \in 1..Len(bars) : bars[i].win = w => IsBar(bars, w)
    BY BarAt DEF IsBar, BarsInv
  <2> QED
    BY <2>1, Found DEF Bar, BarsInv
<1>3. \A i \in 1..Len(bars) : \A s \in Sides :
        Stands(bars[i], m, alive, s) <=> Stands(bars[i], m, alive', s)
  BY <1>1, <1>2 DEF Stands, TakesRoom
<1> QED
  BY <1>3 DEF SameEnds, Ends

-----------------------------------------------------------------------------
(* The bars, the answers and the areas keep their types.                    *)

LEMMA BaseIs ==
  ASSUME RectsInv, NEW m \in Monitors
  PROVE  Base(m) \in Rects
BY ScreenIs DEF RectsInv, Base, ScreenRect

LEMMA LeftByState ==
  ASSUME NEW bs, NEW m
  PROVE  Left(bs, m) = LeftOf(bs, m, Base(m), alive)
BY DEF Left, LeftOf

LEMMA LeftByNext ==
  ASSUME NEW m
  PROVE  Left(bars, m)' = LeftOf(bars', m, Base(m)', alive')
BY DEF Left, LeftOf

LEMMA KeepsAnswers ==
  ASSUME AnswersInv, alive' \subseteq Windows, told' \subseteq alive', told' \subseteq told,
         KeepsClean(bars, bars', told')
  PROVE  AnswersInv'
BY DEF AnswersInv, KeepsClean

LEMMA AllKeepClean ==
  ASSUME NEW bs, NEW cs, NEW W, NEW V, KeepsClean(bs, cs, W), V \subseteq W
  PROVE  KeepsClean(bs, cs, V)
BY DEF KeepsClean

\* A bar that answers asks for an edge of a monitor.
LEMMA AnswerAt ==
  ASSUME BarsInv, NEW w \in told
  PROVE  Bar(w).edge \in Edges /\ Bar(w).mon \in Monitors
<1>1. IsBar(bars, w) /\ Bar(w).clean
  BY DEF BarsInv, AnswersInv, Bar
<1>2. Bar(w) \in AppBar
  BY <1>1, BarIs
<1> QED
  BY <1>1, <1>2 DEF AppBar

LEMMA SetPosStep ==
  ASSUME BarsInv, NEW w, NEW e \in Edges, NEW m \in Monitors, barSetPos(w, e, m)
  PROVE  BarsInv'
<1>1. /\ Regular(bars') /\ KeepsClean(bars, bars', alive)
  BY SetPosBars
<1>2. alive' = alive /\ told' \subseteq told /\ UNCHANGED areaVars
  BY DEF barSetPos
<1>3. alive \subseteq Windows /\ told \subseteq alive /\ AnswersInv /\ RectsInv
  BY DEF BarsInv, AnswersInv
<1>4. KeepsClean(bars, bars', told')
  BY <1>1, <1>2, <1>3, AllKeepClean
<1>5. AnswersInv'
  BY <1>2, <1>3, <1>4, KeepsAnswers
<1>6. RectsInv'
  BY <1>2, <1>3 DEF RectsInv, areaVars
<1> QED
  BY <1>1, <1>5, <1>6 DEF BarsInv

LEMMA BarsStep ==
  ASSUME BarsInv, MessagesInv, [Next]_vars
  PROVE  BarsInv'
<1>0. /\ Regular(bars) /\ AnswersInv /\ RectsInv
      /\ alive \subseteq Windows /\ told \subseteq alive
  BY DEF BarsInv, AnswersInv
<1>1. CASE NotifyPosChanged
  BY <1>0, <1>1 DEF NotifyPosChanged, BarsInv, AnswersInv, RectsInv, areaVars, sysVars
<1>2. CASE SendPosChanged
  <2>1. PICK i \in DOMAIN loop.todo :
           /\ TRUE \in Told(i)
           /\ told' = IF Heeds(loop.todo[i]) THEN told \cup {loop.todo[i]} ELSE told
           /\ UNCHANGED <<bars, areaVars, sent, posted, alive, ghosts, counts>>
    BY <1>2 DEF SendPosChanged
  <2>2. loop.todo[i] \in alive
    BY <2>1 DEF Told
  <2>3. Regular(bars') /\ RectsInv'
    BY <1>0, <2>1 DEF RectsInv, areaVars
  <2>4. AnswersInv'
    BY <1>0, <2>1, <2>2 DEF AnswersInv, Heeds, Bar
  <2> QED
    BY <2>3, <2>4 DEF BarsInv
<1>3. CASE AllTold
  <2>1. /\ UNCHANGED <<bars, alive, told, def, external>>
        /\ \/ UNCHANGED <<area, cur>>
           \/ /\ loop.mon # None
              /\ area' = [area EXCEPT ![loop.mon] = Left(bars, loop.mon)] /\ cur' = area'[Primary]
    BY <1>3 DEF AllTold, adjustWorkArea, setWorkArea, sysVars
  <2>2. RectsInv'
    <3>1. CASE UNCHANGED <<area, cur>>
      BY <1>0, <2>1, <3>1 DEF RectsInv
    <3>2. CASE /\ loop.mon # None
               /\ area' = [area EXCEPT ![loop.mon] = Left(bars, loop.mon)]
               /\ cur' = area'[Primary]
      <4> DEFINE m == loop.mon
                 r == Left(bars, m)
      <4>1. m \in Monitors
        BY <3>2 DEF MessagesInv, Handlers
      <4>2. r \in Rects
        BY <1>0, <4>1, BaseIs, LeftRect, LeftByState DEF Regular
      <4> HIDE DEF m, r
      <4>3. area' = [area EXCEPT ![m] = r] /\ cur' = area'[Primary]
        BY <3>2 DEF m, r
      <4>4. area' \in [Monitors -> Rects]
        BY <1>0, <4>1, <4>2, <4>3 DEF RectsInv
      <4>5. cur' \in Rects
        BY <4>3, <4>4, BarsAssumption
      <4> QED
        BY <1>0, <2>1, <4>4, <4>5 DEF RectsInv
    <3> QED
      BY <2>1, <3>1, <3>2
  <2>3. Regular(bars') /\ AnswersInv'
    BY <1>0, <2>1 DEF AnswersInv
  <2> QED
    BY <2>2, <2>3 DEF BarsInv
<1>4. CASE SettingChange
  <2>1. Regular(bars') /\ KeepsClean(bars, bars', alive)
    BY <1>4, ChangeBars
  <2>2. /\ alive' = alive /\ told' = told
        /\ cur' = area[Primary] /\ def' = area[Primary] /\ UNCHANGED <<area, external>>
    BY <1>4 DEF SettingChange, sysVars
  <2>3. KeepsClean(bars, bars', told')
    BY <1>0, <2>1, <2>2, AllKeepClean
  <2>4. AnswersInv'
    BY <1>0, <2>2, <2>3, KeepsAnswers
  <2>5. RectsInv'
    BY <1>0, <2>2, BarsAssumption DEF RectsInv
  <2> QED
    BY <2>1, <2>4, <2>5 DEF BarsInv
<1>5. ASSUME NEW r \in WorkAreas, SetExternally(r) PROVE BarsInv'
  <2>1. r \in Rects
    BY BarsAssumption DEF Rects
  <2>2. /\ UNCHANGED <<bars, alive, told, def, cur>> /\ external' = r
        /\ area' = [area EXCEPT ![Primary] = r]
    BY <1>5 DEF SetExternally, sysVars
  <2>3. RectsInv'
    BY <1>0, <2>1, <2>2 DEF RectsInv
  <2> QED
    BY <1>0, <2>2, <2>3 DEF BarsInv, AnswersInv
<1>6. ASSUME NEW w \in Windows, barCreate(w) PROVE BarsInv'
  <2>1. Regular(bars') /\ KeepsClean(bars, bars', alive)
    BY <1>6, CreateBars
  <2>2. alive' = alive /\ told' = told /\ UNCHANGED areaVars
    BY <1>6 DEF barCreate, sysVars
  <2>3. KeepsClean(bars, bars', told')
    BY <1>0, <2>1, <2>2, AllKeepClean
  <2>4. AnswersInv'
    BY <1>0, <2>2, <2>3, KeepsAnswers
  <2> QED
    BY <1>0, <2>1, <2>2, <2>4 DEF BarsInv, RectsInv, areaVars
<1>7. ASSUME NEW w \in Windows, barDestroy(w) PROVE BarsInv'
  <2>1. Regular(bars') /\ KeepsClean(bars, bars', alive \ {w})
    BY <1>7, DestroyBars
  <2>2. alive' = alive /\ told' = told \ {w} /\ UNCHANGED areaVars
    BY <1>7 DEF barDestroy, sysVars
  <2>3. KeepsClean(bars, bars', told')
    BY <1>0, <2>1, <2>2, AllKeepClean
  <2>4. AnswersInv'
    BY <1>0, <2>2, <2>3, KeepsAnswers
  <2> QED
    BY <1>0, <2>1, <2>2, <2>4 DEF BarsInv, RectsInv, areaVars
<1>8. ASSUME NEW w \in Windows, Answer(w) PROVE BarsInv'
  BY <1>8, AnswerAt, SetPosStep DEF Answer
<1>9. ASSUME NEW w \in Windows, Die(w) PROVE BarsInv'
  <2>1. /\ UNCHANGED <<bars, areaVars>> /\ alive' = alive \ {w} /\ told' = told \ {w}
    BY <1>9 DEF Die
  <2> QED
    BY <1>0, <2>1 DEF BarsInv, AnswersInv, RectsInv, areaVars
<1>10. ASSUME NEW w \in Windows, NEW q \in Places, Move(w, q[1], q[2]) PROVE BarsInv'
  BY <1>10, BarsAssumption, SetPosStep DEF Move
<1>11. ASSUME NEW w \in Windows, NEW q \in Places, barSetAutoHide(w, q[1], q[2]) PROVE BarsInv'
  <2>1. q[1] \in Edges
    BY BarsAssumption
  <2>2. Regular(bars') /\ KeepsClean(bars, bars', alive)
    BY <1>11, <2>1, HideBars
  <2>3. alive' = alive /\ told' = told /\ UNCHANGED areaVars
    BY <1>11 DEF barSetAutoHide, sysVars
  <2>4. KeepsClean(bars, bars', told')
    BY <1>0, <2>2, <2>3, AllKeepClean
  <2>5. AnswersInv'
    BY <1>0, <2>3, <2>4, KeepsAnswers
  <2> QED
    BY <1>0, <2>2, <2>3, <2>5 DEF BarsInv, RectsInv, areaVars
<1>12. ASSUME NEW w \in Windows, NEW q \in Places, barClearAutoHide(w, q[1], q[2]) PROVE BarsInv'
  <2>1. q[1] \in Edges
    BY BarsAssumption
  <2>2. Regular(bars') /\ KeepsClean(bars, bars', told')
    BY <1>12, <2>1, ClearBars
  <2>3. alive' = alive /\ told' \subseteq told /\ UNCHANGED areaVars
    BY <1>12 DEF barClearAutoHide
  <2>4. AnswersInv'
    BY <1>0, <2>2, <2>3, KeepsAnswers
  <2> QED
    BY <1>0, <2>2, <2>3, <2>4 DEF BarsInv, RectsInv, areaVars
<1>13. CASE UNCHANGED vars
  BY <1>0, <1>13 DEF vars, BarsInv, AnswersInv, RectsInv, areaVars, sysVars
<1> HIDE DEF BarsInv
<1> QED
  BY <1>1, <1>2, <1>3, <1>4, <1>5, <1>6, <1>7, <1>8, <1>9, <1>10, <1>11, <1>12, <1>13
     DEF Next, Service

-----------------------------------------------------------------------------
(* The messages and the counts keep theirs.                                 *)

LEMMA DeadIs ==
  ASSUME BarsInv
  PROVE  Dead \subseteq Windows
BY BarAt DEF BarsInv, Dead, AppBar

LEMMA DangleIs ==
  ASSUME loop \in Handlers, NEW ws \in SUBSET Windows, Dangle(ws)
  PROVE  loop' \in Handlers /\ loop'.on = loop.on /\ loop'.mon = loop.mon
<1> DEFINE g == IF loop.on THEN loop.gone \cup {w \in ws : w \in ToSet(loop.todo) \/ w = loop.p}
                ELSE loop.gone
<1>1. loop' = [loop EXCEPT !.gone = g]
  BY DEF Dangle
<1>2. g \in SUBSET Windows
  BY DEF Handlers
<1>3. ~loop.on => loop = NoLoop /\ g = loop.gone
  BY DEF Handlers
<1> HIDE DEF g
<1>4. /\ loop' \in [on : BOOLEAN, sending : BOOLEAN, todo : Seq(Windows), skip : Windows \cup {None},
                    mon : Monitors \cup {None}, p : Windows \cup {None}, gone : SUBSET Windows]
      /\ loop'.on = loop.on /\ loop'.mon = loop.mon
  BY <1>1, <1>2 DEF Handlers
<1>5. ~loop'.on => loop' = NoLoop
  <2> SUFFICES ASSUME ~loop.on PROVE loop' = NoLoop
    BY <1>4
  <2>1. loop' = [loop EXCEPT !.gone = loop.gone]
    BY <1>1, <1>3
  <2>2. [loop EXCEPT !.gone = loop.gone] = loop
    BY DEF Handlers
  <2> QED
    BY <1>3, <2>1, <2>2
<1> QED
  BY <1>4, <1>5 DEF Handlers

LEMMA NotifyIs ==
  ASSUME posted \in Seq(Notices), NEW w \in Windows \cup {None}, NEW m \in Monitors \cup {None},
         Notify(w, m)
  PROVE  /\ posted' \in Seq(Notices) /\ Len(posted') = Len(posted) + 1
         /\ posted'[Len(posted) + 1].mon = m
         /\ \A i \in 1..Len(posted) : posted'[i] = posted[i]
<1> DEFINE x == [skip |-> w, mon |-> m]
<1>1. x \in Notices /\ x.mon = m
  BY DEF Notices
<1>2. posted' = Append(posted, x)
  BY DEF Notify
<1> HIDE DEF x
<1> QED
  BY <1>1, <1>2, AppendProperties

\* What was pending is pending after a notification, which makes its monitor pending.
LEMMA NotifyPends ==
  ASSUME posted \in Seq(Notices), NEW w \in Windows \cup {None}, NEW m \in Monitors \cup {None},
         Notify(w, m)
  PROVE  /\ \E i \in 1..Len(posted') : posted'[i].mon = m
         /\ \A n : (\E i \in 1..Len(posted) : posted[i].mon = n)
                     => \E i \in 1..Len(posted') : posted'[i].mon = n
<1>1. /\ Len(posted) \in Nat /\ Len(posted') = Len(posted) + 1
      /\ posted'[Len(posted) + 1].mon = m
      /\ \A i \in 1..Len(posted) : posted'[i] = posted[i]
  BY NotifyIs, LenProperties
<1>2. 1..Len(posted') = 1..Len(posted) \cup {Len(posted) + 1}
  BY <1>1
<1> QED
  BY <1>1, <1>2

\* A notification that is taken goes to the handler.
LEMMA TakenPends ==
  ASSUME posted \in Seq(Notices), posted # <<>>, posted' = Tail(posted), NEW n,
         NEW i \in 1..Len(posted), posted[i].mon = n
  PROVE  n = Head(posted).mon \/ \E j \in 1..Len(posted') : posted'[j].mon = n
<1>1. /\ Len(posted) \in Nat /\ Len(posted') = Len(posted) - 1 /\ Head(posted) = posted[1]
      /\ \A j \in 1..Len(posted') : posted'[j] = posted[j + 1]
  BY HeadTailProperties, LenProperties
<1>2. CASE i = 1
  BY <1>1, <1>2
<1>3. CASE i # 1
  <2>1. i - 1 \in 1..Len(posted') /\ posted'[i - 1] = posted[(i - 1) + 1] /\ (i - 1) + 1 = i
    BY <1>1, <1>3
  <2> QED
    BY <2>1
<1> QED
  BY <1>2, <1>3

LEMMA MessagesStep ==
  ASSUME BarsInv, MessagesInv, [Next]_vars
  PROVE  MessagesInv'
<1>0. /\ Regular(bars) /\ posted \in Seq(Notices) /\ loop \in Handlers /\ Dead \subseteq Windows
      /\ alive \subseteq Windows
  BY DeadIs DEF BarsInv, MessagesInv, AnswersInv
<1>1. CASE NotifyPosChanged
  <2> DEFINE ws == [i \in DOMAIN bars |-> bars[i].win]
             h == Head(posted)
             td == Reverse(ws)
  <2>1. /\ posted # <<>> /\ posted' = Tail(posted)
        /\ loop' = [NoLoop EXCEPT !.on = TRUE, !.skip = h.skip, !.mon = h.mon, !.todo = td]
    BY <1>1 DEF NotifyPosChanged
  <2>2. h \in Notices /\ posted' \in Seq(Notices)
    BY <1>0, <2>1, HeadTailProperties
  <2>3. td \in Seq(Windows)
    <3>1. Len(bars) \in Nat /\ DOMAIN bars = 1..Len(bars) /\ \A i \in 1..Len(bars) : bars[i] \in AppBar
      BY <1>0, BarAt
    <3>2. ws \in [1..Len(bars) -> Windows]
      BY <3>1 DEF AppBar
    <3> HIDE DEF ws
    <3>3. ws \in Seq(Windows) /\ Len(ws) = Len(bars)
      BY <3>1, <3>2, IsASeq, LenProperties
    <3>4. td = [i \in 1..Len(ws) |-> ws[(Len(ws) - i) + 1]]
      BY DEF Reverse
    <3>5. td \in [1..Len(ws) -> Windows]
      BY <3>1, <3>2, <3>3, <3>4
    <3> QED
      BY <3>1, <3>3, <3>5, IsASeq
  <2> HIDE DEF h, td
  <2>4. loop' \in Handlers
    BY <2>1, <2>2, <2>3 DEF Handlers, NoLoop, Notices
  <2> QED
    BY <2>2, <2>4 DEF MessagesInv
<1>2. CASE SendPosChanged
  <2>1. PICK i \in DOMAIN loop.todo :
           /\ loop' = [loop EXCEPT !.sending = TRUE, !.p = P(i),
                                   !.todo = SubSeq(loop.todo, i + 1, Len(loop.todo))]
           /\ UNCHANGED posted
    BY <1>2 DEF SendPosChanged
  <2> DEFINE s == loop.todo
             td == SubSeq(s, i + 1, Len(s))
  <2>2. s \in Seq(Windows)
    BY <1>0 DEF Handlers
  <2>3. Len(s) \in Nat /\ i \in 1..Len(s)
    BY <2>1, <2>2, LenProperties
  <2>4. td \in Seq(Windows)
    <3> HIDE DEF s
    <3>1. \A k \in (i + 1)..Len(s) : s[k] \in Windows
      BY <2>2, <2>3, ElementOfSeq
    <3> QED
      BY <2>2, <2>3, <3>1, SubSeqProperties
  <2>5. loop.on
    <3>1. ~loop.on => loop.todo = <<>>
      BY <1>0 DEF Handlers, NoLoop
    <3> QED
      BY <2>1, <3>1
  <2>6. P(i) \in Windows \cup {None}
    BY <1>0 DEF P, Handlers
  <2>7. loop' = [loop EXCEPT !.sending = TRUE, !.p = P(i), !.todo = td]
    BY <2>1
  <2> HIDE DEF td, s
  <2>8. loop' \in Handlers
    BY <1>0, <2>4, <2>5, <2>6, <2>7 DEF Handlers
  <2> QED
    BY <1>0, <2>1, <2>8 DEF MessagesInv
<1>3. CASE AllTold
  <2>1. NoLoop \in Handlers
    BY DEF NoLoop, Handlers
  <2> QED
    BY <1>0, <1>3, <2>1 DEF AllTold, MessagesInv
<1>4. CASE SettingChange
  <2>1. Dangle(Dead) /\ Notify(None, Primary)
    BY <1>4 DEF SettingChange
  <2>2. None \in Windows \cup {None} /\ Primary \in Monitors \cup {None} /\ Dead \in SUBSET Windows
    BY <1>0, BarsAssumption
  <2>3. loop' \in Handlers
    BY <1>0, <2>1, <2>2, DangleIs
  <2>4. posted' \in Seq(Notices)
    BY <1>0, <2>1, <2>2, NotifyIs
  <2> QED
    BY <2>3, <2>4 DEF MessagesInv
<1>5. ASSUME NEW r \in WorkAreas, SetExternally(r) PROVE MessagesInv'
  BY <1>0, <1>5 DEF SetExternally, MessagesInv
<1>6. ASSUME NEW w \in Windows, barCreate(w) PROVE MessagesInv'
  <2>1. Dangle(Dead) /\ UNCHANGED posted /\ Dead \in SUBSET Windows
    BY <1>0, <1>6 DEF barCreate
  <2> QED
    BY <1>0, <2>1, DangleIs DEF MessagesInv
<1>7. ASSUME NEW w \in Windows, barDestroy(w) PROVE MessagesInv'
  <2>1. Dangle(Dead \cup {w}) /\ Notify(None, Bar(w).mon) /\ IsBar(bars, w)
    BY <1>7 DEF barDestroy
  <2>2. Bar(w) \in AppBar
    BY <2>1, BarIs
  <2>3. /\ None \in Windows \cup {None} /\ Bar(w).mon \in Monitors \cup {None}
        /\ Dead \cup {w} \in SUBSET Windows
    BY <1>0, <2>2 DEF AppBar
  <2>4. loop' \in Handlers
    BY <1>0, <2>1, <2>3, DangleIs
  <2>5. posted' \in Seq(Notices)
    BY <1>0, <2>1, <2>3, NotifyIs
  <2> QED
    BY <2>4, <2>5 DEF MessagesInv
<1>8. ASSUME NEW w \in Windows, NEW e \in Edges, NEW m \in Monitors, barSetPos(w, e, m)
      PROVE  MessagesInv'
  <2>1. Dangle(Dead) /\ (Notify(w, m) \/ UNCHANGED posted) /\ Dead \in SUBSET Windows
    BY <1>0, <1>8, SetPosBars DEF barSetPos
  <2>2. loop' \in Handlers
    BY <1>0, <2>1, DangleIs
  <2>3. posted' \in Seq(Notices)
    BY <1>0, <2>1, NotifyIs
  <2> QED
    BY <2>2, <2>3 DEF MessagesInv
<1>9. ASSUME NEW w \in Windows, Answer(w) PROVE MessagesInv'
  BY <1>8, <1>9, AnswerAt DEF Answer
<1>10. ASSUME NEW w \in Windows, NEW q \in Places, Move(w, q[1], q[2]) PROVE MessagesInv'
  BY <1>8, <1>10, BarsAssumption DEF Move
<1>11. ASSUME NEW w \in Windows, Die(w) PROVE MessagesInv'
  BY <1>0, <1>11 DEF Die, MessagesInv
<1>12. ASSUME NEW w \in Windows, NEW q \in Places, barSetAutoHide(w, q[1], q[2]) PROVE MessagesInv'
  <2>1. Dangle(Dead) /\ UNCHANGED posted /\ Dead \in SUBSET Windows
    BY <1>0, <1>12 DEF barSetAutoHide
  <2> QED
    BY <1>0, <2>1, DangleIs DEF MessagesInv
<1>13. ASSUME NEW w \in Windows, NEW q \in Places, barClearAutoHide(w, q[1], q[2])
       PROVE  MessagesInv'
  <2>1. /\ IsBar(bars, w)
        /\ \/ Dangle(Dead \cup {w}) /\ Notify(None, Bar(w).mon)
           \/ Dangle(Dead) /\ UNCHANGED posted
    BY <1>13 DEF barClearAutoHide
  <2>2. Bar(w) \in AppBar
    BY <2>1, BarIs
  <2>3. /\ None \in Windows \cup {None} /\ Bar(w).mon \in Monitors \cup {None}
        /\ Dead \cup {w} \in SUBSET Windows /\ Dead \in SUBSET Windows
    BY <1>0, <2>2 DEF AppBar
  <2>4. loop' \in Handlers
    BY <1>0, <2>1, <2>3, DangleIs
  <2>5. posted' \in Seq(Notices)
    BY <1>0, <2>1, <2>3, NotifyIs
  <2> QED
    BY <2>4, <2>5 DEF MessagesInv
<1>14. CASE UNCHANGED vars
  BY <1>0, <1>14 DEF vars, MessagesInv
<1> HIDE DEF BarsInv, MessagesInv
<1> QED
  BY <1>1, <1>2, <1>3, <1>4, <1>5, <1>6, <1>7, <1>9, <1>10, <1>11, <1>12, <1>13, <1>14
     DEF Next, Service

LEMMA ForsakenIs ==
  ASSUME BarsInv, NEW w, IsBar(bars, w)
  PROVE  Forsaken(w) \subseteq Windows
<1>1. IndexOf(bars, w) \in 1..Len(bars) /\ Len(bars) \in Nat
  BY Found, BarAt DEF BarsInv
<1>2. \A i \in IndexOf(bars, w) + 1 .. Len(bars) : bars[i].win \in Windows
  BY <1>1, BarAt DEF BarsInv, AppBar
<1> QED
  BY <1>2 DEF Forsaken, Newer

LEMMA BarsOfIs ==
  ASSUME BarsInv, NEW m
  PROVE  BarsOf(m) \subseteq Windows
<1>1. \A i \in DOMAIN bars : bars[i].win \in Windows
  BY BarAt DEF BarsInv, AppBar
<1> QED
  BY <1>1 DEF BarsOf

LEMMA UnmovedIs ==
  ASSUME BarsInv, NEW w, IsBar(bars, w), NEW e, NEW m, NEW r
  PROVE  Unmoved(w, e, m, r) \subseteq Windows
BY BarsOfIs, ForsakenIs DEF Unmoved

LEMMA CountsStep ==
  ASSUME BarsInv, CountsInv, [Next]_vars
  PROVE  CountsInv'
<1>0. alive \subseteq Windows /\ {MaxMoves, MaxEvents} \subseteq Nat
  BY BarsAssumption DEF BarsInv, AnswersInv
<1>1. CASE NotifyPosChanged
  BY <1>1 DEF NotifyPosChanged, CountsInv, ghosts, counts
<1>2. CASE SendPosChanged
  BY <1>2 DEF SendPosChanged, CountsInv, ghosts, counts
<1>3. CASE AllTold
  BY <1>3 DEF AllTold, adjustWorkArea, CountsInv, counts
<1>4. CASE SettingChange
  BY <1>4 DEF SettingChange, CountsInv, ghosts, counts
<1>5. ASSUME NEW r \in WorkAreas, SetExternally(r) PROVE CountsInv'
  BY <1>0, <1>5 DEF SetExternally, CountsInv, ghosts
<1>6. ASSUME NEW w \in Windows, barCreate(w) PROVE CountsInv'
  BY <1>0, <1>6 DEF barCreate, CountsInv, ghosts
<1>7. ASSUME NEW w \in Windows, barDestroy(w) PROVE CountsInv'
  BY <1>0, <1>7 DEF barDestroy, CountsInv, ghosts
<1>8. ASSUME NEW w \in Windows, NEW e \in Edges, NEW m \in Monitors, barSetPos(w, e, m),
             moves' \in 0..MaxMoves
      PROVE  CountsInv'
  <2>1. Bar(w) \in AppBar /\ UNCHANGED <<sent, events, known>>
    BY <1>8, BarIs DEF barSetPos
  <2>2. unadjusted' = unadjusted \cup LeftAlone(Bar(w), e, m, PosRect(w, e, m))
    BY <1>8, SetPosBars
  <2>3. LeftAlone(Bar(w), e, m, PosRect(w, e, m)) \subseteq Monitors
    BY <2>1 DEF LeftAlone, AppBar
  <2>4. astray' \subseteq Windows
    <3>1. /\ IsBar(bars, w) /\ astray \subseteq Windows
          /\ astray' \subseteq astray \cup {w} \cup Unmoved(w, e, m, PosRect(w, e, m))
      BY <1>8 DEF barSetPos, PosRect, CountsInv
    <3> QED
      BY <1>8, <3>1, UnmovedIs
  <2> QED
    BY <1>8, <2>1, <2>2, <2>3, <2>4 DEF CountsInv
<1>9. ASSUME NEW w \in Windows, Answer(w) PROVE CountsInv'
  <2>1. moves' \in 0..MaxMoves
    BY <1>9 DEF Answer, CountsInv
  <2> QED
    BY <1>8, <1>9, <2>1, AnswerAt DEF Answer
<1>10. ASSUME NEW w \in Windows, NEW q \in Places, Move(w, q[1], q[2]) PROVE CountsInv'
  <2>1. moves' \in 0..MaxMoves
    BY <1>0, <1>10 DEF Move, CountsInv
  <2>2. q[1] \in Edges /\ q[2] \in Monitors
    BY BarsAssumption
  <2> QED
    BY <1>8, <1>10, <2>1, <2>2 DEF Move
<1>11. ASSUME NEW w \in Windows, Die(w) PROVE CountsInv'
  <2>1. IsBar(bars, w) /\ TakesRoom(Bar(w), Bar(w).mon) => Bar(w).mon \in Monitors
    BY BarIs DEF TakesRoom, AppBar
  <2>2. unadjusted' \subseteq Monitors /\ astray' \subseteq Windows
    <3>1. IsBar(bars, w) => Forsaken(w) \subseteq Windows
      BY ForsakenIs
    <3> QED
      BY <1>11, <2>1, <3>1 DEF Die, CountsInv, ghosts
  <2> QED
    BY <1>0, <1>11, <2>2 DEF Die, CountsInv
<1>12. ASSUME NEW w \in Windows, NEW q \in Places, barSetAutoHide(w, q[1], q[2]) PROVE CountsInv'
  <2>1. /\ events < MaxEvents /\ events' = events + 1 /\ UNCHANGED <<sent, moves>>
        /\ known' = known \cup {w} \/ known' = known
    BY <1>12 DEF barSetAutoHide
  <2>2. \/ UNCHANGED ghosts
        \/ /\ IsBar(bars, w) /\ TakesRoom(Bar(w), Bar(w).mon)
           /\ unadjusted' = unadjusted \cup {Bar(w).mon} /\ astray' = astray \cup BarsOf(Bar(w).mon)
    BY <1>12 DEF barSetAutoHide, Turns
  <2>3. IsBar(bars, w) /\ TakesRoom(Bar(w), Bar(w).mon) => Bar(w).mon \in Monitors
    BY BarIs DEF TakesRoom, AppBar
  <2>4. BarsOf(Bar(w).mon) \subseteq Windows
    BY BarsOfIs
  <2>5. unadjusted' \subseteq Monitors /\ astray' \subseteq Windows
    BY <2>2, <2>3, <2>4 DEF CountsInv, ghosts
  <2> QED
    BY <1>0, <2>1, <2>5 DEF CountsInv
<1>13. ASSUME NEW w \in Windows, NEW q \in Places, barClearAutoHide(w, q[1], q[2])
       PROVE  CountsInv'
  BY <1>13 DEF barClearAutoHide, CountsInv, ghosts, counts
<1>14. CASE UNCHANGED vars
  BY <1>14 DEF vars, CountsInv, ghosts, counts
<1> HIDE DEF BarsInv, CountsInv
<1> QED
  BY <1>1, <1>2, <1>3, <1>4, <1>5, <1>6, <1>7, <1>9, <1>10, <1>11, <1>12, <1>13, <1>14
     DEF Next, Service

-----------------------------------------------------------------------------
(* Every area is adjusted, or will be, or is one of those left alone.       *)

LEMMA StaysAdjusted ==
  ASSUME BarsInv, BarsInv', NEW m \in Monitors, def' = def, area'[m] = area[m],
         SameEnds(bars, alive, bars', alive', m), Adjusted(m)
  PROVE  Adjusted(m)'
<1>1. Base(m)' = Base(m) /\ Base(m) \in Rects
  BY BaseIs DEF Base, BarsInv
<1>2. bars \in Seq(AppBar) /\ bars' \in Seq(AppBar)
  BY DEF BarsInv, Regular
<1>3. LeftOf(bars, m, Base(m), alive) = LeftOf(bars', m, Base(m), alive')
  BY <1>1, <1>2, LeftSame
<1>4. Left(bars, m)' = LeftOf(bars', m, Base(m)', alive')
  BY LeftByNext
<1>5. Left(bars, m) = LeftOf(bars, m, Base(m), alive)
  BY LeftByState
<1>6. area'[m] = Left(bars, m)'
  BY <1>1, <1>3, <1>4, <1>5 DEF Adjusted
<1> QED
  BY <1>6 DEF Adjusted

\* A step that neither takes a notification nor ends the handler leaves what is pending.
LEMMA StaysPending ==
  ASSUME posted \in Seq(Notices), NEW w \in Windows \cup {None}, NEW m \in Monitors \cup {None},
         Notify(w, m) \/ UNCHANGED posted,
         loop'.on = loop.on, loop'.mon = loop.mon, sent > 0 => sent' > 0
  PROVE  /\ \A n : Pending(n) => Pending(n)'
         /\ Notify(w, m) => Pending(m)'
BY NotifyPends DEF Pending

LEMMA SteadyArea ==
  ASSUME BarsInv, BarsInv', AreaInv, UNCHANGED <<area, def, cur>>, sent > 0 => sent' > 0,
         unadjusted \subseteq unadjusted', \A n : Pending(n) => Pending(n)',
         \A n \in Monitors : \/ n \in unadjusted' \/ Pending(n)'
                             \/ SameEnds(bars, alive, bars', alive', n)
  PROVE  AreaInv'
<1>1. ASSUME NEW n \in Monitors PROVE n \in unadjusted' \/ Pending(n)' \/ Adjusted(n)'
  <2>1. CASE Adjusted(n) /\ SameEnds(bars, alive, bars', alive', n)
    BY <2>1, StaysAdjusted
  <2> QED
    BY <2>1 DEF AreaInv
<1> QED
  BY <1>1 DEF AreaInv

LEMMA TakeArea ==
  ASSUME BarsInv, BarsInv', MessagesInv, AreaInv, NotifyPosChanged
  PROVE  AreaInv'
<1>1. /\ ~loop.on /\ posted # <<>> /\ posted' = Tail(posted)
      /\ loop'.on /\ loop'.mon = Head(posted).mon
      /\ UNCHANGED <<bars, areaVars, sent, sysVars, ghosts, counts>>
  BY DEF NotifyPosChanged, NoLoop
<1>2. ASSUME NEW n, Pending(n) PROVE Pending(n)'
  <2>1. posted \in Seq(Notices)
    BY DEF MessagesInv
  <2>2. CASE n = Primary /\ sent > 0
    BY <1>1, <2>2 DEF Pending
  <2>3. CASE \E i \in 1..Len(posted) : posted[i].mon = n
    BY <1>1, <2>1, <2>3, TakenPends DEF Pending
  <2> QED
    BY <1>1, <1>2, <2>2, <2>3 DEF Pending
<1>3. \A n : SameEnds(bars, alive, bars', alive', n)
  BY <1>1 DEF SameEnds, sysVars
<1> QED
  BY <1>1, <1>2, <1>3, SteadyArea DEF areaVars, ghosts

LEMMA SendArea ==
  ASSUME BarsInv, BarsInv', MessagesInv, AreaInv, SendPosChanged
  PROVE  AreaInv'
<1>1. /\ loop'.on = loop.on /\ loop'.mon = loop.mon
      /\ UNCHANGED <<bars, areaVars, sent, posted, alive, ghosts, counts>>
  BY DEF SendPosChanged, MessagesInv, Handlers
<1>2. \A n : Pending(n) => Pending(n)'
  BY <1>1 DEF Pending
<1>3. \A n : SameEnds(bars, alive, bars', alive', n)
  BY <1>1 DEF SameEnds
<1> QED
  BY <1>1, <1>2, <1>3, SteadyArea DEF areaVars, ghosts

\* The handler ends: the monitor it was for is adjusted, or its work area has been
\* changed by another program, which is to be heard of.
LEMMA AdjustArea ==
  ASSUME BarsInv, BarsInv', MessagesInv, AreaInv, AllTold
  PROVE  AreaInv'
<1> DEFINE m == loop.mon
<1>1. /\ loop.on /\ adjustWorkArea(m) /\ UNCHANGED <<bars, alive, def, sent, posted>>
  BY DEF AllTold, sysVars
<1>2. m \in Monitors \cup {None} /\ area \in [Monitors -> Rects]
  BY DEF MessagesInv, Handlers, BarsInv, RectsInv
<1>3. \A n : Left(bars, n)' = Left(bars, n)
  <2>1. \A n : Base(n)' = Base(n)
    BY <1>1 DEF Base
  <2> QED
    BY <1>1, <2>1, LeftByNext, LeftByState
<1> HIDE DEF m
<1>4. unadjusted' = unadjusted \ {m}
  BY <1>1 DEF adjustWorkArea
<1>5. CASE m # None /\ Left(bars, m) # Known(m)
  <2>1. area' = [area EXCEPT ![m] = Left(bars, m)] /\ cur' = area'[Primary]
    BY <1>1, <1>5 DEF adjustWorkArea, setWorkArea
  <2>2. area'[m] = Left(bars, m) /\ \A n \in Monitors \ {m} : area'[n] = area[n]
    BY <1>2, <1>5, <2>1
  <2>3. ASSUME NEW n \in Monitors PROVE n \in unadjusted' \/ Pending(n)' \/ Adjusted(n)'
    <3>1. CASE n = m
      BY <1>3, <2>2, <3>1 DEF Adjusted
    <3>2. CASE n # m
      BY <1>1, <1>3, <1>4, <2>2, <3>2 DEF AreaInv, Adjusted, Pending, m
    <3> QED
      BY <3>1, <3>2
  <2> QED
    BY <2>1, <2>3 DEF AreaInv
<1>6. CASE ~(m # None /\ Left(bars, m) # Known(m))
  <2>1. UNCHANGED <<area, cur>>
    BY <1>1, <1>6 DEF adjustWorkArea
  <2>2. ASSUME NEW n \in Monitors PROVE n \in unadjusted' \/ Pending(n)' \/ Adjusted(n)'
    <3>1. CASE n = m
      <4>1. Left(bars, m) = Known(m)
        BY <1>6, <3>1, BarsAssumption
      <4>2. CASE m = Primary
        BY <1>1, <1>3, <2>1, <3>1, <4>1, <4>2 DEF Known, AreaInv, Adjusted, Pending
      <4>3. CASE m # Primary
        BY <1>3, <2>1, <3>1, <4>1, <4>3 DEF Known, Adjusted
      <4> QED
        BY <4>2, <4>3
    <3>2. CASE n # m
      BY <1>1, <1>3, <1>4, <2>1, <3>2 DEF AreaInv, Adjusted, Pending, m
    <3> QED
      BY <3>1, <3>2
  <2> QED
    BY <1>1, <2>1, <2>2 DEF AreaInv
<1> QED
  BY <1>5, <1>6

LEMMA SetPosArea ==
  ASSUME BarsInv, BarsInv', MessagesInv, AreaInv,
         NEW w, NEW e \in Edges, NEW m \in Monitors, barSetPos(w, e, m)
  PROVE  AreaInv'
<1> DEFINE r == PosRect(w, e, m)
<1>1. /\ IF Tells(Bar(w), m, r) THEN Notify(w, m) ELSE UNCHANGED posted
      /\ unadjusted' = unadjusted \cup LeftAlone(Bar(w), e, m, r)
      /\ \A n : \/ n \in LeftAlone(Bar(w), e, m, r)
                \/ n = m /\ Tells(Bar(w), m, r)
                \/ SameEnds(bars, alive, bars', alive, n)
  <2>1. IF Tells(Bar(w), m, r) THEN Notify(w, m) ELSE UNCHANGED posted
    BY SetPosBars
  <2>2. unadjusted' = unadjusted \cup LeftAlone(Bar(w), e, m, r)
    BY SetPosBars
  <2>3. \A n : \/ n \in LeftAlone(Bar(w), e, m, r)
               \/ n = m /\ Tells(Bar(w), m, r)
               \/ SameEnds(bars, alive, bars', alive, n)
    BY SetPosBars
  <2> QED
    BY <2>1, <2>2, <2>3
<1>2. /\ w \in alive /\ Dangle(Dead) /\ UNCHANGED <<area, def, cur, sent, alive>>
  BY DEF barSetPos, areaVars
<1>3. /\ loop \in Handlers /\ posted \in Seq(Notices) /\ Dead \in SUBSET Windows
      /\ w \in Windows \cup {None} /\ m \in Monitors \cup {None}
  BY <1>2, DeadIs DEF MessagesInv, BarsInv, AnswersInv
<1> HIDE DEF r
<1>4. loop'.on = loop.on /\ loop'.mon = loop.mon
  BY <1>2, <1>3, DangleIs
<1>5. Notify(w, m) \/ UNCHANGED posted
  BY <1>1
<1>6. \A n : Pending(n) => Pending(n)'
  BY <1>2, <1>3, <1>4, <1>5, StaysPending
<1>7. Tells(Bar(w), m, r) => Pending(m)'
  BY <1>1, <1>2, <1>3, <1>4, StaysPending
<1>8. \A n \in Monitors : \/ n \in unadjusted' \/ Pending(n)'
                          \/ SameEnds(bars, alive, bars', alive', n)
  BY <1>1, <1>2, <1>7
<1> QED
  BY <1>1, <1>2, <1>6, <1>8, SteadyArea

LEMMA AreaStep ==
  ASSUME BarsInv, BarsInv', MessagesInv, CountsInv, AreaInv, [Next]_vars
  PROVE  AreaInv'
<1>0. /\ posted \in Seq(Notices) /\ loop \in Handlers /\ Dead \in SUBSET Windows
      /\ alive \subseteq Windows /\ None \in Windows \cup {None}
  BY DeadIs DEF BarsInv, MessagesInv, AnswersInv
<1>1. CASE SettingChange
  <2>1. /\ Dangle(Dead) /\ Notify(None, Primary) /\ UNCHANGED <<area, alive, ghosts>>
        /\ cur' = area[Primary]
    BY <1>1 DEF SettingChange, sysVars
  <2>2. Primary \in Monitors \cup {None}
    BY BarsAssumption
  <2>3. loop'.on = loop.on /\ loop'.mon = loop.mon
    BY <1>0, <2>1, DangleIs
  <2>4. /\ \E i \in 1..Len(posted') : posted'[i].mon = Primary
        /\ \A n : (\E i \in 1..Len(posted) : posted[i].mon = n)
                    => \E i \in 1..Len(posted') : posted'[i].mon = n
    BY <1>0, <2>1, <2>2, NotifyPends
  <2>5. \A n : SameEnds(bars, alive, bars', alive', n)
    BY <1>1, <2>1, ChangeBars
  <2>6. ASSUME NEW n \in Monitors PROVE n \in unadjusted' \/ Pending(n)' \/ Adjusted(n)'
    <3>1. CASE n = Primary
      BY <2>4, <3>1 DEF Pending
    <3>2. CASE n # Primary /\ Pending(n)
      BY <2>3, <2>4, <3>2 DEF Pending
    <3>3. CASE n # Primary /\ Adjusted(n)
      <4>1. Base(n) = Screen /\ Base(n)' = Screen /\ Screen \in Rects
        BY <3>3, ScreenIs DEF Base, ScreenRect
      <4>2. bars \in Seq(AppBar) /\ bars' \in Seq(AppBar)
        BY DEF BarsInv, Regular
      <4>3. LeftOf(bars, n, Screen, alive) = LeftOf(bars', n, Screen, alive')
        BY <2>5, <4>1, <4>2, LeftSame
      <4>4. Left(bars, n)' = LeftOf(bars', n, Base(n)', alive')
        BY LeftByNext
      <4>5. Left(bars, n) = LeftOf(bars, n, Base(n), alive)
        BY LeftByState
      <4>6. area'[n] = Left(bars, n)'
        BY <2>1, <3>3, <4>1, <4>3, <4>4, <4>5 DEF Adjusted
      <4> QED
        BY <4>6 DEF Adjusted
    <3> QED
      BY <2>1, <3>1, <3>2, <3>3 DEF AreaInv, ghosts
  <2> QED
    BY <2>1, <2>6 DEF AreaInv
<1>2. ASSUME NEW r \in WorkAreas, SetExternally(r) PROVE AreaInv'
  <2>1. /\ UNCHANGED <<bars, def, posted, loop, alive, unadjusted>> /\ sent' = sent + 1 /\ sent \in Nat
        /\ area' = [area EXCEPT ![Primary] = r] /\ area \in [Monitors -> Rects]
    BY <1>2 DEF SetExternally, sysVars, ghosts, CountsInv, BarsInv, RectsInv
  <2>2. sent' > 0
    BY <2>1
  <2>3. ASSUME NEW n \in Monitors PROVE n \in unadjusted' \/ Pending(n)' \/ Adjusted(n)'
    <3>1. CASE n = Primary
      BY <2>2, <3>1 DEF Pending
    <3>2. CASE n # Primary /\ Adjusted(n)
      <4>1. area'[n] = area[n]
        BY <2>1, <3>2
      <4>2. SameEnds(bars, alive, bars', alive', n)
        BY <2>1 DEF SameEnds
      <4> QED
        BY <2>1, <3>2, <4>1, <4>2, StaysAdjusted
    <3>3. CASE n # Primary /\ Pending(n)
      BY <2>1, <3>3 DEF Pending
    <3> QED
      BY <2>1, <3>1, <3>2, <3>3 DEF AreaInv
  <2> QED
    BY <2>2, <2>3 DEF AreaInv
<1>3. ASSUME NEW w \in Windows, barCreate(w) PROVE AreaInv'
  <2>1. Dangle(Dead) /\ UNCHANGED <<areaVars, sent, posted, alive, unadjusted>>
    BY <1>3 DEF barCreate, sysVars, ghosts
  <2>2. \A n : SameEnds(bars, alive, bars', alive', n)
    BY <1>3, <2>1, CreateBars
  <2>3. \A n : Pending(n) => Pending(n)'
    BY <1>0, <2>1, DangleIs DEF Pending
  <2> QED
    BY <2>1, <2>2, <2>3, SteadyArea DEF areaVars
<1>4. ASSUME NEW w \in Windows, barDestroy(w) PROVE AreaInv'
  <2>1. /\ Dangle(Dead \cup {w}) /\ Notify(None, Bar(w).mon) /\ IsBar(bars, w)
        /\ UNCHANGED <<areaVars, sent, alive, unadjusted>>
    BY <1>4 DEF barDestroy, ghosts
  <2>0. PICK k : k = Bar(w).mon
    OBVIOUS
  <2>2. k \in Monitors \cup {None}
    BY <2>0, <2>1, BarIs DEF AppBar
  <2>3. \A n : n # k => SameEnds(bars, alive, bars', alive', n)
    BY <1>4, <2>0, <2>1, DestroyBars
  <2>4. Notify(None, k)
    BY <2>0, <2>1
  <2>5. loop'.on = loop.on /\ loop'.mon = loop.mon
    BY <1>0, <2>1, DangleIs
  <2>6. \A n : Pending(n) => Pending(n)'
    BY <1>0, <2>1, <2>2, <2>4, <2>5, StaysPending
  <2>7. Pending(k)'
    BY <1>0, <2>1, <2>2, <2>4, <2>5, StaysPending
  <2>8. \A n \in Monitors : \/ n \in unadjusted' \/ Pending(n)'
                            \/ SameEnds(bars, alive, bars', alive', n)
    <3> SUFFICES ASSUME NEW n \in Monitors, n # k PROVE SameEnds(bars, alive, bars', alive', n)
      BY <2>7
    <3> QED
      BY <2>3
  <2> QED
    BY <2>1, <2>6, <2>8, SteadyArea DEF areaVars
<1>5. ASSUME NEW w \in Windows, Answer(w) PROVE AreaInv'
  BY <1>5, AnswerAt, SetPosArea DEF Answer
<1>6. ASSUME NEW w \in Windows, NEW q \in Places, Move(w, q[1], q[2]) PROVE AreaInv'
  BY <1>6, BarsAssumption, SetPosArea DEF Move
<1>7. ASSUME NEW w \in Windows, Die(w) PROVE AreaInv'
  <2>1. UNCHANGED <<bars, areaVars, sent, posted, loop>> /\ unadjusted \subseteq unadjusted'
    BY <1>7 DEF Die, ghosts
  <2>2. \A n : n \in unadjusted' \/ SameEnds(bars, alive, bars', alive', n)
    BY <1>7, <2>1, DieEnds
  <2>3. \A n : Pending(n) => Pending(n)'
    BY <2>1 DEF Pending
  <2> QED
    BY <2>1, <2>2, <2>3, SteadyArea DEF areaVars
<1>8. ASSUME NEW w \in Windows, NEW q \in Places, barSetAutoHide(w, q[1], q[2]) PROVE AreaInv'
  <2>1. Dangle(Dead) /\ UNCHANGED <<areaVars, sent, posted, alive>> /\ unadjusted \subseteq unadjusted'
    BY <1>8 DEF barSetAutoHide, sysVars, ghosts
  <2>2. q[1] \in Edges
    BY BarsAssumption
  <2>3. \A n : n \in unadjusted' \/ SameEnds(bars, alive, bars', alive', n)
    BY <1>8, <2>1, <2>2, HideBars
  <2>4. \A n : Pending(n) => Pending(n)'
    BY <1>0, <2>1, DangleIs DEF Pending
  <2> QED
    BY <2>1, <2>3, <2>4, SteadyArea DEF areaVars
<1>9. ASSUME NEW w \in Windows, NEW q \in Places, barClearAutoHide(w, q[1], q[2]) PROVE AreaInv'
  <2>1. /\ IsBar(bars, w) /\ UNCHANGED <<areaVars, sent, alive, unadjusted>>
        /\ \/ Dangle(Dead \cup {w}) /\ Notify(None, Bar(w).mon)
           \/ Dangle(Dead) /\ UNCHANGED posted
    BY <1>9 DEF barClearAutoHide, ghosts
  <2>2. q[1] \in Edges
    BY BarsAssumption
  <2>3. \A n : SameEnds(bars, alive, bars', alive', n)
    BY <1>9, <2>1, <2>2, ClearBars
  <2> DEFINE k == Bar(w).mon
  <2>4. k \in Monitors \cup {None}
    BY <2>1, BarIs DEF AppBar
  <2>5. Notify(None, k) \/ UNCHANGED posted
    BY <2>1
  <2> HIDE DEF k
  <2>6. loop'.on = loop.on /\ loop'.mon = loop.mon
    BY <1>0, <2>1, DangleIs
  <2>7. \A n : Pending(n) => Pending(n)'
    BY <1>0, <2>1, <2>4, <2>5, <2>6, StaysPending
  <2> QED
    BY <2>1, <2>3, <2>7, SteadyArea DEF areaVars
<1>10. CASE UNCHANGED vars
  <2>1. UNCHANGED <<bars, area, def, cur, sent, posted, loop, alive, unadjusted>>
    BY <1>10 DEF vars, areaVars, sysVars, ghosts
  <2>2. \A n : SameEnds(bars, alive, bars', alive', n)
    BY <2>1 DEF SameEnds
  <2>3. \A n : Pending(n) => Pending(n)'
    BY <2>1 DEF Pending
  <2> QED
    BY <2>1, <2>2, <2>3, SteadyArea
<1> HIDE DEF BarsInv, MessagesInv, AreaInv
<1> QED
  BY <1>1, <1>2, <1>3, <1>4, <1>5, <1>6, <1>7, <1>8, <1>9, <1>10, TakeArea, SendArea, AdjustArea
     DEF Next, Service

-----------------------------------------------------------------------------
(* Bars that stand side by side.                                            *)

\* The bars, and the windows that exist.
Now == [bars |-> bars, live |-> alive]
At(v, w) == v.bars[IndexOf(v.bars, w)]
Stood(v, w) == w \in v.live /\ IsBar(v.bars, w) /\ TakesRoom(At(v, w), At(v, w).mon)
Older(v, a, b) == IndexOf(v.bars, a) < IndexOf(v.bars, b)
Beside(v, a, b) == Stood(v, a) /\ Stood(v, b) /\ At(v, a).mon = At(v, b).mon
InRow(v, a, b) == Beside(v, a, b) /\ At(v, a).edge = At(v, b).edge /\ Older(v, a, b)
From(v, w) == At(v, w).rect[At(v, w).edge]
To(v, w) == EndOf(At(v, w))
\* a ends before b begins.
Apart(v, a, b) == Within(At(v, a).edge, To(v, a), From(v, b))
\* t lies across l, and has the better right to the corner.
Over(v, t, l) ==
  /\ Beside(v, t, l) /\ Horizontal(At(v, t).edge) /\ ~Horizontal(At(v, l).edge)
  /\ Intersect(At(v, t).rect, At(v, l).rect)
SamePlace(v, u, w) ==
  /\ At(u, w).edge = At(v, w).edge /\ At(u, w).mon = At(v, w).mon
  /\ At(u, w).rect = At(v, w).rect
\* w stands where it stood.
Remains(v, u, w) == Stood(v, w) /\ Stood(u, w) /\ SamePlace(v, u, w)

LEMMA StoodIs ==
  ASSUME NEW v, Regular(v.bars), NEW w, Stood(v, w)
  PROVE  /\ At(v, w) \in AppBar /\ At(v, w).edge \in Edges /\ At(v, w).edge \in Sides
         /\ At(v, w).mon \in Monitors /\ From(v, w) \in Int /\ To(v, w) \in Int
         /\ At(v, w).win = w /\ w \in Windows /\ IndexOf(v.bars, w) \in Nat
<1>1. IndexOf(v.bars, w) \in 1..Len(v.bars) /\ At(v, w).win = w
  BY Found DEF Stood, At
<1>2. At(v, w) \in AppBar /\ At(v, w).clean
  BY <1>1, BarAt DEF At, Stood, TakesRoom
<1>3. At(v, w).edge \in Edges /\ At(v, w).edge \in Sides /\ At(v, w).mon \in Monitors /\ w \in Windows
  BY <1>1, <1>2, BarsAssumption DEF AppBar
<1>4. From(v, w) \in Int /\ To(v, w) \in Int
  BY <1>2, <1>3, SidesOpposite DEF AppBar, From, To, EndOf
<1> QED
  BY <1>1, <1>2, <1>3, <1>4

LEMMA RowTwice ==
  ASSUME NEW v, Regular(v.bars), NEW a, NEW b, NEW c,
         InRow(v, a, b), InRow(v, b, c)
  PROVE  InRow(v, a, c)
<1>1. IndexOf(v.bars, a) \in Nat /\ IndexOf(v.bars, b) \in Nat /\ IndexOf(v.bars, c) \in Nat
  BY StoodIs DEF InRow, Beside
<1> QED
  BY <1>1 DEF InRow, Beside, Older

LEMMA RowOnce ==
  ASSUME NEW v, Regular(v.bars), NEW a
  PROVE  ~InRow(v, a, a)
<1> SUFFICES ASSUME InRow(v, a, a) PROVE FALSE
  OBVIOUS
<1>1. IndexOf(v.bars, a) \in Nat
  BY StoodIs DEF InRow, Beside
<1> QED
  BY <1>1 DEF InRow, Older

LEMMA RowSame ==
  ASSUME NEW v, NEW u, NEW a, NEW b, Remains(v, u, a), Remains(v, u, b),
         Older(u, a, b) <=> Older(v, a, b)
  PROVE  /\ InRow(v, a, b) <=> InRow(u, a, b)
         /\ Apart(v, a, b) <=> Apart(u, a, b)
<1>1. InRow(v, a, b) <=> InRow(u, a, b)
  BY DEF InRow, Beside, SamePlace, Remains
<1>2. Apart(v, a, b) <=> Apart(u, a, b)
  BY DEF Apart, From, To, EndOf, SamePlace, Remains
<1> QED
  BY <1>1, <1>2

\* If a bar begins where another ends, what it is not apart from neither is the other.
LEMMA NotApart ==
  ASSUME NEW v, Regular(v.bars), NEW a, NEW k, NEW b,
         InRow(v, a, k), InRow(v, k, b), From(v, b) = To(v, k),
         To(v, k) = From(v, k) + Inward[At(v, k).edge], ~Apart(v, a, b)
  PROVE  ~Apart(v, a, k)
<1>1. /\ From(v, k) \in Int /\ To(v, k) \in Int /\ To(v, a) \in Int
      /\ At(v, k).edge \in Sides /\ At(v, a).edge = At(v, k).edge
  BY StoodIs DEF InRow, Beside
<1>2. CASE At(v, k).edge \in {"left", "top"}
  <2>1. To(v, k) = From(v, k) + 1
    BY <1>2 DEF Inward
  <2> QED
    BY <1>1, <1>2, <2>1 DEF Apart, Within
<1>3. CASE At(v, k).edge \in {"right", "bottom"}
  <2>1. To(v, k) = From(v, k) + (-1)
    BY <1>3 DEF Inward
  <2> QED
    BY <1>1, <1>3, <2>1 DEF Apart, Within
<1> QED
  BY <1>1, <1>2, <1>3 DEF Sides

\* Bars at one edge that are apart cover nothing together.
LEMMA ApartClear ==
  ASSUME NEW v, Regular(v.bars), NEW a, NEW b, InRow(v, a, b), Apart(v, a, b)
  PROVE  ~Intersect(At(v, a).rect, At(v, b).rect)
<1> DEFINE r == At(v, a).rect
           s == At(v, b).rect
           e == At(v, a).edge
<1>1. e \in Sides /\ r \in Rects /\ s \in Rects /\ At(v, b).edge = e
  BY StoodIs DEF InRow, Beside, AppBar, Rects
<1>2. Within(e, r[Opposite[e]], s[e])
  BY <1>1 DEF Apart, To, From, EndOf
<1> HIDE DEF r, s, e
<1>3. \A t \in Sides : r[t] \in Int /\ s[t] \in Int
  BY <1>1 DEF Rects
<1>4. ASSUME e = "left" PROVE ~Intersect(r, s)
  BY <1>2, <1>3, <1>4 DEF Within, Intersect, Opposite, Sides
<1>5. ASSUME e = "top" PROVE ~Intersect(r, s)
  BY <1>2, <1>3, <1>5 DEF Within, Intersect, Opposite, Sides
<1>6. ASSUME e = "right" PROVE ~Intersect(r, s)
  BY <1>2, <1>3, <1>6 DEF Within, Intersect, Opposite, Sides
<1>7. ASSUME e = "bottom" PROVE ~Intersect(r, s)
  BY <1>2, <1>3, <1>7 DEF Within, Intersect, Opposite, Sides
<1>8. ~Intersect(r, s)
  BY <1>1, <1>4, <1>5, <1>6, <1>7 DEF Sides
<1> QED
  BY <1>8 DEF r, s

-----------------------------------------------------------------------------
(* Who is still to make way, and the invariant.                             *)

Queued(q, n) == \E i \in 1..Len(q) : q[i] = n
\* Notification n will have w told: the bar it is about is older, or gone.
Surely(v, n, w) ==
  /\ n.mon = At(v, w).mon
  /\ \/ n.skip \notin v.live /\ ~(IsBar(v.bars, n.skip) /\ Older(v, w, n.skip))
     \/ Stood(v, n.skip) /\ At(v, n.skip).mon = n.mon /\ Older(v, n.skip, w)
\* The handler l will come to w, number i of its copy.
ComesTo(l, v, w, i) == l.mon = At(v, w).mon /\ w \notin l.gone /\ l.todo[i] = w
Skips(l, i) == \E j \in 1..(i - 1) : l.todo[j] = l.skip
WillTell(l, v, w) ==
  l.p = None /\ w # l.skip /\ \E i \in 1..Len(l.todo) : ComesTo(l, v, w, i) /\ ~Skips(l, i)
\* A notification about t is to come to l: those at other edges will be told.
Owed(v, q, l, t, w) ==
  \/ \E n \in Notices : Queued(q, n) /\ n.skip = t /\ n.mon = At(v, w).mon
  \/ l.skip = t /\ t \notin l.gone /\ \E i \in 1..Len(l.todo) : ComesTo(l, v, w, i)

\* Bars that are told, or will be, or that no one is to tell.
Loose ==
  {w \in Windows : \/ w \in told \cup astray \/ WillTell(loop, Now, w)
                   \/ \E n \in Notices : Queued(posted, n) /\ Surely(Now, n, w)}
Bases == [m \in Monitors |-> Base(m)]
Spans(v, base, w) == SpansAt(At(v, w).rect, base[At(v, w).mon])

\* A bar that has turned where it was may be of any breadth.
OneBroad(v, w) == To(v, w) = From(v, w) + Inward[At(v, w).edge]
\* c is newer than a, and covers the room a takes or has the wrong breadth.
Blocks(v, a, c) == InRow(v, a, c) /\ (~Apart(v, a, c) \/ ~OneBroad(v, c))
\* A bar from a to b that is still to make way is in the way.
Broken(v, L, a, b) == \E c \in Windows : Blocks(v, a, c) /\ c \in L /\ (c = b \/ InRow(v, c, b))
\* Where two bars of an edge are not apart, one is still to make way.
Rows(v, L) == \A a, b \in Windows : InRow(v, a, b) /\ ~Apart(v, a, b) => Broken(v, L, a, b)
\* A bar before l in its row is still to make way.
Behindhand(v, L, l) == \E a, c \in Windows : Blocks(v, a, c) /\ InRow(v, c, l) /\ c \in L
Corners(v, base, L, q, l) ==
  \A t, w \in Windows :
    Over(v, t, w) => \/ w \in L \/ Owed(v, q, l, t, w)
                     \/ ~Spans(v, base, t) \/ Behindhand(v, L, w)
Long(v, base, L) ==
  \A w \in Windows : Stood(v, w) /\ Horizontal(At(v, w).edge) => Spans(v, base, w) \/ w \in L
Breadth(v, L) == \A w \in Windows : Stood(v, w) => OneBroad(v, w) \/ w \in L
PlacesInv ==
  /\ Rows(Now, Loose) /\ Corners(Now, Bases, Loose, posted, loop)
  /\ Long(Now, Bases, Loose) /\ Breadth(Now, Loose)

-----------------------------------------------------------------------------
(* What every step does, where X is the bar it places, if any.              *)

Disturbed(v, L, m) == \E c \in Windows : Stood(v, c) /\ At(v, c).mon = m /\ c \in L

\* Others stay where they are, in their order; none stands that did not.
StaysPut(v, u, X) ==
  /\ \A w \in Windows \ X : Stood(u, w) => Remains(v, u, w)
  /\ X # {} => \A w \in Windows \ X : Stood(v, w) => Remains(v, u, w)
  /\ \A a, b \in Windows : Stood(v, a) /\ Stood(v, b) /\ Stood(u, a) /\ Stood(u, b)
                             => (Older(u, a, b) <=> Older(v, a, b))
\* A bar that leaves its place: newer ones are, or will be, told, unless all was in order.
Vacates(v, u, L, M) ==
  \A w, y \in Windows :
     /\ Stood(v, w) /\ ~Remains(v, u, w) /\ Remains(v, u, y)
     /\ At(v, y).mon = At(v, w).mon /\ Older(v, w, y) /\ Disturbed(v, L, At(v, w).mon)
     => y \in M
\* A bar that comes to a place: so are newer ones, and those at other edges.
Occupies(v, u, M, q, l, X) ==
  \A x \in X, y \in Windows :
     /\ Stood(u, x) /\ ~Remains(v, u, x) /\ Remains(v, u, y) /\ At(u, y).mon = At(u, x).mon
     => /\ Older(u, x, y) => y \in M
        /\ At(u, x).edge # At(u, y).edge => y \in M \/ Owed(u, q, l, x, y)
\* It gets its place behind the older ones of its edge, clear of those that lie across.
Fits(u, base, M, X) ==
  \A x \in X : Stood(u, x) =>
    /\ OneBroad(u, x) \/ x \in M
    /\ Horizontal(At(u, x).edge) => Spans(u, base, x) \/ x \in M
    /\ \A a \in Windows : InRow(u, a, x) =>
         x \in M \/ \E k \in Windows : /\ InRow(u, k, x) /\ From(u, x) = To(u, k)
                                       /\ k = a \/ InRow(u, a, k)
    /\ \A t \in Windows : Over(u, t, x) /\ Spans(u, base, t) =>
         x \in M \/ \E a \in Windows : InRow(u, a, x) /\ ~Apart(u, a, x)
\* Who was to make way still is.
StaysLoose(v, u, L, M, X) == \A w \in Windows \ X : Remains(v, u, w) /\ w \in L => w \in M
StaysOwed(v, u, q, l, q2, l2, M, X) ==
  \A t \in Windows, w \in Windows \ X :
    /\ Remains(v, u, t) /\ Remains(v, u, w) /\ At(v, t).edge # At(v, w).edge /\ At(v, t).mon = At(v, w).mon
    /\ Owed(v, q, l, t, w)
    => w \in M \/ Owed(u, q2, l2, t, w)
StaysBased(v, u, base, base2, M, X) ==
  \A w \in Windows \ X : Remains(v, u, w) => w \in M \/ base2[At(v, w).mon] = base[At(v, w).mon]

Proper(X) ==
  /\ StaysPut(Now, Now', X) /\ Vacates(Now, Now', Loose, Loose')
  /\ Occupies(Now, Now', Loose', posted', loop', X) /\ Fits(Now', Bases', Loose', X)
  /\ StaysLoose(Now, Now', Loose, Loose', X)
  /\ StaysOwed(Now, Now', posted, loop, posted', loop', Loose', X)
  /\ StaysBased(Now, Now', Bases, Bases', Loose', X)
AtMostOne(X) == X = {} \/ \E x \in Windows : X = {x}

LEMMA BreadthStep ==
  ASSUME NEW v, NEW u, NEW X, NEW base, NEW L, NEW M, StaysPut(v, u, X), StaysLoose(v, u, L, M, X),
         Fits(u, base, M, X), Breadth(v, L)
  PROVE  Breadth(u, M)
<1> SUFFICES ASSUME NEW w \in Windows, Stood(u, w) PROVE OneBroad(u, w) \/ w \in M
  BY DEF Breadth
<1>1. CASE w \in X
  BY <1>1 DEF Fits
<1>2. CASE w \notin X
  <2>1. Remains(v, u, w)
    BY <1>2 DEF StaysPut
  <2>2. w \in L => w \in M
    BY <1>2, <2>1 DEF StaysLoose
  <2> QED
    BY <2>1, <2>2 DEF Breadth, OneBroad, Remains, SamePlace, To, From, EndOf
<1> QED
  BY <1>1, <1>2

LEMMA LongStep ==
  ASSUME NEW v, NEW u, NEW X, NEW base, NEW base2, NEW L, NEW M, StaysPut(v, u, X),
         StaysLoose(v, u, L, M, X), StaysBased(v, u, base, base2, M, X), Fits(u, base2, M, X),
         Long(v, base, L)
  PROVE  Long(u, base2, M)
<1> SUFFICES ASSUME NEW w \in Windows, Stood(u, w), Horizontal(At(u, w).edge), w \notin M
             PROVE  Spans(u, base2, w)
  BY DEF Long
<1>1. CASE w \in X
  BY <1>1 DEF Fits
<1>2. CASE w \notin X
  <2>1. Remains(v, u, w)
    BY <1>2 DEF StaysPut
  <2>2. w \notin L /\ base2[At(v, w).mon] = base[At(v, w).mon]
    BY <1>2, <2>1 DEF StaysLoose, StaysBased
  <2>3. Spans(v, base, w)
    BY <2>1, <2>2 DEF Long, Remains, SamePlace
  <2> QED
    BY <2>1, <2>2, <2>3 DEF Spans, Remains, SamePlace
<1> QED
  BY <1>1, <1>2

\* A bar that is before one that remains in its row, and remains, was before it.
LEMMA RowStays ==
  ASSUME NEW v, NEW u, NEW X, StaysPut(v, u, X), NEW a \in Windows, NEW b \in Windows,
         Remains(v, u, a), Remains(v, u, b)
  PROVE  /\ InRow(v, a, b) <=> InRow(u, a, b)
         /\ Apart(v, a, b) <=> Apart(u, a, b)
         /\ Blocks(v, a, b) => Blocks(u, a, b)
<1>1. Older(u, a, b) <=> Older(v, a, b)
  BY DEF StaysPut, Remains
<1>2. /\ InRow(v, a, b) <=> InRow(u, a, b)
      /\ Apart(v, a, b) <=> Apart(u, a, b)
  BY <1>1, RowSame
<1>3. OneBroad(v, b) <=> OneBroad(u, b)
  BY DEF OneBroad, Remains, SamePlace, To, From, EndOf
<1>4. Blocks(v, a, b) => Blocks(u, a, b)
  BY <1>2, <1>3 DEF Blocks
<1> QED
  BY <1>2, <1>4

\* The bar that is placed is apart from the older ones, or they are not apart.
LEMMA PlacedRow ==
  ASSUME NEW v, Regular(v.bars), NEW u, Regular(u.bars), NEW x \in Windows, NEW base, NEW L, NEW M,
         StaysPut(v, u, {x}), StaysLoose(v, u, L, M, {x}), Fits(u, base, M, {x}),
         Rows(v, L), Breadth(u, M), NEW a \in Windows, InRow(u, a, x), ~Apart(u, a, x)
  PROVE  Broken(u, M, a, x)
<1> SUFFICES ASSUME x \notin M PROVE Broken(u, M, a, x)
  BY DEF Broken, Blocks
<1>1. PICK k \in Windows : InRow(u, k, x) /\ From(u, x) = To(u, k) /\ (k = a \/ InRow(u, a, k))
  <2>1. Stood(u, x) /\ x \in {x}
    BY DEF InRow, Beside
  <2> QED
    BY <2>1 DEF Fits
<1>2. k # x /\ a # x
  BY <1>1, RowOnce
<1>3. k # a
  <2> SUFFICES ASSUME k = a PROVE FALSE
    OBVIOUS
  <2>1. From(u, x) = To(u, a) /\ To(u, a) \in Int
    BY <1>1, StoodIs DEF InRow, Beside
  <2> QED
    BY <2>1 DEF Apart, Within
<1>4. InRow(u, a, k)
  BY <1>1, <1>3
<1> SUFFICES ASSUME OneBroad(u, k) PROVE Broken(u, M, a, x)
  <2>1. ASSUME ~OneBroad(u, k) PROVE k \in M /\ Blocks(u, a, k)
    BY <1>4, <2>1 DEF Breadth, Blocks, InRow, Beside
  <2> QED
    BY <1>1, <2>1 DEF Broken
<1>5. ~Apart(u, a, k)
  BY <1>1, <1>4, NotApart DEF OneBroad
<1>6. Remains(v, u, a) /\ Remains(v, u, k)
  BY <1>2, <1>4 DEF InRow, Beside, StaysPut
<1>7. InRow(v, a, k) /\ ~Apart(v, a, k)
  BY <1>4, <1>5, <1>6, RowStays
<1>8. PICK c \in Windows : Blocks(v, a, c) /\ c \in L /\ (c = k \/ InRow(v, c, k))
  BY <1>7 DEF Rows, Broken
<1>9. c # x
  <2> SUFFICES ASSUME c = x PROVE FALSE
    OBVIOUS
  <2>1. InRow(v, x, k) /\ InRow(u, k, x)
    BY <1>1, <1>2, <1>8
  <2>2. Older(v, x, k) /\ Older(u, k, x) /\ Stood(v, x) /\ Stood(v, k) /\ Stood(u, x) /\ Stood(u, k)
    BY <2>1 DEF InRow, Beside
  <2>3. Older(u, x, k)
    BY <2>2 DEF StaysPut
  <2>4. IndexOf(u.bars, x) \in Nat /\ IndexOf(u.bars, k) \in Nat
    BY <2>2, StoodIs
  <2> QED
    BY <2>2, <2>3, <2>4 DEF Older
<1>10. Remains(v, u, c)
  BY <1>8, <1>9 DEF Blocks, InRow, Beside, StaysPut
<1>11. c \in M
  BY <1>8, <1>9, <1>10 DEF StaysLoose
<1>12. Blocks(u, a, c) /\ (c = k \/ InRow(u, c, k))
  BY <1>6, <1>8, <1>10, RowStays
<1>13. InRow(u, c, x)
  BY <1>1, <1>12, RowTwice
<1> QED
  BY <1>11, <1>12, <1>13 DEF Broken

LEMMA RowsStep ==
  ASSUME NEW v, Regular(v.bars), NEW u, Regular(u.bars), NEW X, AtMostOne(X), NEW base, NEW L, NEW M,
         NEW q, NEW l, StaysPut(v, u, X), StaysLoose(v, u, L, M, X), Fits(u, base, M, X),
         Vacates(v, u, L, M), Occupies(v, u, M, q, l, X), Rows(v, L), Breadth(u, M)
  PROVE  Rows(u, M)
<1> SUFFICES ASSUME NEW a \in Windows, NEW b \in Windows, InRow(u, a, b), ~Apart(u, a, b)
             PROVE  Broken(u, M, a, b)
  BY DEF Rows
<1>1. ASSUME NEW x \in X, NEW d \in Windows, InRow(u, d, x), ~Apart(u, d, x)
      PROVE  Broken(u, M, d, x)
  <2>1. X = {x} /\ x \in Windows
    BY DEF AtMostOne
  <2> QED
    BY <1>1, <2>1, PlacedRow
<1>2. ASSUME b \in M PROVE Broken(u, M, a, b)
  BY <1>2 DEF Broken, Blocks
<1>3. CASE b \in X
  BY <1>1, <1>3
<1>4. CASE b \notin X /\ ~Remains(v, u, a)
  <2>1. Stood(u, a) /\ Stood(u, b) /\ At(u, a).mon = At(u, b).mon /\ Older(u, a, b)
    BY DEF InRow, Beside
  <2>2. a \in X /\ Remains(v, u, b)
    BY <1>4, <2>1 DEF StaysPut
  <2>3. b \in M
    BY <1>4, <2>1, <2>2 DEF Occupies
  <2> QED
    BY <1>2, <2>3
<1>5. CASE b \notin X /\ Remains(v, u, a)
  <2>1. Remains(v, u, b)
    BY <1>5 DEF InRow, Beside, StaysPut
  <2>2. InRow(v, a, b) /\ ~Apart(v, a, b)
    BY <1>5, <2>1, RowStays
  <2>3. PICK c \in Windows : Blocks(v, a, c) /\ c \in L /\ (c = b \/ InRow(v, c, b))
    BY <2>2 DEF Rows, Broken
  <2>4. CASE ~Remains(v, u, c)
    <3>1. InRow(v, c, b)
      BY <2>1, <2>3, <2>4
    <3>2. Stood(v, c) /\ At(v, b).mon = At(v, c).mon /\ Older(v, c, b)
      BY <3>1 DEF InRow, Beside
    <3>3. Disturbed(v, L, At(v, c).mon)
      BY <2>3, <3>2 DEF Disturbed
    <3>4. b \in M
      BY <2>1, <2>4, <3>2, <3>3 DEF Vacates
    <3> QED
      BY <1>2, <3>4
  <2>5. CASE Remains(v, u, c)
    <3>1. Blocks(u, a, c) /\ (c = b \/ InRow(u, c, b))
      BY <1>5, <2>1, <2>3, <2>5, RowStays
    <3>2. CASE c \notin X
      <4>1. c \in M
        BY <2>3, <2>5, <3>2 DEF StaysLoose
      <4> QED
        BY <3>1, <4>1 DEF Broken
    <3>3. CASE c \in X /\ ~OneBroad(u, c)
      <4>1. c \in M
        BY <3>1, <3>3 DEF Breadth, Blocks, InRow, Beside
      <4> QED
        BY <3>1, <4>1 DEF Broken
    <3>4. CASE c \in X /\ OneBroad(u, c)
      <4>0. InRow(u, a, c) /\ ~Apart(u, a, c)
        BY <3>1, <3>4 DEF Blocks
      <4>1. PICK d \in Windows : Blocks(u, a, d) /\ d \in M /\ (d = c \/ InRow(u, d, c))
        BY <1>1, <3>4, <4>0 DEF Broken
      <4>2. InRow(u, c, b)
        BY <1>5, <3>1, <3>4
      <4>3. InRow(u, d, b)
        BY <4>1, <4>2, RowTwice
      <4> QED
        BY <4>1, <4>3 DEF Broken
    <3> QED
      BY <3>2, <3>3, <3>4
  <2> QED
    BY <2>4, <2>5
<1> QED
  BY <1>3, <1>4, <1>5

LEMMA CornersStep ==
  ASSUME NEW v, Regular(v.bars), NEW u, Regular(u.bars), NEW X, AtMostOne(X), NEW base, NEW base2,
         NEW L, NEW M, NEW q, NEW l, NEW q2, NEW l2,
         StaysPut(v, u, X), StaysLoose(v, u, L, M, X), Fits(u, base2, M, X),
         Vacates(v, u, L, M), Occupies(v, u, M, q2, l2, X),
         StaysOwed(v, u, q, l, q2, l2, M, X), StaysBased(v, u, base, base2, M, X),
         Corners(v, base, L, q, l), Rows(u, M), Breadth(u, M)
  PROVE  Corners(u, base2, M, q2, l2)
<1> SUFFICES ASSUME NEW t \in Windows, NEW w \in Windows, Over(u, t, w), w \notin M, ~Owed(u, q2, l2, t, w),
                    Spans(u, base2, t)
             PROVE  Behindhand(u, M, w)
  BY DEF Corners
<1>0. /\ Stood(u, t) /\ Stood(u, w) /\ At(u, t).mon = At(u, w).mon /\ At(u, t).edge # At(u, w).edge
      /\ Horizontal(At(u, t).edge) /\ ~Horizontal(At(u, w).edge)
  BY DEF Over, Beside
<1>1. ASSUME NEW a \in Windows, NEW c \in Windows, InRow(u, a, c), ~Apart(u, a, c), c = w \/ InRow(u, c, w)
      PROVE  Behindhand(u, M, w)
  <2>1. PICK d \in Windows : Blocks(u, a, d) /\ d \in M /\ (d = c \/ InRow(u, d, c))
    BY <1>1 DEF Rows, Broken
  <2>2. InRow(u, d, w)
    BY <1>1, <2>1, RowTwice
  <2> QED
    BY <2>1, <2>2 DEF Behindhand
<1>2. CASE w \in X
  <2>1. PICK a \in Windows : InRow(u, a, w) /\ ~Apart(u, a, w)
    BY <1>0, <1>2 DEF Fits
  <2> QED
    BY <1>1, <2>1
<1>3. CASE w \notin X
  <2>1. Remains(v, u, w)
    BY <1>0, <1>3 DEF StaysPut
  <2>2. Remains(v, u, t)
    <3> SUFFICES ASSUME ~Remains(v, u, t) PROVE FALSE
      OBVIOUS
    <3>1. t \in X
      BY <1>0 DEF StaysPut
    <3> QED
      BY <1>0, <2>1, <3>1 DEF Occupies
  <2>3. Over(v, t, w) /\ At(v, t).edge # At(v, w).edge /\ At(v, t).mon = At(v, w).mon
    BY <1>0, <2>1, <2>2 DEF Over, Beside, Remains, SamePlace
  <2>4. w \notin L
    BY <1>3, <2>1 DEF StaysLoose
  <2>5. ~Owed(v, q, l, t, w)
    BY <1>3, <2>1, <2>2, <2>3 DEF StaysOwed
  <2>6. Spans(v, base, t)
    <3>1. base2[At(v, w).mon] = base[At(v, w).mon]
      BY <1>3, <2>1 DEF StaysBased
    <3> QED
      BY <2>2, <2>3, <3>1 DEF Spans, Remains, SamePlace
  <2>7. PICK a \in Windows, c \in Windows : Blocks(v, a, c) /\ InRow(v, c, w) /\ c \in L
    BY <2>3, <2>4, <2>5, <2>6 DEF Corners, Behindhand
  <2>8. /\ Stood(v, a) /\ At(v, w).mon = At(v, a).mon /\ Older(v, a, w)
        /\ Stood(v, c) /\ At(v, w).mon = At(v, c).mon /\ Older(v, c, w)
    <3>1. InRow(v, a, w)
      BY <2>7, RowTwice DEF Blocks
    <3> QED
      BY <2>7, <3>1 DEF Blocks, InRow, Beside
  <2>9. Disturbed(v, L, At(v, a).mon) /\ Disturbed(v, L, At(v, c).mon)
    BY <2>7, <2>8 DEF Disturbed
  <2>10. Remains(v, u, a) /\ Remains(v, u, c)
    BY <2>1, <2>8, <2>9 DEF Vacates
  <2>11. Blocks(u, a, c) /\ InRow(u, c, w)
    BY <2>1, <2>7, <2>10, RowStays
  <2>12. CASE OneBroad(u, c)
    BY <1>1, <2>11, <2>12 DEF Blocks
  <2>13. CASE ~OneBroad(u, c)
    <3>1. c \in M
      BY <2>11, <2>13 DEF Breadth, InRow, Beside
    <3> QED
      BY <2>11, <3>1 DEF Behindhand
  <2> QED
    BY <2>12, <2>13
<1> QED
  BY <1>2, <1>3

LEMMA PlacesStep ==
  ASSUME PlacesInv, Regular(bars), Regular(bars'), NEW X, AtMostOne(X), Proper(X)
  PROVE  PlacesInv'
<1>1. Regular(Now.bars) /\ Regular(Now'.bars)
  BY DEF Now
<1>2. Breadth(Now', Loose')
  BY BreadthStep DEF Proper, PlacesInv
<1>3. Rows(Now', Loose')
  BY <1>1, <1>2, RowsStep DEF Proper, PlacesInv
<1>4. Corners(Now', Bases', Loose', posted', loop')
  BY <1>1, <1>2, <1>3, CornersStep DEF Proper, PlacesInv
<1>5. Long(Now', Bases', Loose')
  BY LongStep DEF Proper, PlacesInv
<1> QED
  BY <1>2, <1>3, <1>4, <1>5 DEF PlacesInv

-----------------------------------------------------------------------------
(* Once all have answered.                                                  *)

LEMMA NothingOwed ==
  ASSUME BarsInv, MessagesInv, NEW m, AtRest(m)
  PROVE  /\ ~Disturbed(Now, Loose, m)
         /\ \A t, w : ~Owed(Now, posted, loop, t, w)
<1>1. posted = <<>> /\ loop = NoLoop /\ told = {}
  BY DEF AtRest, Quiet, MessagesInv, Handlers
<1>2. \A n : ~Queued(posted, n)
  BY <1>1 DEF Queued
<1>3. Len(loop.todo) = 0 /\ 1..Len(loop.todo) = {}
  BY <1>1 DEF NoLoop
<1>4. ASSUME NEW c, Stood(Now, c), At(Now, c).mon = m PROVE c \notin Loose
  <2>1. c \in alive /\ IsBar(bars, c) /\ TakesRoom(bars[IndexOf(bars, c)], m)
    BY <1>4 DEF Stood, At, Now
  <2>2. IndexOf(bars, c) \in DOMAIN bars /\ bars[IndexOf(bars, c)].win = c
    BY <2>1, Found, BarAt DEF BarsInv
  <2>3. c \notin astray
    BY <2>1, <2>2 DEF AtRest, Standing
  <2>4. ~WillTell(loop, Now, c)
    BY <1>3 DEF WillTell
  <2> QED
    BY <1>1, <1>2, <2>3, <2>4 DEF Loose
<1>5. ~Disturbed(Now, Loose, m)
  BY <1>4 DEF Disturbed
<1>6. \A t, w : ~Owed(Now, posted, loop, t, w)
  BY <1>2, <1>3 DEF Owed
<1> QED
  BY <1>5, <1>6

LEMMA IntersectSame ==
  ASSUME NEW r, NEW s
  PROVE  Intersect(r, s) <=> Intersect(s, r)
BY DEF Intersect

LEMMA StandingIs ==
  ASSUME BarsInv, NEW m, NEW i \in DOMAIN bars, Standing(i, m), NEW w, w = bars[i].win
  PROVE  Stood(Now, w) /\ At(Now, w) = bars[i] /\ At(Now, w).mon = m /\ i = IndexOf(bars, w)
<1>1. IsBar(bars, w)
  BY DEF IsBar
<1>2. i = IndexOf(bars, w)
  BY <1>1, Found, BarAt DEF BarsInv
<1>3. At(Now, w) = bars[i] /\ At(Now, w).mon = m
  BY <1>2 DEF At, Now, Standing, TakesRoom
<1> QED
  BY <1>1, <1>2, <1>3 DEF Stood, Now, Standing

LEMMA RestIsDisjoint ==
  ASSUME NoneFacing, BarsInv, MessagesInv, PlacesInv, NEW m \in Monitors, AtRest(m)
  PROVE  Disjoint(m)
<1>0. Regular(Now.bars)
  BY DEF Now, BarsInv
<1>1. ASSUME NEW c, Stood(Now, c), At(Now, c).mon = m PROVE c \notin Loose
  <2>1. c \in Windows
    BY <1>0, <1>1, StoodIs
  <2> QED
    BY <1>1, <2>1, NothingOwed DEF Disturbed
<1>2. ASSUME NEW a, NEW b, InRow(Now, a, b), At(Now, a).mon = m
      PROVE  Apart(Now, a, b)
  <2>1. a \in Windows /\ b \in Windows
    BY <1>0, <1>2, StoodIs DEF InRow, Beside
  <2>2. ~Broken(Now, Loose, a, b)
    BY <1>1, <1>2 DEF Broken, Blocks, InRow, Beside
  <2> QED
    BY <1>2, <2>1, <2>2 DEF PlacesInv, Rows
<1>3. ASSUME NEW a, NEW b, InRow(Now, a, b), At(Now, a).mon = m
      PROVE  ~Intersect(At(Now, a).rect, At(Now, b).rect)
  BY <1>0, <1>2, <1>3, ApartClear
<1>4. ASSUME NEW t, NEW w, Over(Now, t, w), At(Now, t).mon = m PROVE FALSE
  <2>1. /\ t \in Windows /\ w \in Windows /\ Stood(Now, t) /\ Stood(Now, w) /\ At(Now, w).mon = m
        /\ Horizontal(At(Now, t).edge)
    BY <1>0, <1>4, StoodIs DEF Over, Beside
  <2>2. t \notin Loose /\ w \notin Loose
    BY <1>1, <1>4, <2>1
  <2>3. Spans(Now, Bases, t)
    BY <2>1, <2>2 DEF PlacesInv, Long
  <2>4. ~Owed(Now, posted, loop, t, w)
    BY NothingOwed
  <2>5. ~Behindhand(Now, Loose, w)
    BY <1>1, <2>1 DEF Behindhand, Blocks, InRow, Beside
  <2> QED
    BY <1>4, <2>1, <2>2, <2>3, <2>4, <2>5 DEF PlacesInv, Corners
<1> SUFFICES ASSUME NEW i \in DOMAIN bars, NEW j \in DOMAIN bars, i # j, Standing(i, m), Standing(j, m)
             PROVE  ~Intersect(bars[i].rect, bars[j].rect)
  BY DEF Disjoint
<1>5. PICK a, b : a = bars[i].win /\ b = bars[j].win
  OBVIOUS
<1>6. /\ Stood(Now, a) /\ At(Now, a) = bars[i] /\ At(Now, a).mon = m /\ i = IndexOf(bars, a)
      /\ Stood(Now, b) /\ At(Now, b) = bars[j] /\ At(Now, b).mon = m /\ j = IndexOf(bars, b)
  BY <1>5, StandingIs
<1>7. CASE At(Now, a).edge = At(Now, b).edge
  <2>1. i \in Nat /\ j \in Nat
    BY <1>6, StoodIs, <1>0 DEF Now
  <2>2. InRow(Now, a, b) \/ InRow(Now, b, a)
    BY <1>6, <1>7, <2>1 DEF InRow, Beside, Older, Now
  <2> QED
    BY <1>3, <1>6, <2>2, IntersectSame
<1>8. CASE At(Now, a).edge # At(Now, b).edge
  <2>1. At(Now, a).edge \in Edges /\ At(Now, a).edge \in Sides /\ At(Now, b).edge \in Edges /\ At(Now, b).edge \in Sides
    BY <1>0, <1>6, StoodIs
  <2>2. Horizontal(At(Now, a).edge) <=> ~Horizontal(At(Now, b).edge)
    <3> DEFINE e == At(Now, a).edge
               f == At(Now, b).edge
    <3>1. e \in Edges /\ f \in Edges /\ e # f /\ e \in Sides /\ f \in Sides
      BY <1>8, <2>1
    <3> HIDE DEF e, f
    <3>2. f # Opposite[e]
      BY <3>1 DEF NoneFacing
    <3>3. Horizontal(e) <=> ~Horizontal(f)
      BY <3>1, <3>2 DEF Sides, Opposite, Horizontal
    <3> QED
      BY <3>3 DEF e, f
  <2> QED
    BY <1>4, <1>6, <1>8, <2>2, IntersectSame DEF Over, Beside
<1> QED
  BY <1>7, <1>8

LEMMA PlacesStart ==
  ASSUME Init
  PROVE  PlacesInv
<1>1. \A w : ~Stood(Now, w)
  BY DEF Init, Now, Stood, IsBar
<1> QED
  BY <1>1 DEF PlacesInv, Rows, Corners, Long, Breadth, InRow, Over, Beside

-----------------------------------------------------------------------------
(* What the actions leave as it is.                                         *)

\* Bars keep their place, but for those of D, and their order; no dead bar is added.
Settled(v, u, D) ==
  /\ \A w : w \notin D /\ Stood(u, w) => Remains(v, u, w)
  /\ \A w : w \notin D /\ Stood(v, w) => Remains(v, u, w)
  /\ \A a, b : IsBar(v.bars, a) /\ IsBar(v.bars, b) /\ IsBar(u.bars, a) /\ IsBar(u.bars, b)
                 => (Older(u, a, b) <=> Older(v, a, b))
  /\ \A w : IsBar(u.bars, w) /\ w \notin u.live => IsBar(v.bars, w)
\* The handler goes on as it was, as far as w is concerned.
GoesOn(l, k, w) ==
  /\ k.todo = l.todo /\ k.skip = l.skip /\ k.mon = l.mon /\ k.p = l.p
  /\ w \in k.gone => w \in l.gone
\* The messages do, but for those that the bars of D have.
Heard(D) ==
  /\ told \ D \subseteq told' /\ \A n : Queued(posted, n) => Queued(posted', n)
  /\ \A w \in alive : w \notin D => GoesOn(loop, loop', w)

LEMMA SurelyStays ==
  ASSUME NEW v, NEW u, NEW D, Settled(v, u, D), u.live \subseteq v.live, NEW w, Remains(v, u, w),
         NEW n, Surely(v, n, w), Stood(v, n.skip) => n.skip \notin D
  PROVE  Surely(u, n, w)
<1>1. IsBar(v.bars, w) /\ IsBar(u.bars, w) /\ At(u, w).mon = At(v, w).mon
  BY DEF Remains, Stood, SamePlace
<1>2. CASE n.skip \notin v.live /\ ~(IsBar(v.bars, n.skip) /\ Older(v, w, n.skip))
  <2>1. n.skip \notin u.live
    BY <1>2
  <2>2. ~(IsBar(u.bars, n.skip) /\ Older(u, w, n.skip))
    BY <1>1, <1>2, <2>1 DEF Settled
  <2> QED
    BY <1>1, <2>1, <2>2 DEF Surely
<1>3. CASE Stood(v, n.skip) /\ At(v, n.skip).mon = n.mon /\ Older(v, n.skip, w)
  <2>1. Remains(v, u, n.skip)
    BY <1>3 DEF Settled
  <2>2. Stood(u, n.skip) /\ At(u, n.skip).mon = n.mon
    BY <1>3, <2>1 DEF Remains, SamePlace
  <2>3. Older(u, n.skip, w)
    <3>1. IsBar(v.bars, n.skip) /\ IsBar(u.bars, n.skip)
      BY <2>1 DEF Remains, Stood
    <3> QED
      BY <1>1, <1>3, <3>1 DEF Settled
  <2> QED
    BY <1>1, <2>2, <2>3 DEF Surely
<1> QED
  BY <1>2, <1>3 DEF Surely

LEMMA LooseStays ==
  ASSUME NEW D, Settled(Now, Now', D), alive' \subseteq alive, Heard(D),
         NEW w \in Windows, w \notin D, w \in astray => w \in astray',
         Remains(Now, Now', w), w \in Loose,
         \A n \in Notices : Queued(posted, n) /\ Surely(Now, n, w) /\ n.skip \in D /\ Stood(Now, n.skip)
                              => w \in Loose'
  PROVE  w \in Loose'
<1>0. Now.live = alive /\ Now'.live = alive' /\ w \in alive
  BY DEF Now, Remains, Stood
<1>1. CASE w \in told \cup astray
  BY <1>1 DEF Heard, Loose
<1>2. CASE WillTell(loop, Now, w)
  <2>1. PICK i \in 1..Len(loop.todo) : ComesTo(loop, Now, w, i) /\ ~Skips(loop, i)
    BY <1>2 DEF WillTell
  <2>2. GoesOn(loop, loop', w)
    BY <1>0 DEF Heard
  <2>3. ComesTo(loop', Now', w, i) /\ ~Skips(loop', i) /\ i \in 1..Len(loop'.todo)
    BY <2>1, <2>2 DEF GoesOn, ComesTo, Skips, Remains, SamePlace
  <2>4. WillTell(loop', Now', w)
    BY <1>2, <2>2, <2>3 DEF WillTell, GoesOn
  <2> QED
    BY <2>4 DEF Loose
<1>3. CASE \E n \in Notices : Queued(posted, n) /\ Surely(Now, n, w)
  <2>1. PICK n \in Notices : Queued(posted, n) /\ Surely(Now, n, w)
    BY <1>3
  <2>2. CASE n.skip \in D /\ Stood(Now, n.skip)
    BY <2>1, <2>2
  <2>3. CASE ~(n.skip \in D /\ Stood(Now, n.skip))
    <3>1. Surely(Now', n, w)
      BY <1>0, <2>1, <2>3, SurelyStays
    <3>2. Queued(posted', n)
      BY <2>1 DEF Heard
    <3> QED
      BY <3>1, <3>2 DEF Loose
  <2> QED
    BY <2>2, <2>3
<1> QED
  BY <1>1, <1>2, <1>3 DEF Loose

LEMMA OwedStays ==
  ASSUME \A n : Queued(posted, n) => Queued(posted', n), NEW t, NEW w, GoesOn(loop, loop', t),
         GoesOn(loop, loop', w), Remains(Now, Now', w), Owed(Now, posted, loop, t, w)
  PROVE  Owed(Now', posted', loop', t, w)
<1>1. At(Now', w).mon = At(Now, w).mon
  BY DEF Remains, SamePlace
<1>2. CASE \E n \in Notices : Queued(posted, n) /\ n.skip = t /\ n.mon = At(Now, w).mon
  BY <1>1, <1>2 DEF Owed
<1>3. CASE loop.skip = t /\ t \notin loop.gone /\ \E i \in 1..Len(loop.todo) : ComesTo(loop, Now, w, i)
  <2>1. loop'.skip = t /\ t \notin loop'.gone /\ \E i \in 1..Len(loop'.todo) : ComesTo(loop', Now', w, i)
    BY <1>1, <1>3 DEF GoesOn, ComesTo
  <2> QED
    BY <2>1 DEF Owed
<1> QED
  BY <1>2, <1>3 DEF Owed

\* A step that places no bar, where those of D leave.
LEMMA SettledStep ==
  ASSUME NEW D, Settled(Now, Now', D), alive' \subseteq alive, Heard(D), astray \subseteq astray',
         \A d \in D : ~Stood(Now', d),
         \A d \in D, y \in Windows :
            /\ Stood(Now, d) /\ Remains(Now, Now', y) /\ At(Now, y).mon = At(Now, d).mon /\ Older(Now, d, y)
            /\ \/ Disturbed(Now, Loose, At(Now, d).mon)
               \/ \E n \in Notices : Queued(posted, n) /\ n.skip = d /\ n.mon = At(Now, y).mon
            => y \in Loose',
         \A y \in Windows : Remains(Now, Now', y) => \/ y \in Loose'
                                                     \/ Bases'[At(Now, y).mon] = Bases[At(Now, y).mon]
  PROVE  Proper({})
<1>0. \A w : Remains(Now, Now', w) => w \notin D
  BY DEF Remains
<1>1. StaysPut(Now, Now', {})
  BY DEF Settled, StaysPut, Stood
<1>2. Vacates(Now, Now', Loose, Loose')
  BY DEF Vacates, Settled
<1>3. Occupies(Now, Now', Loose', posted', loop', {}) /\ Fits(Now', Bases', Loose', {})
  BY DEF Occupies, Fits
<1>4. StaysLoose(Now, Now', Loose, Loose', {})
  <2> SUFFICES ASSUME NEW w \in Windows, Remains(Now, Now', w), w \in Loose PROVE w \in Loose'
    BY DEF StaysLoose
  <2>1. ASSUME NEW n \in Notices, Queued(posted, n), Surely(Now, n, w), n.skip \in D, Stood(Now, n.skip)
        PROVE  w \in Loose'
    <3>1. n.skip \in Now.live
      BY <2>1 DEF Stood
    <3>2. At(Now, n.skip).mon = n.mon /\ Older(Now, n.skip, w) /\ n.mon = At(Now, w).mon
      BY <2>1, <3>1 DEF Surely
    <3> QED
      BY <2>1, <3>2
  <2>2. w \notin D /\ (w \in astray => w \in astray')
    BY <1>0
  <2> QED
    BY <2>1, <2>2, LooseStays
<1>5. StaysOwed(Now, Now', posted, loop, posted', loop', Loose', {})
  <2>1. \A w : Remains(Now, Now', w) => GoesOn(loop, loop', w)
    BY <1>0 DEF Remains, Stood, Now, Heard
  <2> QED
    BY <2>1, OwedStays DEF StaysOwed, Heard
<1>6. StaysBased(Now, Now', Bases, Bases', Loose', {})
  BY DEF StaysBased
<1> QED
  BY <1>1, <1>2, <1>3, <1>4, <1>5, <1>6 DEF Proper

LEMMA DangleHeard ==
  ASSUME loop \in Handlers, NEW ws, Dangle(ws), NEW w, w \notin ws
  PROVE  GoesOn(loop, loop', w)
<1> DEFINE g == IF loop.on THEN loop.gone \cup {d \in ws : d \in ToSet(loop.todo) \/ d = loop.p}
                ELSE loop.gone
<1>1. loop' = [loop EXCEPT !.gone = g]
  BY DEF Dangle
<1>2. w \in g => w \in loop.gone
  OBVIOUS
<1> HIDE DEF g
<1> QED
  BY <1>1, <1>2 DEF GoesOn, Handlers

LEMMA NotifyHeard ==
  ASSUME posted \in Seq(Notices), NEW w \in Windows \cup {None}, NEW m \in Monitors \cup {None},
         Notify(w, m)
  PROVE  /\ \A n : Queued(posted, n) => Queued(posted', n)
         /\ \E n \in Notices : Queued(posted', n) /\ n.skip = w /\ n.mon = m
<1> DEFINE x == [skip |-> w, mon |-> m]
<1>1. x \in Notices /\ x.mon = m /\ x.skip = w
  BY DEF Notices
<1>2. posted' = Append(posted, x)
  BY DEF Notify
<1> HIDE DEF x
<1>3. /\ Len(posted') = Len(posted) + 1 /\ posted'[Len(posted) + 1] = x /\ Len(posted) \in Nat
      /\ \A i \in 1..Len(posted) : posted'[i] = posted[i]
  BY <1>1, <1>2, AppendProperties, LenProperties
<1>4. Len(posted) + 1 \in 1..Len(posted') /\ 1..Len(posted) \subseteq 1..Len(posted')
  BY <1>3
<1>5. Queued(posted', x)
  BY <1>3, <1>4 DEF Queued
<1>6. \A n : Queued(posted, n) => Queued(posted', n)
  BY <1>3, <1>4 DEF Queued
<1> QED
  BY <1>1, <1>5, <1>6

-----------------------------------------------------------------------------
(* The bars after each action.                                              *)

LEMMA NowIs ==
  Now.bars = bars /\ Now.live = alive /\ Now'.bars = bars' /\ Now'.live = alive'
BY DEF Now

\* Bars that keep their places, and others that do not stand.
LEMMA KeepPlaces ==
  ASSUME NEW bs, NEW cs, NEW D, NEW v, v.bars = bs, NEW u, u.bars = cs, u.live = v.live,
         \A w : w \in v.live \ D /\ IsBar(bs, w) =>
            /\ IsBar(cs, w)
            /\ At(u, w).overlap = At(v, w).overlap /\ At(u, w).clean = At(v, w).clean
            /\ At(v, w).clean => SamePlace(v, u, w),
         \A w : w \in v.live \ D /\ IsBar(cs, w) /\ ~IsBar(bs, w) => ~At(u, w).clean,
         \A w : w \notin v.live /\ IsBar(cs, w) => IsBar(bs, w),
         \A a, b : IsBar(bs, a) /\ IsBar(bs, b) /\ IsBar(cs, a) /\ IsBar(cs, b)
                     => (IndexOf(cs, a) < IndexOf(cs, b) <=> IndexOf(bs, a) < IndexOf(bs, b))
  PROVE  Settled(v, u, D)
<1>1. ASSUME NEW w, w \notin D, Stood(v, w) PROVE Remains(v, u, w)
  BY <1>1 DEF Stood, Remains, SamePlace, TakesRoom
<1>2. ASSUME NEW w, w \notin D, Stood(u, w) PROVE Remains(v, u, w)
  <2>1. w \in v.live \ D /\ IsBar(cs, w) /\ At(u, w).clean /\ ~At(u, w).overlap
    BY <1>2 DEF Stood, TakesRoom
  <2>2. IsBar(bs, w)
    BY <2>1
  <2>3. At(v, w).clean /\ ~At(v, w).overlap /\ SamePlace(v, u, w)
    BY <2>1, <2>2
  <2> QED
    BY <1>2, <2>1, <2>2, <2>3 DEF Stood, Remains, TakesRoom
<1>3. ASSUME NEW a, NEW b, IsBar(bs, a), IsBar(bs, b), IsBar(cs, a), IsBar(cs, b)
      PROVE  Older(u, a, b) <=> Older(v, a, b)
  BY <1>3 DEF Older
<1> QED
  BY <1>1, <1>2, <1>3 DEF Settled

\* LiveBars are the bars of windows that exist, as they were.
LEMMA LiveKeeps ==
  ASSUME BarsInv, NEW L, L = LiveBars
  PROVE  /\ Regular(L)
         /\ \A w : IsBar(L, w) <=> IsBar(bars, w) /\ w \in alive
         /\ \A w : IsBar(L, w) => L[IndexOf(L, w)] = bars[IndexOf(bars, w)]
         /\ \A a, b : IsBar(L, a) /\ IsBar(L, b)
                        => (IndexOf(L, a) < IndexOf(L, b) <=> IndexOf(bars, a) < IndexOf(bars, b))
<1>1. L = Delete(bars, Dead) /\ Regular(bars)
  BY DEF LiveBars, BarsInv
<1>2. \A w : IsBar(bars, w) => (w \in Dead <=> w \notin alive)
  BY DEF IsBar, Dead
<1>3. \A w : IsBar(L, w) => IsBar(bars, w) /\ w \notin Dead
  BY <1>1, Kept
<1>4. \A w : IsBar(bars, w) /\ w \notin Dead => IsBar(L, w) /\ L[IndexOf(L, w)] = bars[IndexOf(bars, w)]
  BY <1>1, Kept
<1>5. \A a, b : IsBar(L, a) /\ IsBar(L, b)
                  => (IndexOf(L, a) < IndexOf(L, b) <=> IndexOf(bars, a) < IndexOf(bars, b))
  BY <1>1, KeptOrder
<1>6. Regular(L)
  BY <1>1, Kept
<1> QED
  BY <1>2, <1>3, <1>4, <1>5, <1>6

\* A bar in its place in bs is found where it was, and the others with it.
PutsAt(bs, cs, w, b) ==
  /\ Regular(cs) /\ Len(cs) = Len(bs)
  /\ \A a : IsBar(cs, a) <=> IsBar(bs, a)
  /\ \A a : IsBar(bs, a) => IndexOf(cs, a) = IndexOf(bs, a)
  /\ cs[IndexOf(bs, w)] = b
  /\ \A i \in 1..Len(bs) : i # IndexOf(bs, w) => cs[i] = bs[i]
LEMMA PutFound ==
  ASSUME NEW bs, Regular(bs), NEW w, IsBar(bs, w), NEW b \in AppBar, b.win = w,
         NEW cs, cs = [bs EXCEPT ![IndexOf(bs, w)] = b]
  PROVE  PutsAt(bs, cs, w, b)
<1> DEFINE k == IndexOf(bs, w)
<1>1. k \in 1..Len(bs) /\ bs[k].win = w /\ cs = [bs EXCEPT ![k] = b]
  BY Found
<1> HIDE DEF k
<1>2. Regular(cs) /\ Len(cs) = Len(bs)
  <2>1. Regular([bs EXCEPT ![k] = b])
    BY <1>1, PutRegular
  <2>2. Len(cs) = Len(bs)
    BY <1>1, Put
  <2> QED
    BY <1>1, <2>1, <2>2
<1>3. cs[k] = b
  BY <1>1, Put
<1>4. \A i \in 1..Len(bs) : i # k => cs[i] = bs[i]
  BY <1>1, Put
<1>5. \A i \in 1..Len(bs) : cs[i].win = bs[i].win
  BY <1>1, <1>3, <1>4
<1>6. DOMAIN cs = 1..Len(bs) /\ DOMAIN bs = 1..Len(bs)
  BY <1>2, BarAt
<1>7. \A a : IsBar(cs, a) <=> IsBar(bs, a)
  BY <1>5, <1>6 DEF IsBar
<1>8. ASSUME NEW a, IsBar(bs, a) PROVE IndexOf(cs, a) = IndexOf(bs, a)
  <2>1. IndexOf(bs, a) \in 1..Len(bs) /\ bs[IndexOf(bs, a)].win = a
    BY <1>8, Found
  <2>2. IndexOf(bs, a) \in 1..Len(cs) /\ cs[IndexOf(bs, a)].win = a /\ IsBar(cs, a)
    BY <1>2, <1>5, <1>7, <1>8, <2>1
  <2> QED
    BY <1>2, <2>2, Found
<1> QED
  BY <1>2, <1>3, <1>4, <1>7, <1>8 DEF k, PutsAt

\* A bar that is added is found behind the others.
AddsTo(bs, cs, b) ==
  /\ \A a : IsBar(cs, a) <=> IsBar(bs, a) \/ a = b.win
  /\ \A a : IsBar(bs, a) => IndexOf(cs, a) = IndexOf(bs, a) /\ cs[IndexOf(cs, a)] = bs[IndexOf(bs, a)]
  /\ cs[IndexOf(cs, b.win)] = b
LEMMA AddedFound ==
  ASSUME NEW bs, Regular(bs), NEW b \in AppBar, ~IsBar(bs, b.win), NEW cs, cs = Append(bs, b)
  PROVE  AddsTo(bs, cs, b)
<1>1. /\ Regular(cs) /\ Len(cs) = Len(bs) + 1 /\ cs[Len(bs) + 1] = b
  BY Added
<1>2. \A i \in 1..Len(bs) : cs[i] = bs[i]
  BY Added
<1>3. DOMAIN cs = 1..Len(cs) /\ DOMAIN bs = 1..Len(bs) /\ Len(bs) \in Nat
  BY <1>1, BarAt
<1>4. 1..Len(cs) = 1..Len(bs) \cup {Len(bs) + 1}
  BY <1>1, <1>3
<1>5. \A a : IsBar(cs, a) <=> IsBar(bs, a) \/ a = b.win
  BY <1>1, <1>2, <1>3, <1>4 DEF IsBar
<1>6. ASSUME NEW a, IsBar(bs, a) PROVE IndexOf(cs, a) = IndexOf(bs, a) /\ cs[IndexOf(cs, a)] = bs[IndexOf(bs, a)]
  <2>1. IndexOf(bs, a) \in 1..Len(bs) /\ bs[IndexOf(bs, a)].win = a
    BY <1>6, Found
  <2>2. IndexOf(bs, a) \in 1..Len(cs) /\ cs[IndexOf(bs, a)].win = a /\ IsBar(cs, a)
    BY <1>2, <1>4, <1>5, <1>6, <2>1
  <2>3. IndexOf(bs, a) = IndexOf(cs, a)
    BY <1>1, <2>2, Found
  <2> QED
    BY <1>2, <2>1, <2>3
<1>7. cs[IndexOf(cs, b.win)] = b
  <2>1. IsBar(cs, b.win) /\ Len(bs) + 1 \in 1..Len(cs)
    BY <1>4, <1>5
  <2> QED
    BY <1>1, <2>1, Found
<1> QED
  BY <1>5, <1>6, <1>7 DEF AddsTo

LEMMA LiveSettled ==
  ASSUME BarsInv, bars' = LiveBars, alive' = alive
  PROVE  Settled(Now, Now', {})
<1> DEFINE L == LiveBars
<1>1. /\ \A w : IsBar(L, w) <=> IsBar(bars, w) /\ w \in alive
      /\ \A w : IsBar(L, w) => L[IndexOf(L, w)] = bars[IndexOf(bars, w)]
      /\ \A a, b : IsBar(L, a) /\ IsBar(L, b)
                     => (IndexOf(L, a) < IndexOf(L, b) <=> IndexOf(bars, a) < IndexOf(bars, b))
  BY LiveKeeps
<1> HIDE DEF L
<1>2. /\ Now.bars = bars /\ Now'.bars = L /\ Now'.live = Now.live /\ Now.live = alive
  BY NowIs DEF L
<1>3. \A w : w \in Now.live \ {} /\ IsBar(bars, w) => IsBar(L, w) /\ At(Now', w) = At(Now, w)
  BY <1>1, <1>2 DEF At
<1>4. \A w : w \in Now.live \ {} /\ IsBar(bars, w) =>
         /\ IsBar(L, w)
         /\ At(Now', w).overlap = At(Now, w).overlap /\ At(Now', w).clean = At(Now, w).clean
         /\ At(Now, w).clean => SamePlace(Now, Now', w)
  BY <1>3 DEF SamePlace
<1> QED
  BY <1>1, <1>2, <1>4, KeepPlaces

\* A bar without a place is added.
LEMMA AddSettled ==
  ASSUME BarsInv, NEW b \in AppBar, ~b.clean, ~IsBar(LiveBars, b.win), b.win \in alive,
         bars' = Append(LiveBars, b), alive' = alive
  PROVE  Settled(Now, Now', {})
<1> DEFINE L == LiveBars
           C == Append(L, b)
<1>1. /\ Regular(L)
      /\ \A w : IsBar(L, w) <=> IsBar(bars, w) /\ w \in alive
      /\ \A w : IsBar(L, w) => L[IndexOf(L, w)] = bars[IndexOf(bars, w)]
      /\ \A a, c : IsBar(L, a) /\ IsBar(L, c)
                     => (IndexOf(L, a) < IndexOf(L, c) <=> IndexOf(bars, a) < IndexOf(bars, c))
  BY LiveKeeps
<1>2. /\ Now.bars = bars /\ Now'.bars = C /\ Now'.live = Now.live /\ Now.live = alive
  BY NowIs
<1>3. ~IsBar(L, b.win) /\ C = Append(L, b)
  OBVIOUS
<1> HIDE DEF L, C
<1>4. /\ \A a : IsBar(C, a) <=> IsBar(L, a) \/ a = b.win
      /\ \A a : IsBar(L, a) => IndexOf(C, a) = IndexOf(L, a) /\ C[IndexOf(C, a)] = L[IndexOf(L, a)]
      /\ C[IndexOf(C, b.win)] = b
  <2>1. AddsTo(L, C, b)
    BY <1>1, <1>3, AddedFound
  <2> QED
    BY <2>1 DEF AddsTo
<1>5. \A w : w \in Now.live \ {} /\ IsBar(bars, w) =>
         /\ IsBar(C, w)
         /\ At(Now', w).overlap = At(Now, w).overlap /\ At(Now', w).clean = At(Now, w).clean
         /\ At(Now, w).clean => SamePlace(Now, Now', w)
  BY <1>1, <1>2, <1>4 DEF SamePlace, At
<1>6. \A w : w \in Now.live \ {} /\ IsBar(C, w) /\ ~IsBar(bars, w) => ~At(Now', w).clean
  BY <1>1, <1>2, <1>4 DEF At
<1>7. \A w : w \notin Now.live /\ IsBar(C, w) => IsBar(bars, w)
  BY <1>1, <1>2, <1>4
<1>8. ASSUME NEW a, NEW c, IsBar(bars, a), IsBar(bars, c), IsBar(C, a), IsBar(C, c)
      PROVE  IndexOf(C, a) < IndexOf(C, c) <=> IndexOf(bars, a) < IndexOf(bars, c)
  <2>1. IsBar(L, a) /\ IsBar(L, c)
    BY <1>1, <1>3, <1>4, <1>8
  <2>2. IndexOf(C, a) = IndexOf(L, a) /\ IndexOf(C, c) = IndexOf(L, c)
    BY <1>4, <2>1
  <2> QED
    BY <1>1, <2>1, <2>2
<1> QED
  BY <1>2, <1>5, <1>6, <1>7, <1>8, KeepPlaces

\* The bar of w is replaced.
LEMMA PutSettled ==
  ASSUME BarsInv, NEW w \in alive, IsBar(bars, w), NEW b \in AppBar, b.win = w,
         bars' = [LiveBars EXCEPT ![IndexOf(LiveBars, w)] = b], alive' = alive,
         NEW D, \/ D = {w}
                \/ /\ D = {} /\ b.overlap = Bar(w).overlap /\ b.clean = Bar(w).clean
                   /\ b.clean => b.edge = Bar(w).edge /\ b.mon = Bar(w).mon /\ b.rect = Bar(w).rect
  PROVE  Settled(Now, Now', D)
<1> DEFINE L == LiveBars
           k == IndexOf(L, w)
           C == [L EXCEPT ![k] = b]
<1>1. /\ Regular(L)
      /\ \A a : IsBar(L, a) <=> IsBar(bars, a) /\ a \in alive
      /\ \A a : IsBar(L, a) => L[IndexOf(L, a)] = bars[IndexOf(bars, a)]
      /\ \A a, c : IsBar(L, a) /\ IsBar(L, c)
                     => (IndexOf(L, a) < IndexOf(L, c) <=> IndexOf(bars, a) < IndexOf(bars, c))
  BY LiveKeeps
<1>2. /\ Now.bars = bars /\ Now'.bars = C /\ Now'.live = Now.live /\ Now.live = alive
  BY NowIs
<1>3. C = [L EXCEPT ![IndexOf(L, w)] = b] /\ k = IndexOf(L, w)
  OBVIOUS
<1>4. Bar(w) = At(Now, w)
  BY <1>2 DEF Bar, At
<1> HIDE DEF L, C, k
<1>5. IsBar(L, w)
  BY <1>1
<1>6. /\ \A a : IsBar(C, a) <=> IsBar(L, a)
      /\ \A a : IsBar(L, a) => IndexOf(C, a) = IndexOf(L, a)
      /\ C[k] = b
      /\ \A i \in 1..Len(L) : i # k => C[i] = L[i]
  <2>1. PutsAt(L, C, w, b)
    BY <1>1, <1>3, <1>5, PutFound
  <2> QED
    BY <1>3, <2>1 DEF PutsAt
<1>7. \A a : IsBar(L, a) => IndexOf(L, a) \in 1..Len(L) /\ L[IndexOf(L, a)].win = a
  BY <1>1, Found
<1>8. ASSUME NEW a, IsBar(L, a), a # w PROVE C[IndexOf(C, a)] = bars[IndexOf(bars, a)]
  <2>1. IndexOf(L, a) # k
    BY <1>3, <1>5, <1>7, <1>8
  <2> QED
    BY <1>1, <1>6, <1>7, <1>8, <2>1
<1>9. C[IndexOf(C, w)] = b
  BY <1>3, <1>5, <1>6
<1>10. ASSUME NEW a, a \in Now.live \ D, IsBar(bars, a)
       PROVE  /\ IsBar(C, a)
              /\ At(Now', a).overlap = At(Now, a).overlap /\ At(Now', a).clean = At(Now, a).clean
              /\ At(Now, a).clean => SamePlace(Now, Now', a)
  <2>1. IsBar(L, a) /\ IsBar(C, a)
    BY <1>1, <1>2, <1>6, <1>10
  <2>2. CASE a # w
    <3>1. At(Now', a) = At(Now, a)
      BY <1>2, <1>8, <2>1, <2>2 DEF At
    <3> QED
      BY <2>1, <3>1 DEF SamePlace
  <2>3. CASE a = w
    <3>1. At(Now', a) = b /\ D = {}
      BY <1>2, <1>9, <1>10, <2>3 DEF At
    <3> QED
      BY <1>4, <2>1, <2>3, <3>1 DEF SamePlace
  <2> QED
    BY <2>2, <2>3
<1>11. \A a : a \in Now.live \ D /\ IsBar(C, a) /\ ~IsBar(bars, a) => ~At(Now', a).clean
  BY <1>1, <1>2, <1>6
<1>12. \A a : a \notin Now.live /\ IsBar(C, a) => IsBar(bars, a)
  BY <1>1, <1>2, <1>6
<1>13. ASSUME NEW a, NEW c, IsBar(bars, a), IsBar(bars, c), IsBar(C, a), IsBar(C, c)
       PROVE  IndexOf(C, a) < IndexOf(C, c) <=> IndexOf(bars, a) < IndexOf(bars, c)
  <2>1. IsBar(L, a) /\ IsBar(L, c)
    BY <1>6, <1>13
  <2>2. IndexOf(C, a) = IndexOf(L, a) /\ IndexOf(C, c) = IndexOf(L, c)
    BY <1>6, <2>1
  <2> QED
    BY <1>1, <2>1, <2>2
<1> QED
  BY <1>2, <1>10, <1>11, <1>12, <1>13, KeepPlaces

\* Bars are deleted, those of D among the windows that exist.
LEMMA DeleteSettled ==
  ASSUME BarsInv, NEW ws, NEW D, ws \cap alive \subseteq D, alive' = alive,
         bars' = Delete(bars, ws) \/ bars' = Delete(LiveBars, ws)
  PROVE  Settled(Now, Now', D) /\ \A d \in ws : ~Stood(Now', d)
<1> DEFINE L == LiveBars
<1>1. /\ Regular(L)
      /\ \A a : IsBar(L, a) <=> IsBar(bars, a) /\ a \in alive
      /\ \A a : IsBar(L, a) => L[IndexOf(L, a)] = bars[IndexOf(bars, a)]
      /\ \A a, c : IsBar(L, a) /\ IsBar(L, c)
                     => (IndexOf(L, a) < IndexOf(L, c) <=> IndexOf(bars, a) < IndexOf(bars, c))
  BY LiveKeeps
<1>2. /\ Now.bars = bars /\ Now.live = alive /\ Now'.bars = bars' /\ Now'.live = alive'
  BY NowIs
<1> HIDE DEF L
<1>3. PICK K : Regular(K) /\ bars' = Delete(K, ws) /\ K \in {bars, L}
  BY <1>1 DEF BarsInv, L
<1>4. /\ \A a : a \in alive /\ IsBar(bars, a) => IsBar(K, a)
      /\ \A a : IsBar(K, a) => IsBar(bars, a) /\ K[IndexOf(K, a)] = bars[IndexOf(bars, a)]
      /\ \A a, c : IsBar(K, a) /\ IsBar(K, c)
                     => (IndexOf(K, a) < IndexOf(K, c) <=> IndexOf(bars, a) < IndexOf(bars, c))
  BY <1>1, <1>3
<1> DEFINE C == Delete(K, ws)
<1>5. C = Delete(K, ws) /\ Now'.bars = C
  BY <1>2, <1>3
<1> HIDE DEF C
<1>6. \A a : IsBar(C, a) => IsBar(K, a) /\ a \notin ws
  BY <1>3, <1>5, Kept
<1>7. \A a : IsBar(K, a) /\ a \notin ws => IsBar(C, a) /\ C[IndexOf(C, a)] = K[IndexOf(K, a)]
  BY <1>3, <1>5, Kept
<1>8. \A a, c : IsBar(C, a) /\ IsBar(C, c)
                 => (IndexOf(C, a) < IndexOf(C, c) <=> IndexOf(K, a) < IndexOf(K, c))
  BY <1>3, <1>5, KeptOrder
<1>9. ASSUME NEW a, a \in Now.live \ D, IsBar(bars, a)
      PROVE  /\ IsBar(C, a)
             /\ At(Now', a).overlap = At(Now, a).overlap /\ At(Now', a).clean = At(Now, a).clean
             /\ At(Now, a).clean => SamePlace(Now, Now', a)
  <2>1. IsBar(K, a) /\ a \notin ws
    BY <1>2, <1>4, <1>9
  <2>2. IsBar(C, a) /\ At(Now', a) = At(Now, a)
    BY <1>2, <1>4, <1>5, <1>7, <2>1 DEF At
  <2> QED
    BY <2>2 DEF SamePlace
<1>10. \A a : a \in Now.live \ D /\ IsBar(C, a) /\ ~IsBar(bars, a) => ~At(Now', a).clean
  BY <1>4, <1>6
<1>11. \A a : a \notin Now.live /\ IsBar(C, a) => IsBar(bars, a)
  BY <1>4, <1>6
<1>12. \A a, c : IsBar(bars, a) /\ IsBar(bars, c) /\ IsBar(C, a) /\ IsBar(C, c)
                  => (IndexOf(C, a) < IndexOf(C, c) <=> IndexOf(bars, a) < IndexOf(bars, c))
  BY <1>4, <1>6, <1>8
<1>13. Settled(Now, Now', D)
  BY <1>2, <1>5, <1>9, <1>10, <1>11, <1>12, KeepPlaces
<1>14. \A d \in ws : ~Stood(Now', d)
  BY <1>5, <1>6 DEF Stood
<1> QED
  BY <1>13, <1>14

-----------------------------------------------------------------------------
(* Each action.                                                             *)

LEMMA BasesSame ==
  ASSUME def' = def
  PROVE  Bases' = Bases
BY DEF Bases, Base

\* A step that leaves the queue as it is, and deletes only dead bars.
LEMMA QuietHeard ==
  ASSUME BarsInv, MessagesInv, Dangle(Dead), UNCHANGED <<posted, told>>, NEW D
  PROVE  Heard(D)
<1>1. \A w \in alive : w \notin Dead
  BY DEF Dead
<1>2. \A w \in alive : GoesOn(loop, loop', w)
  BY <1>1, DangleHeard DEF MessagesInv
<1> QED
  BY <1>2 DEF Heard

LEMMA CreatePlaces ==
  ASSUME BarsInv, MessagesInv, NEW w \in Windows, barCreate(w)
  PROVE  Proper({})
<1>1. /\ w \in alive /\ ~IsBar(LiveBars, w) /\ bars' = Append(LiveBars, NewBar(w)) /\ Dangle(Dead)
      /\ UNCHANGED <<posted, told, alive, astray, def>>
  BY DEF barCreate, Callers, ghosts, sysVars, areaVars
<1>2. Settled(Now, Now', {})
  <2> DEFINE b == NewBar(w)
  <2>1. b \in AppBar /\ b.win = w /\ ~b.clean /\ bars' = Append(LiveBars, b)
    BY <1>1, NewBarIs
  <2> HIDE DEF b
  <2> QED
    BY <1>1, <2>1, AddSettled
<1>3. Heard({})
  BY <1>1, QuietHeard
<1>4. Bases' = Bases
  BY <1>1, BasesSame
<1> QED
  BY <1>1, <1>2, <1>3, <1>4, SettledStep

\* The bars of a monitor are those that stand there.
LEMMA AllOf ==
  ASSUME BarsInv, NEW y, Stood(Now, y), NEW m, At(Now, y).mon = m
  PROVE  y \in BarsOf(m)
<1> DEFINE i == IndexOf(bars, y)
<1>1. i \in DOMAIN bars /\ bars[i].win = y /\ bars[i] = At(Now, y)
  BY Found, BarAt, NowIs DEF Stood, At, BarsInv
<1>2. Standing(i, m)
  BY <1>1, NowIs DEF Standing, Stood
<1> HIDE DEF i
<1> QED
  BY <1>1, <1>2 DEF BarsOf

\* A bar that is made an autohide bar at the edge e keeps its place.
Hides(w, e) ==
  /\ w \in alive /\ IsBar(bars, w) /\ IsBar(bars', w)
  /\ At(Now', w).mon = Bar(w).mon /\ At(Now', w).rect = Bar(w).rect
  /\ Stood(Now', w) <=> Stood(Now, w)
  /\ At(Now', w).edge = e
LEMMA HidesIs ==
  ASSUME BarsInv, NEW w \in Windows, w \in alive, alive' = alive, NEW e \in Edges, IsBar(bars, w),
         bars' = HideBar(w, e)
  PROVE  /\ Hides(w, e) /\ Settled(Now, Now', {w})
         /\ Bar(w).clean /\ Bar(w).edge = e => Settled(Now, Now', {})
<1> DEFINE L == LiveBars
           k == IndexOf(L, w)
           b == Bar(w)
           a == [b EXCEPT !.autohide = TRUE]
           c == [a EXCEPT !.edge = e]
<1>1. IsBar(L, w) /\ L[k] = b /\ Regular(L)
  BY LiveIs
<1>2. bars' = [L EXCEPT ![k].autohide = TRUE, ![k].edge = e]
  BY <1>1 DEF HideBar
<1>3. k \in DOMAIN L
  BY <1>1, BarAt, Found
<1>4. b \in AppBar /\ b.win = w
  BY BarIs
<1>5. [L EXCEPT ![k].autohide = TRUE, ![k].edge = e] = [L EXCEPT ![k] = c]
  <2> HIDE DEF L, k, b
  <2> QED
    BY <1>1, <1>3
<1>6. bars' = [LiveBars EXCEPT ![IndexOf(LiveBars, w)] = c]
  BY <1>2, <1>5
<1> HIDE DEF b
<1>7. /\ c \in AppBar /\ c.win = w /\ c.clean = b.clean /\ c.mon = b.mon /\ c.rect = b.rect
      /\ c.overlap = b.overlap /\ c.edge = e
  <2>1. e # None
    BY BarsAssumption
  <2> QED
    BY <1>4, <2>1 DEF AppBar
<1> HIDE DEF c
<1>8. Settled(Now, Now', {w})
  BY <1>6, <1>7, PutSettled
<1>9. ASSUME Bar(w).clean, Bar(w).edge = e PROVE Settled(Now, Now', {})
  <2>1. /\ c.overlap = Bar(w).overlap /\ c.clean = Bar(w).clean
        /\ c.clean => c.edge = Bar(w).edge /\ c.mon = Bar(w).mon /\ c.rect = Bar(w).rect
    BY <1>7, <1>9 DEF b
  <2> QED
    BY <1>6, <1>7, <2>1, PutSettled
<1>10. IsBar(bars', w) /\ At(Now', w) = c
  <2> DEFINE C == [L EXCEPT ![IndexOf(L, w)] = c]
  <2>1. bars' = C /\ C = [L EXCEPT ![IndexOf(L, w)] = c]
    BY <1>6
  <2> HIDE DEF L, C
  <2>2. PutsAt(L, C, w, c)
    BY <1>1, <1>7, <2>1, PutFound
  <2>3. IsBar(C, w) /\ C[IndexOf(C, w)] = c
    BY <1>1, <2>2 DEF PutsAt
  <2> QED
    BY <2>1, <2>3, NowIs DEF At
<1>11. At(Now, w) = b
  BY NowIs DEF At, Bar, b
<1>12. Stood(Now', w) <=> Stood(Now, w)
  BY <1>7, <1>10, <1>11, NowIs DEF Stood, TakesRoom
<1> QED
  BY <1>7, <1>8, <1>9, <1>10, <1>12 DEF Hides, b

\* Where it takes room it may be wrong there: all the bars of its monitor are forsaken.
LEMMA TurnPlaces ==
  ASSUME BarsInv, NEW w \in Windows, NEW e \in Edges, Hides(w, e), Settled(Now, Now', {w}),
         Heard({w}), GoesOn(loop, loop', w), alive' = alive, def' = def, Stood(Now, w),
         astray \cup BarsOf(Bar(w).mon) \subseteq astray'
  PROVE  Proper({w})
<1>1. At(Now, w) = Bar(w) /\ Stood(Now', w) /\ At(Now', w).mon = Bar(w).mon
  BY NowIs DEF At, Bar, Hides
<1>2. ASSUME NEW y, Stood(Now, y), At(Now, y).mon = Bar(w).mon PROVE y \in astray'
  BY <1>2, AllOf
<1>3. ASSUME NEW y \in Windows, Stood(Now, y), At(Now, y).mon = Bar(w).mon PROVE y \in Loose'
  BY <1>2, <1>3 DEF Loose
<1>4. w \in Loose'
  BY <1>1, <1>3
<1>5. StaysPut(Now, Now', {w})
  BY DEF Settled, StaysPut, Stood
<1>6. Vacates(Now, Now', Loose, Loose')
  <2> SUFFICES ASSUME NEW x \in Windows, NEW y \in Windows,
                      Stood(Now, x), ~Remains(Now, Now', x), Remains(Now, Now', y),
                      At(Now, y).mon = At(Now, x).mon
               PROVE  y \in Loose'
    BY DEF Vacates
  <2>1. x = w
    BY DEF Settled
  <2> QED
    BY <1>1, <1>3, <2>1 DEF Remains
<1>7. Occupies(Now, Now', Loose', posted', loop', {w})
  <2> SUFFICES ASSUME NEW y \in Windows, Remains(Now, Now', y), At(Now', y).mon = At(Now', w).mon
               PROVE  y \in Loose'
    BY DEF Occupies
  <2>1. At(Now, y).mon = Bar(w).mon /\ Stood(Now, y)
    BY <1>1 DEF Remains, SamePlace
  <2> QED
    BY <1>3, <2>1
<1>8. Fits(Now', Bases', Loose', {w})
  BY <1>4 DEF Fits
<1>9. StaysLoose(Now, Now', Loose, Loose', {w})
  <2> SUFFICES ASSUME NEW y \in Windows, y # w, Remains(Now, Now', y), y \in Loose PROVE y \in Loose'
    BY DEF StaysLoose
  <2>1. ASSUME NEW n \in Notices, Queued(posted, n), Surely(Now, n, y), n.skip \in {w}, Stood(Now, n.skip)
        PROVE  y \in Loose'
    <3>1. n.skip = w /\ n.skip \in Now.live
      BY <2>1 DEF Stood
    <3>2. At(Now, w).mon = n.mon /\ n.mon = At(Now, y).mon
      BY <2>1, <3>1 DEF Surely
    <3>3. Stood(Now, y)
      BY DEF Remains
    <3> QED
      BY <1>1, <1>3, <3>2, <3>3
  <2>2. alive' \subseteq alive /\ y \notin {w} /\ (y \in astray => y \in astray')
    OBVIOUS
  <2> QED
    BY <2>1, <2>2, LooseStays
<1>10. StaysOwed(Now, Now', posted, loop, posted', loop', Loose', {w})
  <2>1. \A y : Remains(Now, Now', y) => GoesOn(loop, loop', y)
    BY DEF Remains, Stood, Now, Heard
  <2>2. \A n : Queued(posted, n) => Queued(posted', n)
    BY DEF Heard
  <2> QED
    BY <2>1, <2>2, OwedStays DEF StaysOwed
<1>11. StaysBased(Now, Now', Bases, Bases', Loose', {w})
  BY BasesSame DEF StaysBased
<1> QED
  BY <1>5, <1>6, <1>7, <1>8, <1>9, <1>10, <1>11 DEF Proper

LEMMA HidePlaces ==
  ASSUME BarsInv, MessagesInv, NEW w \in Windows, NEW e \in Edges, NEW m \in Monitors, barSetAutoHide(w, e, m)
  PROVE  Proper({}) \/ Proper({w})
<1>1. /\ w \in alive /\ Dangle(Dead) /\ (bars' = LiveBars \/ bars' = HideBar(w, e))
      /\ UNCHANGED <<posted, told, alive, def>> /\ astray \subseteq astray'
  BY DEF barSetAutoHide, Callers, ghosts, sysVars, areaVars
<1>2. Heard({}) /\ Heard({w})
  BY <1>1, QuietHeard
<1>3. Bases' = Bases
  BY <1>1, BasesSame
<1>4. ASSUME Settled(Now, Now', {}) PROVE Proper({})
  BY <1>1, <1>2, <1>3, <1>4, SettledStep
<1>5. CASE bars' = LiveBars
  BY <1>1, <1>4, <1>5, LiveSettled
<1>6. CASE bars' = HideBar(w, e) /\ ~IsBar(bars, w)
  <2> DEFINE b == AutoHideBar(w, e)
  <2>1. ~IsBar(LiveBars, w)
    BY <1>1, <1>6, LiveIs
  <2>2. bars' = Append(LiveBars, b)
    BY <1>6, <2>1 DEF HideBar, AutoHideBar
  <2>3. b \in AppBar /\ b.win = w /\ ~b.clean
    BY AutoHideBarIs
  <2> HIDE DEF b
  <2>4. Settled(Now, Now', {})
    BY <1>1, <2>1, <2>2, <2>3, AddSettled
  <2> QED
    BY <1>4, <2>4
<1>7. CASE bars' = HideBar(w, e) /\ bars' # LiveBars /\ IsBar(bars, w)
  <2>1. /\ Hides(w, e) /\ Settled(Now, Now', {w})
        /\ Bar(w).clean /\ Bar(w).edge = e => Settled(Now, Now', {})
    BY <1>1, <1>7, HidesIs
  <2>2. At(Now, w) = Bar(w)
    BY NowIs DEF At, Bar
  <2>3. CASE ~Stood(Now, w)
    <3>1. ~Stood(Now', w)
      BY <2>1, <2>3 DEF Hides
    <3>2. alive' \subseteq alive
      BY <1>1
    <3>3. Proper({})
      BY <1>1, <1>2, <1>3, <2>1, <2>3, <3>1, <3>2, SettledStep
    <3> QED
      BY <3>3
  <2>4. CASE Stood(Now, w) /\ Bar(w).edge = e
    BY <1>4, <2>1, <2>2, <2>4 DEF Stood, TakesRoom
  <2>5. CASE Stood(Now, w) /\ Bar(w).edge # e
    <3>1. Turns(Bar(w), e)
      BY <2>2, <2>5 DEF Turns, Stood
    <3>2. BarsOf(Bar(w).mon) \subseteq astray'
      BY <1>7, <3>1 DEF barSetAutoHide
    <3>3. w \notin Dead
      BY <1>1 DEF Dead
    <3>4. GoesOn(loop, loop', w)
      BY <1>1, <3>3, DangleHeard DEF MessagesInv
    <3>5. Proper({w})
      BY <1>1, <1>2, <2>1, <2>5, <3>2, <3>4, TurnPlaces
    <3> QED
      BY <3>5
  <2> QED
    BY <2>3, <2>4, <2>5
<1> QED
  BY <1>1, <1>5, <1>6, <1>7

\* A notification about no window has all bars of its monitor told.
LEMMA AllSurely ==
  ASSUME BarsInv', NEW n \in Notices, n.skip = None, Queued(posted', n),
         NEW y \in Windows, At(Now', y).mon = n.mon
  PROVE  y \in Loose'
<1>1. None \notin alive' /\ ~IsBar(bars', None)
  BY BarAt, BarsAssumption DEF BarsInv, AnswersInv, IsBar, AppBar
<1>2. Surely(Now', n, y)
  BY <1>1, NowIs DEF Surely
<1> QED
  BY <1>2 DEF Loose

LEMMA DestroyPlaces ==
  ASSUME BarsInv, BarsInv', MessagesInv, NEW w \in Windows, barDestroy(w)
  PROVE  Proper({})
<1> DEFINE ws == Dead \cup {w}
<1>1. /\ w \in alive /\ IsBar(bars, w) /\ bars' = Delete(bars, ws) /\ Dangle(ws) /\ Notify(None, Bar(w).mon)
      /\ told' = told \ {w} /\ UNCHANGED <<alive, astray, def>>
  BY DEF barDestroy, ghosts, sysVars, areaVars
<1>2. ws \cap alive \subseteq {w} /\ w \in ws
  BY DEF Dead
<1>3. \A a \in alive : a \notin {w} => a \notin ws
  BY DEF Dead
<1> HIDE DEF ws
<1>4. Settled(Now, Now', {w}) /\ ~Stood(Now', w)
  BY <1>1, <1>2, DeleteSettled
<1>5. /\ \A n : Queued(posted, n) => Queued(posted', n)
      /\ \E n \in Notices : Queued(posted', n) /\ n.skip = None /\ n.mon = Bar(w).mon
  <2>1. Bar(w) \in AppBar
    BY <1>1, BarIs
  <2>2. None \in Windows \cup {None} /\ Bar(w).mon \in Monitors \cup {None}
    BY <2>1 DEF AppBar
  <2> QED
    BY <1>1, <2>2, NotifyHeard DEF MessagesInv
<1>6. Heard({w})
  <2>1. \A a \in alive : a \notin {w} => GoesOn(loop, loop', a)
    BY <1>1, <1>3, DangleHeard DEF MessagesInv
  <2> QED
    BY <1>1, <1>5, <2>1 DEF Heard
<1>7. ASSUME NEW y \in Windows, Remains(Now, Now', y), At(Now, y).mon = At(Now, w).mon
      PROVE  y \in Loose'
  <2>1. At(Now', y).mon = Bar(w).mon
    BY <1>7, NowIs DEF Remains, SamePlace, At, Bar
  <2> QED
    BY <1>5, <2>1, AllSurely
<1>8. Bases' = Bases
  BY <1>1, BasesSame
<1> QED
  BY <1>1, <1>4, <1>6, <1>7, <1>8, SettledStep

LEMMA ClearPlaces ==
  ASSUME BarsInv, BarsInv', MessagesInv, NEW w \in Windows, NEW e \in Edges, NEW m \in Monitors,
         barClearAutoHide(w, e, m)
  PROVE  Proper({})
<1> DEFINE L == LiveBars
           k == IndexOf(L, w)
<1>1. /\ w \in alive /\ IsBar(bars, w) /\ k \in DOMAIN L
      /\ UNCHANGED <<alive, astray, def>>
  BY DEF barClearAutoHide, AutoHideBars, areaVars, ghosts
<1>2. \/ /\ Bar(w).overlap /\ bars' = Delete(L, {w}) /\ Dangle(Dead \cup {w})
         /\ Notify(None, Bar(w).mon) /\ told' = told \ {w}
      \/ ~Bar(w).overlap /\ bars' = [L EXCEPT ![k].autohide = FALSE] /\ Dangle(Dead) /\ UNCHANGED <<posted, told>>
  BY DEF barClearAutoHide
<1>3. Bases' = Bases
  BY <1>1, BasesSame
<1>4. /\ Regular(L) /\ IsBar(L, w) /\ L[k] = Bar(w)
  BY <1>1, LiveIs
<1>5. Bar(w) \in AppBar /\ Bar(w).win = w
  BY <1>1, BarIs
<1>6. CASE Bar(w).overlap /\ bars' = Delete(L, {w}) /\ Dangle(Dead \cup {w})
           /\ Notify(None, Bar(w).mon) /\ told' = told \ {w}
  <2>1. Settled(Now, Now', {w}) /\ ~Stood(Now', w)
    <3>1. {w} \cap alive \subseteq {w} /\ w \in {w}
      OBVIOUS
    <3> QED
      BY <1>1, <1>6, <3>1, DeleteSettled
  <2>2. \A n : Queued(posted, n) => Queued(posted', n)
    <3>1. None \in Windows \cup {None} /\ Bar(w).mon \in Monitors \cup {None}
      BY <1>5 DEF AppBar
    <3> QED
      BY <1>6, <3>1, NotifyHeard DEF MessagesInv
  <2>3. \A a \in alive : a \notin {w} => GoesOn(loop, loop', a)
    <3>1. \A a \in alive : a \notin {w} => a \notin Dead \cup {w}
      BY DEF Dead
    <3> QED
      BY <1>6, <3>1, DangleHeard DEF MessagesInv
  <2>4. Heard({w})
    BY <1>6, <2>2, <2>3 DEF Heard
  <2>5. ~Stood(Now, w)
    BY <1>6 DEF Stood, Now, At, Bar, TakesRoom
  <2> QED
    BY <1>1, <1>3, <2>1, <2>4, <2>5, SettledStep
<1>7. CASE bars' = [L EXCEPT ![k].autohide = FALSE] /\ Dangle(Dead) /\ UNCHANGED <<posted, told>>
  <2> DEFINE b == Bar(w)
             c == [b EXCEPT !.autohide = FALSE]
  <2>1. [L EXCEPT ![k].autohide = FALSE] = [L EXCEPT ![k] = c]
    <3> HIDE DEF L, k, b
    <3> QED
      BY <1>1, <1>4 DEF b
  <2>2. bars' = [LiveBars EXCEPT ![IndexOf(LiveBars, w)] = c]
    BY <1>7, <2>1
  <2> HIDE DEF b
  <2>3. /\ c \in AppBar /\ c.win = w /\ c.clean = b.clean /\ c.mon = b.mon /\ c.rect = b.rect
        /\ c.overlap = b.overlap /\ c.edge = b.edge
    BY <1>5 DEF AppBar, b
  <2> HIDE DEF c
  <2>4. /\ c.overlap = Bar(w).overlap /\ c.clean = Bar(w).clean
        /\ c.clean => c.edge = Bar(w).edge /\ c.mon = Bar(w).mon /\ c.rect = Bar(w).rect
    BY <2>3 DEF b
  <2>5. Settled(Now, Now', {})
    BY <1>1, <2>2, <2>3, <2>4, PutSettled
  <2>6. Heard({})
    BY <1>7, QuietHeard
  <2> QED
    BY <1>1, <1>3, <2>5, <2>6, SettledStep
<1> QED
  BY <1>2, <1>6, <1>7

LEMMA ChangePlaces ==
  ASSUME BarsInv, BarsInv', MessagesInv, SettingChange
  PROVE  Proper({})
<1>1. bars' = LiveBars /\ Dangle(Dead) /\ Notify(None, Primary) /\ UNCHANGED <<alive, told, astray>>
  BY DEF SettingChange, ghosts, sysVars
<1>2. Settled(Now, Now', {})
  BY <1>1, LiveSettled
<1>3. /\ \A n : Queued(posted, n) => Queued(posted', n)
      /\ \E n \in Notices : Queued(posted', n) /\ n.skip = None /\ n.mon = Primary
  BY <1>1, NotifyHeard, BarsAssumption DEF MessagesInv
<1>4. Heard({})
  <2>1. \A a \in alive : a \notin Dead
    BY DEF Dead
  <2>2. \A a \in alive : GoesOn(loop, loop', a)
    BY <1>1, <2>1, DangleHeard DEF MessagesInv
  <2> QED
    BY <1>1, <1>3, <2>2 DEF Heard
<1>5. ASSUME NEW y \in Windows, Remains(Now, Now', y), Bases'[At(Now, y).mon] # Bases[At(Now, y).mon]
      PROVE  y \in Loose'
  <2>1. At(Now, y).mon \in Monitors /\ At(Now', y).mon = At(Now, y).mon
    <3>1. Regular(Now.bars) /\ Stood(Now, y)
      BY <1>5, NowIs DEF BarsInv, Remains
    <3> QED
      BY <1>5, <3>1, StoodIs DEF Remains, SamePlace
  <2>2. At(Now, y).mon = Primary
    BY <1>5, <2>1 DEF Bases, Base
  <2> QED
    BY <1>3, <2>1, <2>2, AllSurely
<1> QED
  BY <1>1, <1>2, <1>4, <1>5, SettledStep

LEMMA NewerIs ==
  ASSUME BarsInv, NEW w, NEW y, Stood(Now, w), Stood(Now, y), At(Now, y).mon = At(Now, w).mon,
         Older(Now, w, y)
  PROVE  y \in Newer(w)
<1> DEFINE i == IndexOf(bars, y)
<1>1. /\ i \in 1..Len(bars) /\ bars[i].win = y /\ bars[i] = At(Now, y) /\ Len(bars) \in Nat
      /\ IndexOf(bars, w) \in 1..Len(bars)
  BY Found, BarAt, NowIs DEF Stood, At, BarsInv
<1>2. IndexOf(bars, w) < i
  BY NowIs DEF Older
<1>3. Bar(w) = At(Now, w)
  BY NowIs DEF At, Bar
<1>4. Standing(i, Bar(w).mon)
  BY <1>1, <1>3, NowIs DEF Standing, Stood
<1> HIDE DEF i
<1>5. i \in IndexOf(bars, w) + 1 .. Len(bars)
  BY <1>1, <1>2
<1> QED
  BY <1>1, <1>4, <1>5 DEF Newer

LEMMA DiePlaces ==
  ASSUME BarsInv, BarsInv', MessagesInv, NEW w \in Windows, Die(w)
  PROVE  Proper({})
<1>1. /\ w \in alive /\ alive' = alive \ {w} /\ told' = told \ {w} /\ UNCHANGED <<bars, posted, loop, def>>
      /\ astray \subseteq astray'
      /\ IsBar(bars, w) /\ TakesRoom(Bar(w), Bar(w).mon) => Forsaken(w) \subseteq astray'
  BY DEF Die, ghosts, areaVars
<1>2. /\ Now.bars = bars /\ Now.live = alive /\ Now'.bars = bars /\ Now'.live = alive \ {w}
      /\ \A a : At(Now', a) = At(Now, a)
      /\ \A a, b : Older(Now', a, b) <=> Older(Now, a, b)
  BY <1>1, NowIs DEF At, Older
<1>3. Settled(Now, Now', {w}) /\ ~Stood(Now', w)
  BY <1>2 DEF Settled, Stood, Remains, SamePlace
<1>4. Heard({w})
  BY <1>1 DEF Heard, GoesOn
<1>5. ASSUME NEW y \in Windows, Stood(Now, w), Remains(Now, Now', y), At(Now, y).mon = At(Now, w).mon,
             Older(Now, w, y),
             \/ Disturbed(Now, Loose, At(Now, w).mon)
             \/ \E n \in Notices : Queued(posted, n) /\ n.skip = w /\ n.mon = At(Now, y).mon
      PROVE  y \in Loose'
  <2>1. Stood(Now, y)
    BY <1>5 DEF Remains
  <2>2. CASE Disturbed(Now, Loose, At(Now, w).mon)
    <3>1. At(Now, w) = Bar(w) /\ IsBar(bars, w) /\ TakesRoom(Bar(w), Bar(w).mon)
      BY <1>2, <1>5 DEF At, Bar, Stood
    <3>2. ~AtRest(Bar(w).mon)
      BY <2>2, <3>1, NothingOwed
    <3>3. y \in Forsaken(w)
      BY <1>5, <2>1, <3>2, NewerIs DEF Forsaken
    <3>4. y \in astray'
      BY <1>1, <3>1, <3>3
    <3> QED
      BY <3>4 DEF Loose
  <2>3. CASE \E n \in Notices : Queued(posted, n) /\ n.skip = w /\ n.mon = At(Now, y).mon
    <3>1. PICK n \in Notices : Queued(posted, n) /\ n.skip = w /\ n.mon = At(Now, y).mon
      BY <2>3
    <3>2. ~Older(Now, y, w)
      <4>1. IndexOf(bars, w) \in Nat /\ IndexOf(bars, y) \in Nat
        BY <1>2, <1>5, <2>1, StoodIs DEF BarsInv
      <4> QED
        BY <1>2, <1>5, <4>1 DEF Older
    <3>3. Surely(Now', n, y)
      BY <1>2, <3>1, <3>2 DEF Surely
    <3> QED
      BY <1>1, <3>1, <3>3 DEF Loose
  <2> QED
    BY <1>5, <2>2, <2>3
<1>6. Bases' = Bases
  BY <1>1, BasesSame
<1>7. alive' \subseteq alive
  BY <1>1
<1> QED
  BY <1>1, <1>3, <1>4, <1>5, <1>6, <1>7, SettledStep

\* A step that leaves the bars as they are.
LEMMA SameStep ==
  ASSUME UNCHANGED <<bars, alive, def>>,
         \A w \in Windows : Stood(Now, w) /\ w \in Loose => w \in Loose',
         \A t, w \in Windows :
            /\ Stood(Now, t) /\ Stood(Now, w) /\ At(Now, t).edge # At(Now, w).edge
            /\ Owed(Now, posted, loop, t, w)
            => w \in Loose' \/ Owed(Now, posted', loop', t, w)
  PROVE  Proper({})
<1>1. Now' = Now /\ Bases' = Bases
  BY BasesSame DEF Now
<1>2. \A w : Stood(Now, w) <=> Remains(Now, Now, w)
  BY DEF Remains, SamePlace
<1>3. StaysPut(Now, Now, {}) /\ Vacates(Now, Now, Loose, Loose')
  BY <1>2 DEF StaysPut, Vacates
<1>4. Occupies(Now, Now, Loose', posted', loop', {}) /\ Fits(Now, Bases, Loose', {})
  BY DEF Occupies, Fits
<1>5. StaysLoose(Now, Now, Loose, Loose', {})
  BY <1>2 DEF StaysLoose
<1>6. StaysOwed(Now, Now, posted, loop, posted', loop', Loose', {})
  BY <1>2 DEF StaysOwed
<1>7. StaysBased(Now, Now, Bases, Bases, Loose', {})
  BY DEF StaysBased
<1> QED
  BY <1>1, <1>3, <1>4, <1>5, <1>6, <1>7 DEF Proper

\* The copy has the windows of the bars, newest first.
Copies(td, bs) ==
  /\ Len(td) = Len(bs)
  /\ \A i \in 1..Len(bs) : (Len(bs) - i) + 1 \in 1..Len(bs) /\ td[i] = bs[(Len(bs) - i) + 1].win
LEMMA CopyIs ==
  ASSUME NEW bs, Regular(bs), NEW td, td = Reverse([i \in DOMAIN bs |-> bs[i].win])
  PROVE  Copies(td, bs)
<1> DEFINE ws == [i \in DOMAIN bs |-> bs[i].win]
<1>1. Len(bs) \in Nat /\ DOMAIN bs = 1..Len(bs) /\ \A i \in 1..Len(bs) : bs[i] \in AppBar
  BY BarAt
<1>2. ws \in [1..Len(bs) -> Windows] /\ \A i \in 1..Len(bs) : ws[i] = bs[i].win
  BY <1>1 DEF AppBar
<1>3. td = Reverse(ws)
  OBVIOUS
<1> HIDE DEF ws
<1>4. ws \in Seq(Windows) /\ Len(ws) = Len(bs)
  BY <1>1, <1>2, IsASeq, LenProperties
<1>5. td = [i \in 1..Len(ws) |-> ws[(Len(ws) - i) + 1]]
  BY <1>3 DEF Reverse
<1>6. td \in [1..Len(bs) -> Windows]
  BY <1>1, <1>2, <1>4, <1>5
<1>7. Len(td) = Len(bs)
  BY <1>1, <1>6, IsASeq, LenProperties
<1>8. ASSUME NEW i \in 1..Len(bs)
      PROVE  (Len(bs) - i) + 1 \in 1..Len(bs) /\ td[i] = bs[(Len(bs) - i) + 1].win
  <2>1. (Len(bs) - i) + 1 \in 1..Len(bs)
    BY <1>1
  <2>2. td[i] = ws[(Len(ws) - i) + 1]
    BY <1>4, <1>5
  <2> QED
    BY <1>2, <1>4, <2>1, <2>2
<1> QED
  BY <1>7, <1>8 DEF Copies

\* Where the handler comes to w, it has not come to an older bar.
LEMMA CopyComes ==
  ASSUME NEW bs, Regular(bs), NEW l, Copies(l.todo, bs), l.gone = {}, NEW w, IsBar(bs, w),
         NEW v, v.bars = bs, l.mon = At(v, w).mon
  PROVE  \E i \in 1..Len(l.todo) : /\ ComesTo(l, v, w, i)
                                   /\ Skips(l, i) => IsBar(bs, l.skip) /\ Older(v, w, l.skip)
<1> DEFINE n == Len(bs)
           k == IndexOf(bs, w)
           i == (n - k) + 1
<1>1. n \in Nat /\ DOMAIN bs = 1..n /\ k \in 1..n /\ bs[k].win = w
  BY BarAt, Found
<1>2. i \in 1..n /\ (n - i) + 1 = k
  BY <1>1
<1>3. Len(l.todo) = n /\ \A j \in 1..n : (n - j) + 1 \in 1..n /\ l.todo[j] = bs[(n - j) + 1].win
  BY DEF Copies
<1> HIDE DEF n, i
<1>4. ComesTo(l, v, w, i)
  <2>1. l.todo[i] = w
    BY <1>1, <1>2, <1>3
  <2> QED
    BY <2>1 DEF ComesTo
<1>5. ASSUME Skips(l, i) PROVE IsBar(bs, l.skip) /\ Older(v, w, l.skip)
  <2>1. PICK j \in 1..(i - 1) : l.todo[j] = l.skip
    BY <1>5 DEF Skips
  <2>2. j \in 1..n /\ (n - j) + 1 > k
    BY <1>1, <1>2, <2>1
  <2> DEFINE h == (n - j) + 1
  <2>3. h \in 1..n /\ bs[h].win = l.skip
    BY <1>3, <2>1, <2>2
  <2> HIDE DEF h
  <2>4. IsBar(bs, l.skip)
    BY <1>1, <2>3 DEF IsBar
  <2>5. IndexOf(bs, l.skip) = h
    BY <2>3, <2>4, Found DEF n
  <2> QED
    BY <2>2, <2>4, <2>5 DEF Older, h
<1> QED
  BY <1>2, <1>3, <1>4, <1>5

LEMMA TakenQueue ==
  ASSUME posted \in Seq(Notices), posted # <<>>, posted' = Tail(posted), NEW n, Queued(posted, n)
  PROVE  n = Head(posted) \/ Queued(posted', n)
<1>1. /\ Len(posted) \in Nat /\ Len(posted') = Len(posted) - 1 /\ Head(posted) = posted[1]
      /\ \A j \in 1..Len(posted') : posted'[j] = posted[j + 1]
  BY HeadTailProperties, LenProperties
<1>2. PICK i \in 1..Len(posted) : posted[i] = n
  BY DEF Queued
<1>3. CASE i = 1
  BY <1>1, <1>2, <1>3
<1>4. CASE i # 1
  <2>1. i - 1 \in 1..Len(posted') /\ posted'[i - 1] = posted[(i - 1) + 1] /\ (i - 1) + 1 = i
    BY <1>1, <1>4
  <2> QED
    BY <1>2, <2>1 DEF Queued
<1> QED
  BY <1>3, <1>4

LEMMA NotifyPlaces ==
  ASSUME BarsInv, MessagesInv, NotifyPosChanged
  PROVE  Proper({})
<1> DEFINE h == Head(posted)
           td == Reverse([i \in DOMAIN bars |-> bars[i].win])
<1>1. /\ ~loop.on /\ posted # <<>> /\ posted' = Tail(posted)
      /\ loop' = [NoLoop EXCEPT !.on = TRUE, !.skip = h.skip, !.mon = h.mon, !.todo = td]
      /\ UNCHANGED <<bars, alive, def, told, astray>>
  BY DEF NotifyPosChanged, areaVars, sysVars, ghosts
<1>2. Regular(bars) /\ Copies(td, bars)
  BY CopyIs DEF BarsInv
<1> HIDE DEF h, td
<1>3. /\ loop'.skip = h.skip /\ loop'.mon = h.mon /\ loop'.todo = td /\ loop'.gone = {} /\ loop'.p = None
  BY <1>1 DEF NoLoop
<1>4. loop = NoLoop /\ Len(loop.todo) = 0
  BY <1>1 DEF MessagesInv, Handlers, NoLoop
<1>5. \A n : Queued(posted, n) => n = h \/ Queued(posted', n)
  BY <1>1, TakenQueue DEF MessagesInv, h
<1>6. Now.bars = bars /\ Now.live = alive /\ Now' = Now
  BY <1>1 DEF Now
<1>7. ASSUME NEW w, Stood(Now, w), h.mon = At(Now, w).mon
      PROVE  \E i \in 1..Len(loop'.todo) :
                /\ ComesTo(loop', Now, w, i)
                /\ Skips(loop', i) => IsBar(bars, h.skip) /\ Older(Now, w, h.skip)
  <2>1. IsBar(bars, w)
    BY <1>6, <1>7 DEF Stood
  <2> DEFINE l == loop'
  <2>2. Copies(l.todo, bars) /\ l.gone = {} /\ l.mon = At(Now, w).mon /\ l.skip = h.skip
    BY <1>2, <1>3, <1>7
  <2> HIDE DEF l
  <2>3. \E i \in 1..Len(l.todo) : /\ ComesTo(l, Now, w, i)
                                  /\ Skips(l, i) => IsBar(bars, l.skip) /\ Older(Now, w, l.skip)
    BY <1>2, <1>6, <2>1, <2>2, CopyComes
  <2> QED
    BY <2>2, <2>3 DEF l
<1>8. ASSUME NEW w \in Windows, Stood(Now, w), w \in Loose PROVE w \in Loose'
  <2>1. CASE w \in told \cup astray
    BY <1>1, <2>1 DEF Loose
  <2>2. ~WillTell(loop, Now, w)
    BY <1>4 DEF WillTell
  <2>3. CASE \E n \in Notices : Queued(posted, n) /\ Surely(Now, n, w)
    <3>1. PICK n \in Notices : Queued(posted, n) /\ Surely(Now, n, w)
      BY <2>3
    <3>2. CASE Queued(posted', n)
      BY <1>6, <3>1, <3>2 DEF Loose
    <3>3. CASE n = h
      <4>1. h.mon = At(Now, w).mon
        BY <3>1, <3>3 DEF Surely
      <4>2. w # h.skip /\ ~(IsBar(bars, h.skip) /\ Older(Now, w, h.skip))
        <5>1. CASE h.skip \notin alive /\ ~(IsBar(bars, h.skip) /\ Older(Now, w, h.skip))
          BY <1>6, <1>8, <5>1 DEF Stood
        <5>2. CASE Stood(Now, h.skip) /\ Older(Now, h.skip, w)
          <6>1. IndexOf(bars, h.skip) \in Nat /\ IndexOf(bars, w) \in Nat
            BY <1>2, <1>6, <1>8, <5>2, StoodIs
          <6> QED
            BY <1>6, <5>2, <6>1 DEF Older
        <5> QED
          BY <1>6, <3>1, <3>3, <5>1, <5>2 DEF Surely
      <4>3. WillTell(loop', Now, w)
        BY <1>3, <1>7, <1>8, <4>1, <4>2 DEF WillTell
      <4> QED
        BY <1>6, <4>3 DEF Loose
    <3> QED
      BY <1>5, <3>1, <3>2, <3>3
  <2> QED
    BY <1>8, <2>1, <2>2, <2>3 DEF Loose
<1>9. ASSUME NEW t \in Windows, NEW w \in Windows, Stood(Now, w), Owed(Now, posted, loop, t, w)
      PROVE  Owed(Now, posted', loop', t, w)
  <2>1. PICK n \in Notices : Queued(posted, n) /\ n.skip = t /\ n.mon = At(Now, w).mon
    BY <1>4, <1>9 DEF Owed
  <2>2. CASE Queued(posted', n)
    BY <2>1, <2>2 DEF Owed
  <2>3. CASE n = h
    BY <1>3, <1>7, <1>9, <2>1, <2>3 DEF Owed
  <2> QED
    BY <1>5, <2>1, <2>2, <2>3
<1> QED
  BY <1>1, <1>8, <1>9, SameStep

\* What the handler compares edges with: nothing, or the bar of the notification.
HandlerInv == loop.p \in {None, loop.skip}

LEMMA MustTell ==
  ASSUME BarsInv, MessagesInv, NEW w, Stood(Now, w), NEW i \in 1..Len(loop.todo), ComesTo(loop, Now, w, i),
         w # loop.skip, P(i) \notin loop.gone, P(i) = None \/ Bar(P(i)).edge # Bar(w).edge
  PROVE  FALSE \notin Told(i)
<1>1. loop.todo[i] = w /\ w \notin loop.gone /\ w \in alive /\ Bar(w).mon = loop.mon
  BY NowIs DEF ComesTo, Stood, At, Bar
<1>2. {loop.todo[i], P(i)} \cap loop.gone = {}
  BY <1>1
<1>3. w # loop.skip /\ Bar(w).mon = loop.mon /\ (P(i) = None \/ Bar(P(i)).edge # Bar(w).edge)
  BY <1>1
<1>4. Told(i) = {/\ w # loop.skip /\ Bar(w).mon = loop.mon
                 /\ P(i) = None \/ Bar(P(i)).edge # Bar(w).edge}
  BY <1>1, <1>2 DEF Told
<1> QED
  BY <1>3, <1>4

\* The handler will not pass over a bar that it will tell, or owes a notification.
LEMMA NotPassed ==
  ASSUME BarsInv, MessagesInv, HandlerInv, NEW w, Stood(Now, w),
         NEW i \in 1..Len(loop.todo), ComesTo(loop, Now, w, i),
         \/ loop.p = None /\ w # loop.skip /\ ~Skips(loop, i)
         \/ /\ Stood(Now, loop.skip) /\ At(Now, loop.skip).edge # At(Now, w).edge
            /\ loop.skip \notin loop.gone
  PROVE  FALSE \notin Told(i)
<1>1. None \notin loop.gone
  BY BarsAssumption DEF MessagesInv, Handlers
<1>2. Bar(w) = At(Now, w) /\ Bar(loop.skip) = At(Now, loop.skip)
  BY NowIs DEF Bar, At
<1>3. CASE loop.p = None /\ w # loop.skip /\ ~Skips(loop, i)
  <2>1. P(i) = None
    BY <1>3 DEF P, Skips, Skipped
  <2> QED
    BY <1>1, <1>3, <2>1, MustTell
<1>4. CASE /\ Stood(Now, loop.skip) /\ At(Now, loop.skip).edge # At(Now, w).edge
           /\ loop.skip \notin loop.gone
  <2>1. P(i) = None \/ P(i) = loop.skip
    BY DEF P, HandlerInv
  <2>2. w # loop.skip
    BY <1>4
  <2>3. P(i) \notin loop.gone /\ (P(i) = None \/ Bar(P(i)).edge # Bar(w).edge)
    BY <1>1, <1>2, <1>4, <2>1
  <2> QED
    BY <2>2, <2>3, MustTell
<1> QED
  BY <1>3, <1>4

LEMMA SendPlaces ==
  ASSUME BarsInv, MessagesInv, HandlerInv, SendPosChanged
  PROVE  Proper({})
<1> DEFINE s == loop.todo
           td(j) == SubSeq(s, j + 1, Len(s))
<1>1. PICK j \in DOMAIN s :
         /\ NoneTold(1 .. j - 1) /\ TRUE \in Told(j)
         /\ told' = IF Heeds(s[j]) THEN told \cup {s[j]} ELSE told
         /\ loop' = [loop EXCEPT !.sending = TRUE, !.p = P(j), !.todo = td(j)]
         /\ UNCHANGED <<bars, alive, def, posted, astray>>
  BY DEF SendPosChanged, areaVars, ghosts
<1>2. s \in Seq(Windows) /\ Len(s) \in Nat /\ j \in 1..Len(s)
  <2>1. s \in Seq(Windows)
    BY DEF MessagesInv, Handlers
  <2> QED
    BY <1>1, <2>1, LenProperties
<1>3. /\ loop'.skip = loop.skip /\ loop'.mon = loop.mon /\ loop'.todo = td(j) /\ loop'.gone = loop.gone
      /\ loop'.p = P(j)
  BY <1>1 DEF MessagesInv, Handlers
<1>4. Len(td(j)) = Len(s) - j /\ \A k \in 1..(Len(s) - j) : td(j)[k] = s[j + k]
  <2> HIDE DEF s
  <2>1. \A k \in (j + 1)..Len(s) : s[k] \in Windows
    BY <1>2, ElementOfSeq
  <2> QED
    BY <1>2, <2>1, SubSeqProperties
<1>5. Now.bars = bars /\ Now.live = alive /\ Now' = Now
  BY <1>1 DEF Now
<1>6. \A k \in 1..(j - 1) : FALSE \in Told(k)
  BY <1>1 DEF NoneTold
<1> HIDE DEF td, s
<1>7. told \subseteq told'
  BY <1>1
<1>8. ASSUME NEW w, Stood(Now, w), s[j] = w PROVE w \in told'
  <2>1. Heeds(w)
    BY <1>5, <1>8 DEF Heeds, Stood, TakesRoom, At, Bar
  <2> QED
    BY <1>1, <1>8, <2>1
<1>9. ASSUME NEW w, Stood(Now, w), NEW i \in 1..Len(loop.todo), ComesTo(loop, Now, w, i), w \notin told',
             FALSE \notin Told(i)
      PROVE  /\ i - j \in 1..Len(loop'.todo) /\ ComesTo(loop', Now, w, i - j)
             /\ Skips(loop', i - j) => Skips(loop, i)
             /\ Skips(loop, j) => Skips(loop, i)
  <2>1. i \in 1..Len(s) /\ s[i] = w
    BY <1>9 DEF ComesTo, s
  <2>2. ~(i \in 1..(j - 1)) /\ i # j
    BY <1>6, <1>8, <1>9, <2>1
  <2>3. i > j /\ i - j \in 1..(Len(s) - j) /\ j + (i - j) = i
    BY <1>2, <2>1, <2>2
  <2>4. i - j \in 1..Len(loop'.todo) /\ loop'.todo[i - j] = w
    <3> DEFINE d == i - j
    <3>1. d \in 1..(Len(s) - j) /\ j + d = i
      BY <2>3
    <3> HIDE DEF d
    <3>2. td(j)[d] = w /\ d \in 1..Len(td(j))
      BY <1>4, <2>1, <3>1
    <3> QED
      BY <1>3, <3>2 DEF d
  <2>5. ComesTo(loop', Now, w, i - j)
    BY <1>3, <1>9, <2>4 DEF ComesTo
  <2>6. ASSUME Skips(loop', i - j) PROVE Skips(loop, i)
    <3>1. PICK k \in 1..((i - j) - 1) : loop'.todo[k] = loop'.skip
      BY <2>6 DEF Skips
    <3>2. k \in 1..(Len(s) - j) /\ j + k \in 1..(i - 1)
      <4> DEFINE n == Len(s)
      <4>1. i \in 1..n /\ j \in 1..n /\ n \in Nat /\ i > j
        BY <1>2, <2>1, <2>3
      <4> HIDE DEF n
      <4>2. k \in Int /\ 1 <= k /\ k <= (i - j) - 1
        BY <3>1, <4>1
      <4>3. k \in 1..(n - j) /\ j + k \in 1..(i - 1)
        BY <4>1, <4>2
      <4> QED
        BY <4>3 DEF n
    <3>3. s[j + k] = loop.skip
      BY <1>3, <1>4, <3>1, <3>2
    <3> QED
      BY <3>2, <3>3 DEF Skips, s
  <2>7. Skips(loop, j) => Skips(loop, i)
    BY <1>2, <2>1, <2>3 DEF Skips
  <2> QED
    BY <2>4, <2>5, <2>6, <2>7
<1>10. ASSUME NEW w \in Windows, Stood(Now, w), w \in Loose PROVE w \in Loose'
  <2>1. CASE w \in told \cup astray
    BY <1>1, <1>7, <2>1 DEF Loose
  <2>2. CASE \E n \in Notices : Queued(posted, n) /\ Surely(Now, n, w)
    BY <1>1, <1>5, <2>2 DEF Loose
  <2>3. CASE WillTell(loop, Now, w) /\ w \notin told'
    <3>1. PICK i \in 1..Len(loop.todo) : ComesTo(loop, Now, w, i) /\ ~Skips(loop, i)
      BY <2>3 DEF WillTell
    <3>2. loop.p = None /\ w # loop.skip
      BY <2>3 DEF WillTell
    <3>3. FALSE \notin Told(i)
      BY <1>10, <3>1, <3>2, NotPassed
    <3>4. i - j \in 1..Len(loop'.todo) /\ ComesTo(loop', Now, w, i - j) /\ ~Skips(loop', i - j) /\ ~Skips(loop, j)
      BY <1>9, <1>10, <2>3, <3>1, <3>3
    <3>5. loop'.p = None
      BY <1>3, <3>2, <3>4 DEF P, Skips, Skipped
    <3>6. WillTell(loop', Now, w)
      BY <1>3, <3>2, <3>4, <3>5 DEF WillTell
    <3> QED
      BY <1>5, <3>6 DEF Loose
  <2> QED
    BY <1>10, <2>1, <2>2, <2>3 DEF Loose
<1>11. ASSUME NEW t \in Windows, NEW w \in Windows, Stood(Now, t), Stood(Now, w), At(Now, t).edge # At(Now, w).edge,
              Owed(Now, posted, loop, t, w)
       PROVE  w \in Loose' \/ Owed(Now, posted', loop', t, w)
  <2>1. CASE \E n \in Notices : Queued(posted, n) /\ n.skip = t /\ n.mon = At(Now, w).mon
    BY <1>1, <2>1 DEF Owed
  <2>2. CASE loop.skip = t /\ t \notin loop.gone /\ \E i \in 1..Len(loop.todo) : ComesTo(loop, Now, w, i)
    <3>1. PICK i \in 1..Len(loop.todo) : ComesTo(loop, Now, w, i)
      BY <2>2
    <3>2. FALSE \notin Told(i)
      BY <1>11, <2>2, <3>1, NotPassed
    <3>3. CASE w \in told'
      BY <3>3 DEF Loose
    <3>4. CASE w \notin told'
      <4>1. i - j \in 1..Len(loop'.todo) /\ ComesTo(loop', Now, w, i - j)
        BY <1>9, <1>11, <3>1, <3>2, <3>4
      <4> QED
        BY <1>3, <2>2, <4>1 DEF Owed
    <3> QED
      BY <3>3, <3>4
  <2> QED
    BY <1>11, <2>1, <2>2 DEF Owed
<1> QED
  BY <1>1, <1>10, <1>11, SameStep

LEMMA AllToldPlaces ==
  ASSUME BarsInv, MessagesInv, HandlerInv, AllTold
  PROVE  Proper({})
<1>1. NoneTold(DOMAIN loop.todo) /\ UNCHANGED <<bars, alive, def, posted, told, astray>>
  BY DEF AllTold, sysVars
<1>2. DOMAIN loop.todo = 1..Len(loop.todo)
  BY LenProperties DEF MessagesInv, Handlers
<1>3. \A i \in 1..Len(loop.todo) : FALSE \in Told(i)
  BY <1>1, <1>2 DEF NoneTold
<1>4. Now' = Now
  BY <1>1 DEF Now
<1>5. ASSUME NEW w, Stood(Now, w) PROVE ~WillTell(loop, Now, w)
  BY <1>3, <1>5, NotPassed DEF WillTell
<1>6. ASSUME NEW w \in Windows, Stood(Now, w), w \in Loose PROVE w \in Loose'
  BY <1>1, <1>4, <1>5, <1>6 DEF Loose
<1>7. ASSUME NEW t \in Windows, NEW w \in Windows, Stood(Now, t), Stood(Now, w), At(Now, t).edge # At(Now, w).edge,
             Owed(Now, posted, loop, t, w)
      PROVE  Owed(Now, posted', loop', t, w)
  BY <1>1, <1>3, <1>7, NotPassed DEF Owed
<1> QED
  BY <1>1, <1>6, <1>7, SameStep

-----------------------------------------------------------------------------
(* The bar that is placed.                                                  *)

\* The place that x gets is a rectangle.
LEMMA SetPosRect ==
  ASSUME BarsInv, NEW x, NEW e \in Edges, NEW m \in Monitors
  PROVE  PosRect(x, e, m) \in Rects
<1>1. e \in Sides /\ def \in Rects /\ LiveBars \in Seq(AppBar)
  BY BarsAssumption, LiveIs DEF BarsInv, RectsInv, Regular
<1>2. NormalRect(LiveBars, x, e, m) \in Rects
  BY <1>1, NormalIs
<1>3. OverlapRect(e) \in Rects
  BY <1>1, ScreenIs, BroadIs DEF OverlapRect, ScreenRect
<1> QED
  BY <1>2, <1>3 DEF PosRect

\* The bars after x has been given rectangle r at edge e of m.
Sets(x, e, m, r) ==
  /\ Settled(Now, Now', {x}) /\ Heard({x}) /\ GoesOn(loop, loop', x)
  /\ x \in alive /\ alive' = alive /\ IsBar(bars, x) /\ IsBar(bars', x)
  /\ At(Now', x).edge = e /\ At(Now', x).mon = m /\ At(Now', x).rect = r
  /\ Stood(Now', x) <=> ~Bar(x).overlap
LEMMA SetsIs ==
  ASSUME BarsInv, BarsInv', MessagesInv, NEW x \in Windows, NEW e \in Edges, NEW m \in Monitors,
         barSetPos(x, e, m)
  PROVE  Sets(x, e, m, PosRect(x, e, m))
<1> DEFINE r == PosRect(x, e, m)
           b == Bar(x)
           c == Placed(b, e, m, r)
<1>1. /\ x \in alive /\ IsBar(bars, x) /\ UNCHANGED alive /\ told' = told \ {x} /\ Dangle(Dead)
      /\ bars' = [LiveBars EXCEPT ![IndexOf(LiveBars, x)] = c]
      /\ Notify(x, m) \/ UNCHANGED posted
  BY DEF barSetPos, PosRect
<1>2. r \in Rects
  BY SetPosRect
<1>3. b \in AppBar /\ b.win = x
  BY <1>1, BarIs
<1> HIDE DEF r, b
<1>4. /\ c \in AppBar /\ c.win = x /\ c.clean /\ c.mon = m /\ c.edge = e /\ c.rect = r
      /\ c.overlap = b.overlap
  BY <1>2, <1>3, BarsAssumption DEF Placed, AppBar, Rects
<1> HIDE DEF c
<1>5. Settled(Now, Now', {x})
  BY <1>1, <1>4, PutSettled
<1>6. IsBar(bars', x) /\ At(Now', x) = c
  <2> DEFINE L == LiveBars
             C == [L EXCEPT ![IndexOf(L, x)] = c]
  <2>1. Regular(L) /\ IsBar(L, x)
    BY <1>1, LiveIs
  <2>2. bars' = C /\ C = [L EXCEPT ![IndexOf(L, x)] = c]
    BY <1>1
  <2> HIDE DEF L, C
  <2>3. PutsAt(L, C, x, c)
    BY <1>4, <2>1, <2>2, PutFound
  <2>4. IsBar(C, x) /\ C[IndexOf(C, x)] = c
    BY <2>1, <2>3 DEF PutsAt
  <2> QED
    BY <2>2, <2>4, NowIs DEF At
<1>7. Heard({x}) /\ GoesOn(loop, loop', x)
  <2>1. \A a \in alive : a \notin Dead
    BY DEF Dead
  <2>2. \A a \in alive : GoesOn(loop, loop', a)
    BY <1>1, <2>1, DangleHeard DEF MessagesInv
  <2>3. \A n : Queued(posted, n) => Queued(posted', n)
    BY <1>1, NotifyHeard DEF MessagesInv
  <2> QED
    BY <1>1, <2>2, <2>3 DEF Heard
<1>8. Stood(Now', x) <=> ~b.overlap
  BY <1>1, <1>4, <1>6, NowIs DEF Stood, TakesRoom
<1> QED
  BY <1>1, <1>4, <1>5, <1>6, <1>7, <1>8 DEF Sets, r, b

\* Who is told of it, or forsaken.
Minds(x, e, m, r) ==
  /\ Tells(Bar(x), m, r) => \E n \in Notices : Queued(posted', n) /\ n.skip = x /\ n.mon = m
  /\ Unmoved(x, e, m, r) \subseteq astray'
  /\ astray \ {x} \subseteq astray'
  /\ Behind(LiveBars, x, e, m) => x \in astray'
LEMMA MindsIs ==
  ASSUME BarsInv, MessagesInv, NEW x \in Windows, NEW e \in Edges, NEW m \in Monitors,
         barSetPos(x, e, m)
  PROVE  Minds(x, e, m, PosRect(x, e, m))
<1> DEFINE r == PosRect(x, e, m)
<1>1. /\ IF Tells(Bar(x), m, r) THEN Notify(x, m) ELSE UNCHANGED posted
      /\ astray' = (IF Behind(LiveBars, x, e, m) THEN astray \cup {x} ELSE astray \ {x})
                     \cup Unmoved(x, e, m, r)
  BY DEF barSetPos, PosRect
<1> HIDE DEF r
<1>2. Tells(Bar(x), m, r) => \E n \in Notices : Queued(posted', n) /\ n.skip = x /\ n.mon = m
  BY <1>1, NotifyHeard DEF MessagesInv
<1> QED
  BY <1>1, <1>2 DEF Minds, r

LEMMA SetPosVacates ==
  ASSUME BarsInv, BarsInv', MessagesInv, NEW x \in Windows, NEW e \in Edges, NEW m \in Monitors, NEW r,
         Sets(x, e, m, r), Minds(x, e, m, r)
  PROVE  Vacates(Now, Now', Loose, Loose')
<1> SUFFICES ASSUME NEW w \in Windows, NEW y \in Windows,
                    Stood(Now, w), ~Remains(Now, Now', w), Remains(Now, Now', y),
                    At(Now, y).mon = At(Now, w).mon, Older(Now, w, y), Disturbed(Now, Loose, At(Now, w).mon)
             PROVE  y \in Loose'
  BY DEF Vacates
<1>1. w = x
  BY DEF Sets, Settled
<1>2. Bar(x) = At(Now, x) /\ ~Bar(x).overlap /\ Bar(x).clean /\ Stood(Now', x) /\ Stood(Now, y)
  <2>1. Bar(x) = At(Now, x)
    BY NowIs DEF At, Bar
  <2> QED
    BY <1>1, <2>1 DEF Stood, TakesRoom, Sets, Remains
<1>3. ~SamePlace(Now, Now', x)
  BY <1>1, <1>2 DEF Remains
<1>4. ASSUME y \in Unmoved(x, e, m, r) PROVE y \in Loose'
  BY <1>4 DEF Minds, Loose
<1>5. CASE Bar(x).mon # m
  <2>1. LeftAlone(Bar(x), e, m, r) # {} /\ Unmoved(x, e, m, r) = Forsaken(x)
    BY <1>2, <1>5 DEF LeftAlone, Unmoved
  <2>2. ~AtRest(Bar(x).mon)
    BY <1>1, <1>2, NothingOwed
  <2>3. y \in Forsaken(x)
    BY <1>1, <1>2, <2>2, NewerIs DEF Forsaken
  <2> QED
    BY <1>4, <2>1, <2>3
<1>6. CASE Bar(x).mon = m /\ Bar(x).rect = r
  <2>1. Bar(x).edge # e
    BY <1>2, <1>3, <1>6 DEF SamePlace, Sets
  <2>2. /\ LeftAlone(Bar(x), e, m, r) # {}
        /\ Unmoved(x, e, m, r) = BarsOf(m)
    BY <1>2, <1>6, <2>1 DEF LeftAlone, Unmoved
  <2> QED
    BY <1>1, <1>2, <1>4, <1>6, <2>2, AllOf
<1>7. CASE Bar(x).mon = m /\ Bar(x).rect # r
  <2>1. PICK n \in Notices : Queued(posted', n) /\ n.skip = x /\ n.mon = m
    BY <1>2, <1>7 DEF Tells, Minds
  <2>2. At(Now', y).mon = m /\ Older(Now', x, y)
    BY <1>1, <1>2, <1>7, NowIs DEF Remains, SamePlace, Sets, Settled, Stood
  <2>3. Surely(Now', n, y)
    BY <1>2, <2>1, <2>2 DEF Surely, Sets
  <2> QED
    BY <2>1, <2>3 DEF Loose
<1> QED
  BY <1>5, <1>6, <1>7

LEMMA SetPosOccupies ==
  ASSUME BarsInv, NEW x \in Windows, NEW e \in Edges, NEW m \in Monitors, NEW r,
         Sets(x, e, m, r), Minds(x, e, m, r)
  PROVE  Occupies(Now, Now', Loose', posted', loop', {x})
<1> SUFFICES ASSUME NEW y \in Windows, Stood(Now', x), ~Remains(Now, Now', x), Remains(Now, Now', y),
                    At(Now', y).mon = At(Now', x).mon
             PROVE  /\ Older(Now', x, y) => y \in Loose'
                    /\ y \in Loose' \/ Owed(Now', posted', loop', x, y)
  BY DEF Occupies
<1>1. At(Now', y).mon = m /\ At(Now', x).mon = m /\ ~Bar(x).overlap
  BY DEF Sets
<1>2. CASE Tells(Bar(x), m, r)
  <2>1. PICK n \in Notices : Queued(posted', n) /\ n.skip = x /\ n.mon = m
    BY <1>2 DEF Minds
  <2>2. Older(Now', x, y) => Surely(Now', n, y)
    BY <1>1, <2>1 DEF Surely
  <2>3. Owed(Now', posted', loop', x, y)
    BY <1>1, <2>1 DEF Owed
  <2> QED
    BY <2>1, <2>2, <2>3 DEF Loose
<1>3. CASE ~Tells(Bar(x), m, r)
  <2>1. Bar(x).clean /\ Bar(x).rect = r /\ Bar(x).mon = m
    BY <1>1, <1>3 DEF Tells
  <2>2. Bar(x) = At(Now, x)
    BY NowIs DEF At, Bar
  <2>3. Stood(Now, x)
    BY <1>1, <2>1, <2>2, NowIs DEF Stood, TakesRoom, Sets
  <2>4. Bar(x).edge # e
    BY <2>1, <2>2, <2>3 DEF Remains, SamePlace, Sets
  <2>5. /\ LeftAlone(Bar(x), e, m, r) # {}
        /\ Unmoved(x, e, m, r) = BarsOf(m)
    BY <1>1, <2>1, <2>4 DEF LeftAlone, Unmoved
  <2>6. Stood(Now, y) /\ At(Now, y).mon = m
    BY <1>1 DEF Remains, SamePlace
  <2>7. y \in astray'
    BY <2>5, <2>6, AllOf DEF Minds
  <2> QED
    BY <2>7 DEF Loose
<1> QED
  BY <1>2, <1>3

\* The bars L that are left, where that of x is put.
Goes(L, x) ==
  /\ Regular(L) /\ IsBar(L, x) /\ L[IndexOf(L, x)] = Bar(x)
  /\ \A a : IsBar(L, a) => a \in alive'
  /\ PutsAt(L, bars', x, At(Now', x))
LEMMA GoesIs ==
  ASSUME BarsInv, NEW x \in Windows, NEW e \in Edges, NEW m \in Monitors, barSetPos(x, e, m),
         Sets(x, e, m, PosRect(x, e, m))
  PROVE  Goes(LiveBars, x)
<1> DEFINE L == LiveBars
           b == Bar(x)
           c == Placed(b, e, m, PosRect(x, e, m))
           C == [L EXCEPT ![IndexOf(L, x)] = c]
<1>1. /\ x \in alive /\ alive' = alive /\ IsBar(bars, x)
      /\ bars' = [LiveBars EXCEPT ![IndexOf(LiveBars, x)] = c]
  BY DEF barSetPos, PosRect
<1>2. Regular(L) /\ IsBar(L, x) /\ L[IndexOf(L, x)] = b /\ \A a : IsBar(L, a) => a \in alive
  BY <1>1, LiveIs, LiveKeeps
<1>3. Now'.bars = bars'
  BY NowIs
<1>4. bars' = C /\ C = [L EXCEPT ![IndexOf(L, x)] = c]
  BY <1>1
<1>5. c \in AppBar /\ c.win = x
  <2>1. b \in AppBar /\ b.win = x
    BY <1>1, BarIs
  <2>2. PosRect(x, e, m) \in Rects
    BY <1>1, SetPosRect
  <2> QED
    BY <2>1, <2>2, BarsAssumption DEF Placed, AppBar, Rects
<1> HIDE DEF L, b, c, C
<1>6. PutsAt(L, C, x, c)
  BY <1>2, <1>4, <1>5, PutFound
<1>7. At(Now', x) = c
  BY <1>2, <1>3, <1>4, <1>6 DEF PutsAt, At
<1> QED
  BY <1>1, <1>2, <1>4, <1>6, <1>7 DEF Goes, L, b

\* The other bars are where they were.
LEMMA OtherIs ==
  ASSUME NEW L, NEW x, Goes(L, x), NEW i \in 1..Len(L), NEW a, a = L[i].win, a # x
  PROVE  /\ IsBar(L, a) /\ IsBar(bars', a) /\ a \in alive'
         /\ IndexOf(L, a) = i /\ IndexOf(bars', a) = i /\ At(Now', a) = L[i]
<1>1. Regular(L) /\ IsBar(L, x) /\ PutsAt(L, bars', x, At(Now', x))
  BY DEF Goes
<1>2. IsBar(L, a)
  BY <1>1, BarAt DEF IsBar
<1>3. IndexOf(L, a) = i
  BY <1>1, <1>2, Found
<1>4. IsBar(bars', a) /\ IndexOf(bars', a) = i
  BY <1>1, <1>2, <1>3 DEF PutsAt
<1>5. i # IndexOf(L, x)
  BY <1>1, Found
<1>6. bars'[i] = L[i]
  BY <1>1, <1>5 DEF PutsAt
<1> QED
  BY <1>2, <1>3, <1>4, <1>6, NowIs DEF At, Goes

\* The bars that modifyNormalBar puts x behind are the older ones of its edge.
LEMMA HeadsOlder ==
  ASSUME NEW x, NEW e, NEW m, NEW r, NEW L, Sets(x, e, m, r), Goes(L, x), Stood(Now', x),
         ~Behind(L, x, e, m), NEW i \in 1..Len(L), Heads(L, x, e, m, i), NEW a, a = L[i].win
  PROVE  /\ InRow(Now', a, x) /\ a # x /\ IndexOf(bars', a) = i
         /\ At(Now', a) = L[i] /\ To(Now', a) = EndOf(L[i])
<1> DEFINE k == IndexOf(L, x)
<1>1. a # x /\ TakesRoom(L[i], m) /\ L[i].edge = e /\ \A j \in 1..i : ~Own(L[j], x, m)
  BY DEF Heads
<1>2. IsBar(bars', a) /\ a \in alive' /\ IndexOf(bars', a) = i /\ At(Now', a) = L[i]
  BY <1>1, OtherIs
<1>3. /\ k \in 1..Len(L) /\ L[k] = Bar(x) /\ L[k].win = x /\ Len(L) \in Nat /\ IndexOf(bars', x) = k
      /\ ~Bar(x).overlap
  BY Found, BarAt DEF Goes, PutsAt, Sets
<1> HIDE DEF k
<1>4. i < k
  <2> SUFFICES ASSUME ~(i < k) PROVE FALSE
    OBVIOUS
  <2>1. i # k
    BY <1>1, <1>3
  <2>2. k \in 1..i /\ i \in k + 1 .. Len(L)
    BY <1>3, <2>1
  <2>3. Bar(x).mon # m
    BY <1>1, <1>3, <2>2 DEF Own
  <2> QED
    BY <1>1, <2>2, <2>3 DEF Behind, k
<1>5. Stood(Now', a) /\ At(Now', a).mon = m /\ At(Now', a).edge = e
  BY <1>1, <1>2, NowIs DEF Stood, TakesRoom
<1>6. Older(Now', a, x)
  BY <1>2, <1>3, <1>4, NowIs DEF Older
<1>7. InRow(Now', a, x)
  BY <1>5, <1>6 DEF InRow, Beside, Sets
<1> QED
  BY <1>1, <1>2, <1>7 DEF To

LEMMA RowHeads ==
  ASSUME NEW x, NEW e, NEW m, NEW r, NEW L, Sets(x, e, m, r), Goes(L, x), NEW a, InRow(Now', a, x),
         BarsInv'
  PROVE  /\ IndexOf(bars', a) \in 1..Len(L) /\ L[IndexOf(bars', a)].win = a
         /\ Heads(L, x, e, m, IndexOf(bars', a))
<1> DEFINE i == IndexOf(bars', a)
           k == IndexOf(L, x)
<1>1. /\ Regular(L) /\ IsBar(L, x) /\ Regular(bars') /\ Regular(Now'.bars)
      /\ PutsAt(L, bars', x, At(Now', x))
  BY NowIs DEF Goes, BarsInv
<1>2. a # x
  BY <1>1, RowOnce
<1>3. /\ Stood(Now', a) /\ At(Now', a).mon = m /\ At(Now', a).edge = e /\ Older(Now', a, x)
  BY DEF InRow, Beside, Sets
<1>4. IsBar(L, a) /\ i = IndexOf(L, a) /\ IndexOf(bars', x) = k
  BY <1>1, <1>3, NowIs DEF PutsAt, Stood
<1>5. i \in 1..Len(L) /\ L[i].win = a /\ k \in 1..Len(L) /\ Len(L) \in Nat
  BY <1>1, <1>4, Found, BarAt
<1>6. L[i] = At(Now', a)
  BY <1>2, <1>5, OtherIs
<1>7. i < k
  BY <1>3, <1>4, NowIs DEF Older
<1>8. \A j \in 1..i : L[j].win # x
  <2>1. \A j \in 1..Len(L) : L[j].win = x => j = k
    BY <1>1, Found
  <2> HIDE DEF i, k
  <2> QED
    BY <1>5, <1>7, <2>1
<1>9. TakesRoom(L[i], m) /\ L[i].edge = e
  BY <1>3, <1>6 DEF Stood
<1> QED
  BY <1>2, <1>5, <1>8, <1>9 DEF Heads, Own

LEMMA SetPosFits ==
  ASSUME NoneFacing, BarsInv, BarsInv', NEW x \in Windows, NEW e \in Edges, NEW m \in Monitors, def' = def,
         NEW r, r = PosRect(x, e, m), Sets(x, e, m, r), Minds(x, e, m, r), Goes(LiveBars, x)
  PROVE  Fits(Now', Bases', Loose', {x})
<1> DEFINE L == LiveBars
<1> SUFFICES ASSUME Stood(Now', x)
             PROVE  /\ To(Now', x) = From(Now', x) + Inward[e]
                    /\ Horizontal(e) => Spans(Now', Bases', x)
                    /\ \A a \in Windows : InRow(Now', a, x) =>
                         x \in Loose' \/ \E k \in Windows : /\ InRow(Now', k, x) /\ From(Now', x) = To(Now', k)
                                                            /\ k = a \/ InRow(Now', a, k)
                    /\ \A t \in Windows : Over(Now', t, x) /\ Spans(Now', Bases', t) =>
                         x \in Loose' \/ \E a \in Windows : InRow(Now', a, x) /\ ~Apart(Now', a, x)
  BY DEF Fits, Sets, OneBroad
<1>1. r = NormalRect(L, x, e, m)
  BY DEF Sets, PosRect
<1>2. L \in Seq(AppBar) /\ Regular(L) /\ def \in Rects
  BY LiveIs DEF BarsInv, RectsInv, Regular
<1>3. At(Now', x).edge = e /\ At(Now', x).mon = m /\ At(Now', x).rect = r
  BY DEF Sets
<1>4. Bases'[m] = Base(m)
  BY BasesSame DEF Bases
<1>5. PICK d \in Rects : PlacedAt(d, r, L, x, e, m)
  BY <1>1, <1>2, PlaceFound
<1>6. From(Now', x) = r[e] /\ To(Now', x) = r[Opposite[e]] /\ r[e] = d[e]
  BY <1>3, <1>5 DEF From, To, EndOf, PlacedAt
<1>7. To(Now', x) = From(Now', x) + Inward[e]
  BY <1>5, <1>6 DEF PlacedAt
<1>8. ASSUME Horizontal(e) PROVE Spans(Now', Bases', x)
  BY <1>1, <1>2, <1>3, <1>4, <1>8, PlaceSpans DEF Spans
<1>9. x \notin Loose' => ~Behind(L, x, e, m)
  BY DEF Minds, Loose
<1>10. Goes(L, x)
  OBVIOUS
<1>11. \A i \in 1..Len(L) : L[i].win \in Windows
  BY <1>2, BarAt DEF AppBar
<1> HIDE DEF L
<1>12. ASSUME NEW a \in Windows, InRow(Now', a, x), x \notin Loose'
       PROVE  \E k \in Windows : /\ InRow(Now', k, x) /\ From(Now', x) = To(Now', k)
                                 /\ k = a \/ InRow(Now', a, k)
  <2> DEFINE i == IndexOf(bars', a)
  <2>1. i \in 1..Len(L) /\ L[i].win = a /\ Heads(L, x, e, m, i)
    BY <1>10, <1>12, RowHeads
  <2> HIDE DEF i
  <2>2. PICK kk \in 1..Len(L) : /\ Heads(L, x, e, m, kk) /\ d[e] = EndOf(L[kk])
                                /\ \A j \in 1..Len(L) : Heads(L, x, e, m, j) => j <= kk
    BY <1>5, <2>1 DEF PlacedAt, Pushed
  <2>3. PICK k : k = L[kk].win
    OBVIOUS
  <2>4. /\ InRow(Now', k, x) /\ IndexOf(bars', k) = kk /\ To(Now', k) = EndOf(L[kk])
    BY <1>9, <1>10, <1>12, <2>2, <2>3, HeadsOlder
  <2>5. i <= kk
    BY <2>1, <2>2
  <2>6. k = a \/ InRow(Now', a, k)
    <3>1. CASE i = kk
      BY <2>1, <2>3, <3>1
    <3>2. CASE i # kk
      <4>1. i < kk
        BY <2>1, <2>2, <2>5, <3>2
      <4>2. Older(Now', a, k)
        BY <2>4, <4>1, NowIs DEF Older, i
      <4> QED
        BY <1>12, <2>4, <4>2 DEF InRow, Beside
    <3> QED
      BY <3>1, <3>2
  <2>7. k \in Windows
    BY <1>11, <2>3
  <2> QED
    BY <1>6, <2>2, <2>4, <2>6, <2>7
<1>13. ASSUME NEW t \in Windows, Over(Now', t, x), Spans(Now', Bases', t), x \notin Loose'
       PROVE  \E a \in Windows : InRow(Now', a, x) /\ ~Apart(Now', a, x)
  <2>1. /\ Stood(Now', t) /\ At(Now', t).mon = m /\ Horizontal(At(Now', t).edge) /\ ~Horizontal(e)
        /\ Intersect(At(Now', t).rect, r) /\ t # x
    BY <1>3, <1>13 DEF Over, Beside
  <2> DEFINE i == IndexOf(L, t)
  <2>2. IsBar(L, t) /\ i \in 1..Len(L) /\ L[i].win = t
    <3>1. IsBar(L, t)
      BY <1>10, <2>1, NowIs DEF Goes, PutsAt, Stood
    <3> QED
      BY <1>2, <3>1, Found
  <2>3. At(Now', t) = L[i]
    BY <1>10, <2>1, <2>2, OtherIs
  <2> HIDE DEF i
  <2>4. Crosses(L[i], x, m)
    BY <2>1, <2>2, <2>3 DEF Crosses, Stood
  <2>5. SpansAt(L[i].rect, Base(m)) /\ Intersect(L[i].rect, r)
    BY <1>4, <1>13, <2>1, <2>3 DEF Spans
  <2>6. PICK k \in 1..Len(L) : Heads(L, x, e, m, k) /\ ~Within(e, EndOf(L[k]), r[e])
    BY <1>1, <1>2, <2>1, <2>2, <2>4, <2>5, PlaceCrosses
  <2>7. PICK a : a = L[k].win
    OBVIOUS
  <2>8. InRow(Now', a, x) /\ To(Now', a) = EndOf(L[k])
    BY <1>9, <1>10, <1>13, <2>6, <2>7, HeadsOlder
  <2>9. ~Apart(Now', a, x)
    BY <1>3, <1>6, <2>6, <2>8 DEF Apart, InRow, Beside
  <2> QED
    BY <1>11, <2>7, <2>8, <2>9
<1> QED
  BY <1>7, <1>8, <1>12, <1>13

\* A notification about x still has those told that it was to have told.
LEMMA SetPosSurely ==
  ASSUME NEW x \in Windows, NEW e, NEW m, NEW r, Sets(x, e, m, r), Vacates(Now, Now', Loose, Loose'),
         NEW w \in Windows, Remains(Now, Now', w), w \in Loose, NEW n \in Notices, Queued(posted, n),
         Surely(Now, n, w), n.skip = x, Stood(Now, x)
  PROVE  w \in Loose'
<1>1. At(Now, x).mon = n.mon /\ Older(Now, x, w) /\ n.mon = At(Now, w).mon
  BY DEF Surely, Stood
<1>2. At(Now, x) = Bar(x)
  BY NowIs DEF At, Bar
<1>3. Stood(Now', x) /\ At(Now', x).mon = m
  BY <1>2 DEF Sets, Stood, TakesRoom
<1>4. CASE At(Now, x).mon = m
  <2>1. Older(Now', x, w)
    BY <1>1, <1>3 DEF Sets, Settled, Stood, Remains
  <2>2. Surely(Now', n, w)
    BY <1>1, <1>3, <1>4, <2>1 DEF Surely, Remains, SamePlace
  <2>3. Queued(posted', n)
    BY DEF Sets, Heard
  <2> QED
    BY <2>2, <2>3 DEF Loose
<1>5. CASE At(Now, x).mon # m
  <2>1. ~Remains(Now, Now', x)
    BY <1>3, <1>5 DEF Remains, SamePlace
  <2>2. Disturbed(Now, Loose, At(Now, x).mon)
    BY <1>1 DEF Disturbed, Remains
  <2> QED
    BY <1>1, <2>1, <2>2 DEF Vacates
<1> QED
  BY <1>4, <1>5

LEMMA SetPosPlaces ==
  ASSUME NoneFacing, BarsInv, BarsInv', MessagesInv, NEW x \in Windows, NEW e \in Edges, NEW m \in Monitors,
         barSetPos(x, e, m)
  PROVE  Proper({x})
<1> DEFINE r == PosRect(x, e, m)
<1>1. Sets(x, e, m, r) /\ Minds(x, e, m, r) /\ Goes(LiveBars, x)
  BY SetsIs, MindsIs, GoesIs
<1>2. r = PosRect(x, e, m) /\ def' = def
  BY DEF barSetPos, areaVars
<1> HIDE DEF r
<1>3. Settled(Now, Now', {x}) /\ Heard({x}) /\ GoesOn(loop, loop', x) /\ alive' = alive
  BY <1>1 DEF Sets
<1>4. StaysPut(Now, Now', {x})
  BY <1>3 DEF Settled, StaysPut, Stood
<1>5. Vacates(Now, Now', Loose, Loose')
  BY <1>1, SetPosVacates
<1>6. Occupies(Now, Now', Loose', posted', loop', {x})
  BY <1>1, SetPosOccupies
<1>7. Fits(Now', Bases', Loose', {x})
  BY <1>1, <1>2, SetPosFits
<1>8. StaysLoose(Now, Now', Loose, Loose', {x})
  <2> SUFFICES ASSUME NEW w \in Windows, w # x, Remains(Now, Now', w), w \in Loose PROVE w \in Loose'
    BY DEF StaysLoose
  <2>1. ASSUME NEW n \in Notices, Queued(posted, n), Surely(Now, n, w), n.skip \in {x}, Stood(Now, n.skip)
        PROVE  w \in Loose'
    <3>1. n.skip = x /\ Stood(Now, x)
      BY <2>1
    <3> QED
      BY <1>1, <1>5, <2>1, <3>1, SetPosSurely
  <2>2. w \in astray => w \in astray'
    BY <1>1 DEF Minds
  <2>3. alive' \subseteq alive /\ w \notin {x}
    BY <1>3
  <2> QED
    BY <1>3, <2>1, <2>2, <2>3, LooseStays
<1>9. StaysOwed(Now, Now', posted, loop, posted', loop', Loose', {x})
  <2>1. \A w : Remains(Now, Now', w) => GoesOn(loop, loop', w)
    BY <1>3 DEF Remains, Stood, Now, Heard
  <2>2. \A n : Queued(posted, n) => Queued(posted', n)
    BY <1>3 DEF Heard
  <2> QED
    BY <2>1, <2>2, OwedStays DEF StaysOwed
<1>10. StaysBased(Now, Now', Bases, Bases', Loose', {x})
  BY <1>2, BasesSame DEF StaysBased
<1> QED
  BY <1>4, <1>5, <1>6, <1>7, <1>8, <1>9, <1>10 DEF Proper

-----------------------------------------------------------------------------
(* Every step.                                                              *)

LEMMA UntouchedPlaces ==
  ASSUME UNCHANGED <<bars, alive, def, posted, loop, told, astray>>
  PROVE  Proper({})
<1>1. Now' = Now /\ Loose' = Loose
  BY DEF Now, Loose
<1> QED
  BY <1>1, SameStep

\* Each step is proper for the bar that it places, or for none.
LEMMA ProperStep ==
  ASSUME NoneFacing, BarsInv, BarsInv', MessagesInv, HandlerInv, [Next]_vars
  PROVE  \E X : AtMostOne(X) /\ Proper(X)
<1>1. AtMostOne({}) /\ \A x \in Windows : AtMostOne({x})
  BY DEF AtMostOne
<1>2. CASE NotifyPosChanged
  BY <1>1, <1>2, NotifyPlaces
<1>3. CASE SendPosChanged
  BY <1>1, <1>3, SendPlaces
<1>4. CASE AllTold
  BY <1>1, <1>4, AllToldPlaces
<1>5. CASE SettingChange
  BY <1>1, <1>5, ChangePlaces
<1>6. ASSUME NEW r \in WorkAreas, SetExternally(r) PROVE \E X : AtMostOne(X) /\ Proper(X)
  <2>1. UNCHANGED <<bars, alive, def, posted, loop, told, astray>>
    BY <1>6 DEF SetExternally, sysVars, ghosts
  <2> QED
    BY <1>1, <2>1, UntouchedPlaces
<1>7. ASSUME NEW w \in Windows, barCreate(w) PROVE \E X : AtMostOne(X) /\ Proper(X)
  BY <1>1, <1>7, CreatePlaces
<1>8. ASSUME NEW w \in Windows, barDestroy(w) PROVE \E X : AtMostOne(X) /\ Proper(X)
  BY <1>1, <1>8, DestroyPlaces
<1>9. ASSUME NEW w \in Windows, Answer(w) PROVE \E X : AtMostOne(X) /\ Proper(X)
  <2>1. w \in told /\ barSetPos(w, Bar(w).edge, Bar(w).mon)
    BY <1>9 DEF Answer
  <2>2. Bar(w).edge \in Edges /\ Bar(w).mon \in Monitors
    BY <2>1, AnswerAt
  <2> QED
    BY <1>1, <2>1, <2>2, SetPosPlaces
<1>10. ASSUME NEW w \in Windows, Die(w) PROVE \E X : AtMostOne(X) /\ Proper(X)
  BY <1>1, <1>10, DiePlaces
<1>11. ASSUME NEW q \in Places PROVE q[1] \in Edges /\ q[2] \in Monitors
  BY BarsAssumption
<1>12. ASSUME NEW w \in Windows, NEW q \in Places, Move(w, q[1], q[2]) PROVE \E X : AtMostOne(X) /\ Proper(X)
  <2>1. barSetPos(w, q[1], q[2])
    BY <1>12 DEF Move
  <2> QED
    BY <1>1, <1>11, <2>1, SetPosPlaces
<1>13. ASSUME NEW w \in Windows, NEW q \in Places, barSetAutoHide(w, q[1], q[2])
       PROVE  \E X : AtMostOne(X) /\ Proper(X)
  BY <1>1, <1>11, <1>13, HidePlaces
<1>14. ASSUME NEW w \in Windows, NEW q \in Places, barClearAutoHide(w, q[1], q[2])
       PROVE  \E X : AtMostOne(X) /\ Proper(X)
  BY <1>1, <1>11, <1>14, ClearPlaces
<1>15. CASE UNCHANGED vars
  BY <1>1, <1>15, UntouchedPlaces DEF vars, areaVars, sysVars, ghosts
<1> QED
  BY <1>2, <1>3, <1>4, <1>5, <1>6, <1>7, <1>8, <1>9, <1>10, <1>12, <1>13, <1>14, <1>15 DEF Next, Service

LEMMA HandlerStep ==
  ASSUME MessagesInv, HandlerInv, [Next]_vars
  PROVE  HandlerInv'
<1>1. ASSUME NEW ws, Dangle(ws) PROVE HandlerInv'
  <2> DEFINE g == IF loop.on THEN loop.gone \cup {d \in ws : d \in ToSet(loop.todo) \/ d = loop.p}
                  ELSE loop.gone
  <2>1. loop' = [loop EXCEPT !.gone = g]
    BY <1>1 DEF Dangle
  <2> HIDE DEF g
  <2> QED
    BY <2>1 DEF HandlerInv, MessagesInv, Handlers
<1>2. CASE NotifyPosChanged
  BY <1>2 DEF NotifyPosChanged, HandlerInv, NoLoop
<1>3. CASE SendPosChanged
  <2>1. PICK i : \E td : loop' = [loop EXCEPT !.sending = TRUE, !.p = P(i), !.todo = td]
    BY <1>3 DEF SendPosChanged
  <2>2. P(i) \in {loop.skip, loop.p}
    BY DEF P
  <2> QED
    BY <2>1, <2>2 DEF HandlerInv, MessagesInv, Handlers
<1>4. CASE AllTold
  BY <1>4 DEF AllTold, HandlerInv, NoLoop
<1>5. CASE UNCHANGED loop
  BY <1>5 DEF HandlerInv
<1>6. SettingChange => \E ws : Dangle(ws)
  BY DEF SettingChange
<1>7. \A r : SetExternally(r) => UNCHANGED loop
  BY DEF SetExternally
<1>8. \A w : Die(w) => UNCHANGED loop
  BY DEF Die
<1>9. \A w, e, m : barSetPos(w, e, m) => \E ws : Dangle(ws)
  BY DEF barSetPos
<1>10. \A w : barCreate(w) \/ barDestroy(w) \/ Answer(w) => \E ws : Dangle(ws)
  BY <1>9 DEF barCreate, barDestroy, Answer
<1>11. \A w, e, m : Move(w, e, m) \/ barSetAutoHide(w, e, m) \/ barClearAutoHide(w, e, m) => \E ws : Dangle(ws)
  BY <1>9 DEF Move, barSetAutoHide, barClearAutoHide
<1> QED
  BY <1>1, <1>2, <1>3, <1>4, <1>5, <1>6, <1>7, <1>8, <1>10, <1>11 DEF Next, Service, vars

LEMMA PlacesNext ==
  ASSUME NoneFacing, BarsInv, BarsInv', MessagesInv, HandlerInv, PlacesInv, [Next]_vars
  PROVE  HandlerInv' /\ PlacesInv'
<1>1. PICK X : AtMostOne(X) /\ Proper(X)
  BY ProperStep
<1>2. PlacesInv'
  BY <1>1, PlacesStep DEF BarsInv
<1> QED
  BY <1>2, HandlerStep

-----------------------------------------------------------------------------
(* The theorems.                                                            *)

LEMMA NothingLeftOut ==
  ASSUME NEW bs, bs = <<>>, NEW m \in Monitors, NEW live, NEW base \in Rects
  PROVE  LeftOf(bs, m, base, live) = base
<1> DEFINE r == LeftOf(bs, m, base, live)
<1>1. bs \in Seq(AppBar) /\ Len(bs) = 0
  OBVIOUS
<1>2. Rest(r, base, bs, 0, m, live)
  BY <1>1, LeftIs
<1> HIDE DEF r
<1>3. \A s \in Sides : Ends(bs, 0, m, live, s) = {}
  BY DEF Ends
<1>4. \A s \in Sides : r[s] = base[s]
  BY <1>2, <1>3 DEF Rest, Furthest
<1>5. r \in Rects /\ r = [s \in Sides |-> r[s]] /\ base = [s \in Sides |-> base[s]]
  BY <1>2 DEF Rest, Rects
<1>6. r = base
  BY <1>4, <1>5
<1> QED
  BY <1>6 DEF r

Inv == BarsInv /\ MessagesInv /\ CountsInv /\ AreaInv

LEMMA Start ==
  ASSUME Init
  PROVE  Inv
<1>1. Screen \in Rects
  BY ScreenIs DEF ScreenRect
<1>2. Regular(bars)
  BY DEF Init, Regular, OneEach
<1>3. AnswersInv
  BY DEF Init, AnswersInv
<1>4. RectsInv
  BY <1>1 DEF Init, RectsInv
<1>5. MessagesInv
  BY DEF Init, MessagesInv, Handlers, NoLoop
<1>6. CountsInv
  BY BarsAssumption DEF Init, CountsInv
<1>7. AreaInv
  <2>1. ASSUME NEW m \in Monitors PROVE Adjusted(m)
    <3>1. Base(m) = Screen /\ area[m] = Screen
      BY DEF Init, Base
    <3>2. bars = <<>>
      BY DEF Init
    <3>3. LeftOf(bars, m, Screen, alive) = Screen
      BY <1>1, <3>2, NothingLeftOut
    <3> QED
      BY <3>1, <3>3, LeftByState DEF Adjusted
  <2>2. cur = area[Primary]
    BY BarsAssumption DEF Init
  <2> QED
    BY <2>1, <2>2 DEF AreaInv
<1> QED
  BY <1>2, <1>3, <1>4, <1>5, <1>6, <1>7 DEF Inv, BarsInv

LEMMA AlwaysInv ==
  Spec => []Inv
<1>1. Init => Inv
  BY Start
<1>2. Inv /\ [Next]_vars => Inv'
  BY BarsStep, MessagesStep, CountsStep, AreaStep DEF Inv
<1> QED
  BY <1>1, <1>2, PTL DEF Spec

\* For any windows, monitors, edges and work areas, once all has been dispatched and
\* answered, the work area of a monitor is what its bars leave of the default one: a
\* monitor that is out of step has a notification in the queue, the handler under way,
\* or a change of another program to be heard of (adjustWorkArea), or is one where the
\* code posts nothing for the place a bar has left or turned in (removeDeadAppBars,
\* barSetPos, barSetAutoHide).
THEOREM AreaFollows == Spec => []AreaFollowsBars
<1>1. Inv => AreaFollowsBars
  BY BarsAssumption DEF Inv, AreaInv, AreaFollowsBars, Quiet, Pending, Adjusted
<1> QED
  BY <1>1, AlwaysInv, PTL

\* For any windows, monitors, work areas and bounds, where no two edges that bars use face
\* each other, bars that take room on a monitor do not cover each other once all have
\* answered (barSetPos, ABP_NOTIFYPOSCHANGED, modifyNormalBar), but for bars that a silent
\* change has left astray (barSetPos, barSetAutoHide).  Until then two bars of an edge
\* that are not apart have one that is still to make way, the newer or a bar between them;
\* and of two bars that share a corner, the one to yield is to make way, or the notification
\* about the other is yet to be handled, or an older bar of its edge is to make way first.
THEOREM BarsApart == NoneFacing => (Spec => []BarsDisjoint)
<1> SUFFICES ASSUME NoneFacing PROVE Spec => []BarsDisjoint
  OBVIOUS
<1>1. Init => HandlerInv /\ PlacesInv
  BY PlacesStart DEF Init, HandlerInv, NoLoop
<1>2. Inv /\ Inv' /\ HandlerInv /\ PlacesInv /\ [Next]_vars => HandlerInv' /\ PlacesInv'
  BY PlacesNext DEF Inv
<1>3. Inv /\ PlacesInv => BarsDisjoint
  BY RestIsDisjoint DEF Inv, BarsDisjoint
<1> QED
  BY <1>1, <1>2, <1>3, AlwaysInv, PTL DEF Spec

\* Every bar has one window, a bar that is placed has a monitor, the areas are
\* rectangles, and the handler and the queue name windows and monitors.
THEOREM Typing == Spec => []TypeOK
<1>1. Inv => TypeOK
  <2> SUFFICES ASSUME Inv PROVE TypeOK
    OBVIOUS
  <2>1. \A i \in DOMAIN bars :
          /\ bars[i].win \in Windows /\ bars[i].edge \in Edges \cup {None}
          /\ bars[i].mon \in Monitors \cup {None}
          /\ bars[i].clean => bars[i].mon # None
          /\ \A j \in DOMAIN bars : bars[i].win = bars[j].win => i = j
    BY BarAt DEF Inv, BarsInv, Regular, OneEach, AppBar
  <2>2. \A i \in DOMAIN posted : /\ posted[i].skip \in Windows \cup {None}
                                 /\ posted[i].mon \in Monitors \cup {None}
    <3>1. posted \in Seq(Notices)
      BY DEF Inv, MessagesInv
    <3>2. \A i \in DOMAIN posted : posted[i] \in Notices
      BY <3>1, ElementOfSeq, LenProperties
    <3> QED
      BY <3>2 DEF Notices
  <2>3. /\ area \in [Monitors -> [Sides -> Int]]
        /\ {def, cur, external} \subseteq [Sides -> Int]
    BY DEF Inv, BarsInv, RectsInv, Rects
  <2>4. /\ loop.todo \in Seq(Windows) /\ loop.gone \subseteq Windows
        /\ loop.p \in Windows \cup {None} /\ (~loop.on => loop = NoLoop)
    BY DEF Inv, MessagesInv, Handlers
  <2>5. sent \in 0..MaxEvents
    BY BarsAssumption DEF Inv, CountsInv
  <2>6. told \subseteq Windows /\ alive \subseteq Windows
    BY DEF Inv, BarsInv, AnswersInv
  <2> QED
    BY <2>1, <2>2, <2>3, <2>4, <2>5, <2>6 DEF TypeOK, Inv, CountsInv
<1> QED
  BY <1>1, AlwaysInv, PTL
=============================================================================
