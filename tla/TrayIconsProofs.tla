--------------------------- MODULE TrayIconsProofs ---------------------------
(***************************************************************************)
(* The types of TrayIcons, the iterators into m_siVector among them, and   *)
(* what every tray shows at rest, for any icons, trays and notifications.  *)
(***************************************************************************)
EXTENDS TrayIcons, Integers, FiniteSetTheorems, SequenceTheorems, WellFoundedInduction, TLAPS

-----------------------------------------------------------------------------
(* Induction over a set of numbers, and functions defined by recursion.     *)

LEMMA Least ==
  ASSUME NEW T \in SUBSET Nat, T # {}
  PROVE  \E n \in T : \A k \in T : n <= k
<1>1. PICK n \in T : \A k \in T : ~(<<k, n>> \in OpToRel(<, Nat))
  BY NatLessThanWellFounded, WFMin
<1>2. ASSUME NEW k \in T PROVE <<k, n>> \in OpToRel(<, Nat) <=> k < n
  BY DEF OpToRel
<1>3. \A k \in T : ~(k < n)
  BY <1>1, <1>2
<1>4. n \in Nat /\ \A k \in T : k \in Nat
  OBVIOUS
<1>5. \A k \in T : n <= k
  BY <1>3, <1>4
<1> QED
  BY <1>5

LEMMA Induct ==
  ASSUME NEW T \in SUBSET Nat, 0 \in T, \A n \in T : n + 1 \in T
  PROVE  T = Nat
<1> SUFFICES ASSUME T # Nat PROVE FALSE
  OBVIOUS
<1>1. PICK n \in Nat \ T : \A k \in Nat \ T : n <= k
  <2>1. Nat \ T \in SUBSET Nat /\ Nat \ T # {}
    OBVIOUS
  <2> QED
    BY <2>1, Least
<1>2. n - 1 \in Nat /\ n - 1 \in T
  BY <1>1
<1> QED
  BY <1>1, <1>2

\* Induction up to n.
LEMMA InductTo ==
  ASSUME NEW n \in Nat, NEW T, 0 \in T, \A i \in 1..n : i - 1 \in T => i \in T
  PROVE  0..n \subseteq T
<1> DEFINE U == {k \in Nat : k <= n => k \in T}
<1>1. U \in SUBSET Nat /\ 0 \in U
  OBVIOUS
<1>2. ASSUME NEW k \in U PROVE k + 1 \in U
  <2>1. CASE k + 1 <= n
    <3>1. k + 1 \in 1..n /\ (k + 1) - 1 = k /\ k \in T
      BY <2>1
    <3> QED
      BY <3>1
  <2> QED
    BY <2>1
<1> HIDE DEF U
<1>3. U = Nat
  BY <1>1, <1>2, Induct
<1> QED
  BY <1>3 DEF U

\* A state that steps G, one per element, take from a.
Steps(f, n, a, G) == f[0] = a /\ \A i \in 1..n : f[i] = G[i][f[i - 1]]

LEMMA Recursion ==
  ASSUME NEW n \in Nat, NEW S, NEW a \in S, NEW G \in [1..n -> [S -> S]]
  PROVE  \E f \in [0..n -> S] : Steps(f, n, a, G)
<1> USE DEF Steps
<1> DEFINE Good(f, k) == f[0] = a /\ \A i \in 1..k : f[i] = G[i][f[i - 1]]
           T == {k \in Nat : \E f \in [0..k -> S] : Good(f, k)}
<1>1. 0 \in T
  <2> DEFINE g == [i \in 0..0 |-> a]
  <2>1. g \in [0..0 -> S] /\ Good(g, 0)
    OBVIOUS
  <2> HIDE DEF g
  <2> QED
    BY <2>1
<1>2. ASSUME NEW k \in 1..n, k - 1 \in T PROVE k \in T
  <2>1. PICK f \in [0..(k - 1) -> S] : Good(f, k - 1)
    BY <1>2
  <2> DEFINE g == [i \in 0..k |-> IF i = k THEN G[k][f[k - 1]] ELSE f[i]]
  <2>2. g \in [0..k -> S]
    <3>1. f[k - 1] \in S /\ G[k] \in [S -> S]
      OBVIOUS
    <3> QED
      BY <3>1
  <2>3. Good(g, k)
    BY <2>1
  <2> HIDE DEF g
  <2> QED
    BY <2>2, <2>3
<1> HIDE DEF T
<1>3. n \in T
  <2>1. \A k \in 1..n : k - 1 \in T => k \in T
    BY <1>2
  <2>2. 0..n \subseteq T
    BY <1>1, <2>1, InductTo
  <2> QED
    BY <2>2
<1> QED
  BY <1>3 DEF T
-----------------------------------------------------------------------------
(* The elements that are kept of a list.                                    *)

\* s has those of the first n elements of list whose places are in ks; pos says where each was.
Places(pos, s, list, ks, n) ==
  /\ pos \in [1..Len(s) -> 1..n]
  /\ \A i, j \in 1..Len(s) : i < j => pos[i] < pos[j]
  /\ \A i \in 1..Len(s) : s[i] = list[pos[i]] /\ pos[i] \in ks
  /\ \A k \in 1..n : k \in ks => \E i \in 1..Len(s) : pos[i] = k
Picks(s, list, ks, n) == \E pos : Places(pos, s, list, ks, n)

LEMMA PicksNext ==
  ASSUME NEW S, NEW list \in Seq(S), NEW ks, NEW n \in 1..Len(list),
         NEW s \in Seq(S), Picks(s, list, ks, n - 1)
  PROVE  Picks(IF n \in ks THEN Append(s, list[n]) ELSE s, list, ks, n)
<1>1. PICK pos : Places(pos, s, list, ks, n - 1)
  BY DEF Picks
<1>2. Len(list) \in Nat /\ n \in Nat /\ Len(s) \in Nat /\ list[n] \in S
  BY LenProperties, ElementOfSeq
<1>3. 1..n = 1..(n - 1) \cup {n} /\ n \notin 1..(n - 1)
  BY <1>2
<1>4. CASE n \notin ks
  <2>1. Places(pos, s, list, ks, n)
    BY <1>1, <1>3, <1>4 DEF Places
  <2> QED
    BY <1>4, <2>1 DEF Picks
<1>5. CASE n \in ks
  <2> DEFINE t == Append(s, list[n])
             m == Len(s) + 1
             new == [i \in 1..m |-> IF i = m THEN n ELSE pos[i]]
  <2>1. /\ Len(t) = m /\ t[m] = list[n] /\ \A i \in 1..Len(s) : t[i] = s[i]
        /\ 1..m = 1..Len(s) \cup {m} /\ m \notin 1..Len(s) /\ m \in Nat
    BY <1>2, AppendProperties
  <2>2. /\ pos \in [1..Len(s) -> 1..(n - 1)]
        /\ \A i, j \in 1..Len(s) : i < j => pos[i] < pos[j]
        /\ \A i \in 1..Len(s) : s[i] = list[pos[i]] /\ pos[i] \in ks
        /\ \A k \in 1..(n - 1) : k \in ks => \E i \in 1..Len(s) : pos[i] = k
    BY <1>1 DEF Places
  <2> HIDE DEF t
  <2>3. new \in [1..m -> 1..n]
    BY <1>3, <2>1, <2>2
  <2>4. new[m] = n /\ \A i \in 1..Len(s) : new[i] = pos[i] /\ new[i] < n
    BY <1>2, <2>1, <2>2
  <2> HIDE DEF new
  <2>5. \A i, j \in 1..m : i < j => new[i] < new[j]
    <3> SUFFICES ASSUME NEW i \in 1..m, NEW j \in 1..m, i < j PROVE new[i] < new[j]
      OBVIOUS
    <3>1. i \in 1..Len(s)
      BY <1>2
    <3> QED
      BY <2>1, <2>2, <2>4, <3>1
  <2>6. \A i \in 1..m : t[i] = list[new[i]] /\ new[i] \in ks
    BY <1>5, <2>1, <2>2, <2>4
  <2>7. \A k \in 1..n : k \in ks => \E i \in 1..m : new[i] = k
    BY <1>3, <2>1, <2>2, <2>4
  <2>8. Places(new, t, list, ks, n)
    BY <2>1, <2>3, <2>5, <2>6, <2>7 DEF Places
  <2> QED
    BY <1>5, <2>8 DEF Picks, t
<1> QED
  BY <1>4, <1>5

LEMMA KeptIs ==
  ASSUME NEW S, NEW list \in Seq(S), NEW ks
  PROVE  Kept(list, ks) \in Seq(S) /\ Picks(Kept(list, ks), list, ks, Len(list))
<1> DEFINE n == Len(list)
           Q == Seq(S)
           G == [k \in 1..n |-> [s \in Q |-> IF k \in ks THEN Append(s, list[k]) ELSE s]]
           R(f) == f = [k \in 0..n |-> IF k = 0 THEN <<>>
                          ELSE IF k \in ks THEN Append(f[k - 1], list[k]) ELSE f[k - 1]]
           kept == CHOOSE f : R(f)
<1>1. n \in Nat /\ \A i \in 1..n : list[i] \in S
  BY LenProperties, ElementOfSeq
<1>2. G \in [1..n -> [Q -> Q]]
  BY <1>1
<1>3. \E f : R(f)
  <2>0. <<>> \in Q
    OBVIOUS
  <2>1. PICK f \in [0..n -> Q] : Steps(f, n, <<>>, G)
    <3> HIDE DEF G, Q, n
    <3> QED
      BY <1>1, <1>2, <2>0, Recursion
  <2> HIDE DEF n
  <2>2. f[0] = <<>> /\ \A i \in 1..n : f[i] = G[i][f[i - 1]]
    BY <2>1 DEF Steps
  <2>3. ASSUME NEW k \in 0..n
        PROVE  f[k] = IF k = 0 THEN <<>>
                      ELSE IF k \in ks THEN Append(f[k - 1], list[k]) ELSE f[k - 1]
    <3>1. CASE k = 0
      BY <2>2, <3>1
    <3>2. CASE k # 0
      <4>1. k \in 1..n /\ f[k - 1] \in Q
        BY <1>1, <3>2
      <4>2. f[k] = G[k][f[k - 1]]
        <5> HIDE DEF G
        <5> QED
          BY <2>2, <4>1
      <4> QED
        BY <3>2, <4>1, <4>2
    <3> QED
      BY <3>1, <3>2
  <2>4. f = [k \in 0..n |-> f[k]]
    OBVIOUS
  <2>5. R(f)
    <3> HIDE DEF G
    <3> QED
      BY <2>3, <2>4, Zenon
  <2> QED
    BY <2>5
<1>4. R(kept)
  BY <1>3
<1>5. Kept(list, ks) = kept[n]
  BY DEF Kept
<1> HIDE DEF kept
<1>6. kept[0] = <<>>
  BY <1>1, <1>4
<1>7. ASSUME NEW k \in 1..n
      PROVE  kept[k] = IF k \in ks THEN Append(kept[k - 1], list[k]) ELSE kept[k - 1]
  <2>1. k \in 0..n /\ k # 0
    BY <1>1
  <2> HIDE DEF n
  <2> QED
    BY <1>4, <2>1
<1> DEFINE T == {k \in 0..n : kept[k] \in Seq(S) /\ Picks(kept[k], list, ks, k)}
<1>8. 0 \in T
  <2>1. <<>> \in Seq(S) /\ 1..0 = {} /\ Len(<<>>) = 0
    OBVIOUS
  <2>2. Places([i \in {} |-> 0], <<>>, list, ks, 0)
    BY <2>1 DEF Places
  <2>3. Picks(kept[0], list, ks, 0)
    BY <1>6, <2>2 DEF Picks
  <2>4. kept[0] \in Seq(S) /\ 0 \in 0..n
    BY <1>1, <1>6, <2>1
  <2> HIDE DEF n
  <2> QED
    BY <2>3, <2>4
<1>9. ASSUME NEW k \in 1..n, k - 1 \in T PROVE k \in T
  <2>1. kept[k - 1] \in Seq(S) /\ Picks(kept[k - 1], list, ks, k - 1)
    BY <1>9
  <2>2. Picks(IF k \in ks THEN Append(kept[k - 1], list[k]) ELSE kept[k - 1], list, ks, k)
    BY <2>1, PicksNext
  <2>3. kept[k] \in Seq(S)
    <3>1. Append(kept[k - 1], list[k]) \in Seq(S)
      BY <1>1, <2>1, AppendProperties
    <3> QED
      BY <1>7, <2>1, <3>1
  <2> QED
    BY <1>1, <1>7, <2>2, <2>3
<1> HIDE DEF T
<1>10. n \in T
  <2>1. \A k \in 1..n : k - 1 \in T => k \in T
    BY <1>9
  <2>2. 0..n \subseteq T
    <3> HIDE DEF n
    <3> QED
      BY <1>1, <1>8, <2>1, InductTo
  <2> QED
    BY <1>1, <2>2
<1> QED
  BY <1>5, <1>10 DEF T

-----------------------------------------------------------------------------
(* Places in a list.                                                        *)

LEMMA LeastIs ==
  ASSUME NEW T \in SUBSET Nat, T # {}
  PROVE  LET j == CHOOSE j \in T : \A n \in T : j <= n IN j \in T /\ \A n \in T : j <= n
BY Least

LEMMA FoundIs ==
  ASSUME NEW S, NEW list \in Seq(S), NEW id
  PROVE  /\ Found(list, id) \in 0..Len(list)
         /\ Found(list, id) # 0 => Matches(list[Found(list, id)], id)
         /\ Found(list, id) = 0 => \A k \in 1..Len(list) : ~Matches(list[k], id)
<1> DEFINE at == {i \in DOMAIN list : Matches(list[i], id)}
<1>1. DOMAIN list = 1..Len(list) /\ Len(list) \in Nat
  BY LenProperties
<1>2. at \in SUBSET (1..Len(list)) /\ at \in SUBSET Nat
  BY <1>1
<1>3. CASE at = {}
  <2>1. Found(list, id) = 0
    BY <1>3 DEF Found
  <2> QED
    BY <1>1, <1>3, <2>1
<1>4. CASE at # {}
  <2> DEFINE k == CHOOSE i \in at : \A j \in at : i <= j
  <2>1. Found(list, id) = k
    BY <1>4 DEF Found
  <2>2. k \in at
    <3> HIDE DEF at
    <3> QED
      BY <1>2, <1>4, LeastIs
  <2> HIDE DEF k
  <2> QED
    BY <1>1, <2>1, <2>2
<1> QED
  BY <1>3, <1>4

LEMMA WithoutOne ==
  ASSUME NEW S, NEW s \in Seq(S), NEW p \in 1..Len(s)
  PROVE  /\ RemoveAt(s, p) \in Seq(S) /\ Len(RemoveAt(s, p)) = Len(s) - 1
         /\ \A i \in 1..(Len(s) - 1) : RemoveAt(s, p)[i] = IF i < p THEN s[i] ELSE s[i + 1]
<1> DEFINE a == SubSeq(s, 1, p - 1)
           b == SubSeq(s, p + 1, Len(s))
<1>1. Len(s) \in Nat /\ p \in Nat
  BY LenProperties
<1>2. /\ a \in Seq(S) /\ Len(a) = p - 1
      /\ \A i \in 1..(p - 1) : a[i] = s[i]
  BY <1>1, SubSeqProperties
<1>3. /\ b \in Seq(S) /\ Len(b) = Len(s) - p
      /\ \A i \in 1..(Len(s) - p) : b[i] = s[p + i]
  BY <1>1, SubSeqProperties
<1>4. RemoveAt(s, p) = a \o b
  BY DEF RemoveAt
<1> HIDE DEF a, b
<1>5. /\ a \o b \in Seq(S) /\ Len(a \o b) = Len(a) + Len(b)
      /\ \A i \in 1..(Len(a) + Len(b)) : (a \o b)[i] = IF i <= Len(a) THEN a[i] ELSE b[i - Len(a)]
  BY <1>2, <1>3, ConcatProperties
<1>6. ASSUME NEW i \in 1..(Len(s) - 1)
      PROVE  (a \o b)[i] = IF i < p THEN s[i] ELSE s[i + 1]
  <2>1. CASE i < p
    BY <1>1, <1>2, <1>3, <1>5, <2>1
  <2>2. CASE i >= p
    <3> DEFINE k == i - (p - 1)
    <3>1. k \in 1..(Len(s) - p) /\ p + k = i + 1
      BY <1>1, <2>2
    <3>2. b[k] = s[i + 1]
      BY <1>3, <3>1
    <3>3. i \in 1..(Len(a) + Len(b)) /\ ~(i <= Len(a)) /\ i - Len(a) = k /\ ~(i < p)
      BY <1>1, <1>2, <1>3, <2>2
    <3> QED
      BY <1>5, <3>2, <3>3
  <2>3. i < p \/ i >= p
    BY <1>1
  <2> QED
    BY <2>1, <2>2, <2>3
<1>7. Len(a \o b) = Len(s) - 1
  BY <1>1, <1>2, <1>3, <1>5
<1> QED
  BY <1>4, <1>5, <1>6, <1>7

LEMMA Pushed ==
  ASSUME NEW S, NEW s \in Seq(S), NEW f \in S
  PROVE  /\ <<f>> \o s \in Seq(S) /\ Len(<<f>> \o s) = Len(s) + 1
         /\ \A i \in 1..(Len(s) + 1) : (<<f>> \o s)[i] = IF i = 1 THEN f ELSE s[i - 1]
<1>1. <<f>> \in Seq(S) /\ Len(<<f>>) = 1 /\ <<f>>[1] = f
  OBVIOUS
<1>2. Len(s) \in Nat
  BY LenProperties
<1>3. /\ <<f>> \o s \in Seq(S) /\ Len(<<f>> \o s) = 1 + Len(s)
      /\ \A i \in 1..(1 + Len(s)) : (<<f>> \o s)[i] = IF i <= 1 THEN <<f>>[i] ELSE s[i - 1]
  BY <1>1, ConcatProperties
<1> QED
  BY <1>1, <1>2, <1>3

LEMMA Popped ==
  ASSUME NEW S, NEW s \in Seq(S), s # <<>>
  PROVE  /\ Tail(s) \in Seq(S) /\ Len(s) \in Nat \ {0} /\ Len(Tail(s)) = Len(s) - 1
         /\ Head(s) \in S /\ Head(s) = s[1]
         /\ \A i \in 1..(Len(s) - 1) : Tail(s)[i] = s[i + 1]
<1>1. Len(s) \in Nat \ {0}
  BY LenProperties, EmptySeq
<1>2. /\ Tail(s) \in Seq(S) /\ Len(Tail(s)) = Len(s) - 1 /\ Head(s) \in S /\ Head(s) = s[1]
      /\ \A i \in 1..Len(Tail(s)) : Tail(s)[i] = s[i + 1]
  BY HeadTailProperties
<1> QED
  BY <1>1, <1>2

LEMMA Replaced ==
  ASSUME NEW S, NEW s \in Seq(S), s # <<>>, NEW f \in S
  PROVE  /\ <<f>> \o Tail(s) \in Seq(S) /\ Len(<<f>> \o Tail(s)) = Len(s)
         /\ \A i \in 1..Len(s) : (<<f>> \o Tail(s))[i] = IF i = 1 THEN f ELSE s[i]
<1> DEFINE t == Tail(s)
<1>1. /\ t \in Seq(S) /\ Len(s) \in Nat \ {0} /\ Len(t) = Len(s) - 1
      /\ \A i \in 1..(Len(s) - 1) : t[i] = s[i + 1]
  BY Popped
<1> HIDE DEF t
<1>2. /\ <<f>> \o t \in Seq(S) /\ Len(<<f>> \o t) = Len(t) + 1
      /\ \A i \in 1..(Len(t) + 1) : (<<f>> \o t)[i] = IF i = 1 THEN f ELSE t[i - 1]
  BY <1>1, Pushed
<1>3. ASSUME NEW i \in 1..Len(s) PROVE (<<f>> \o t)[i] = IF i = 1 THEN f ELSE s[i]
  <2>1. i \in 1..(Len(t) + 1)
    BY <1>1
  <2>2. CASE i = 1
    BY <1>2, <2>1, <2>2
  <2>3. CASE i # 1
    <3>1. i - 1 \in 1..(Len(s) - 1) /\ (i - 1) + 1 = i
      BY <1>1, <2>3
    <3> QED
      BY <1>1, <1>2, <2>1, <2>3, <3>1
  <2> QED
    BY <2>2, <2>3
<1>4. Len(<<f>> \o t) = Len(s)
  BY <1>1, <1>2
<1> QED
  BY <1>2, <1>3, <1>4 DEF t

-----------------------------------------------------------------------------
(* Types.                                                                   *)

Typed ==
  /\ window \in [Windows -> {"unborn", "alive", "dead"}]
  /\ icons \in Seq(Icon) /\ registered \in SUBSET Lsn
  /\ life \in [Lsn -> {"off", "starting", "asking", "on"}]
  /\ shown \in [Lsn -> Seq(Copy)] /\ inbox \in [Lsn -> Seq(Msg)]
  /\ stack \in Seq(Frame) /\ asks \in 0..MaxAsks

\* Only deleteIcon and SendSystemTray have iterators, and only one of them at a time.
\* Whoever is called inside another call is so while that waits for a thread.
Waiting(f) == f.todo # <<>> /\ Head(f.todo) \in Threaded
Iterators(st, n) ==
  /\ \A i \in 1..Len(st) : st[i].it \in (IF st[i].op = "notify" THEN {0} ELSE 1..n)
  /\ \A i, j \in 1..Len(st) : st[i].op # "notify" /\ st[j].op # "notify" => i = j
  /\ \A i \in 1..Len(st) : (i > 1 => st[i].sent) /\ (st[i].sent => Waiting(st[i]))
TypeInv == Typed /\ Iterators(stack, Len(icons))

States == {"plain", "hidden", "shared"}

LEMMA Lengths ==
  ASSUME Typed
  PROVE  /\ Len(icons) \in Nat /\ Len(stack) \in Nat
         /\ DOMAIN icons = 1..Len(icons) /\ DOMAIN stack = 1..Len(stack)
         /\ \A l \in Lsn : Len(inbox[l]) \in Nat /\ Len(shown[l]) \in Nat
BY LenProperties DEF Typed

LEMMA Named ==
  ASSUME NEW id \in Identities \cup Aliases
  PROVE  id.win \in Windows /\ id.guid \in Guids
BY TrayAssumption DEF Guids

LEMMA UpdateIs ==
  ASSUME NEW i \in Icon, NEW state \in States \cup {None}, NEW icon \in Maybe \cup {"keep"}
  PROVE  /\ Update(i, state, icon) \in Icon
         /\ Update(i, state, icon).win = i.win /\ Update(i, state, icon).guid = i.guid
         /\ Update(i, state, icon).version = i.version
<1> DEFINE new == IF state = None THEN i.state ELSE state
           ic  == IF icon = "keep" THEN i.icon
                  ELSE IF (new = "shared" /\ icon # None) /\ \A j \in DOMAIN icons : icons[j].icon # icon
                       THEN i.icon ELSE icon
<1>1. new \in States /\ ic \in Maybe
  BY DEF Icon, States
<1>2. Update(i, state, icon) = [[i EXCEPT !.state = new] EXCEPT !.icon = ic]
  BY DEF Update
<1> HIDE DEF new, ic
<1> QED
  BY <1>1, <1>2 DEF Icon, States

LEMMA Handling ==
  ASSUME NEW list \in Seq(Copy), NEW m \in Msg
  PROVE  Handled(list, m) \in Seq(Copy)
<1> DEFINE k == Found(list, m)
<1>1. k \in 0..Len(list) /\ Len(list) \in Nat /\ m.icon \in Maybe
  BY FoundIs, LenProperties DEF Msg
<1>2. Handled(list, m) =
        CASE m.nim = "add" /\ k = 0 ->
               Append(list, [win |-> m.win, guid |-> m.guid, icon |-> m.icon, version |-> 0])
          [] m.nim = "modify" /\ k # 0 /\ m.icon # None -> [list EXCEPT ![k].icon = m.icon]
          [] m.nim = "delete" /\ k # 0 -> RemoveAt(list, k)
          [] m.nim = "version" /\ k # 0 -> [list EXCEPT ![k].version = Version4]
          [] OTHER -> list
  BY DEF Handled
<1> HIDE DEF k
<1>3. [win |-> m.win, guid |-> m.guid, icon |-> m.icon, version |-> 0] \in Copy
  BY DEF Msg, Copy
<1>4. Append(list, [win |-> m.win, guid |-> m.guid, icon |-> m.icon, version |-> 0]) \in Seq(Copy)
  BY <1>3, AppendProperties
<1>5. ASSUME k # 0 PROVE k \in 1..Len(list) /\ list[k] \in Copy /\ RemoveAt(list, k) \in Seq(Copy)
  BY <1>1, <1>5, ElementOfSeq, WithoutOne
<1>6. ASSUME k # 0 PROVE [list EXCEPT ![k].icon = m.icon] \in Seq(Copy)
  <2>1. [list[k] EXCEPT !.icon = m.icon] \in Copy
    BY <1>1, <1>5, <1>6 DEF Copy
  <2> QED
    BY <1>5, <1>6, <2>1, ExceptSeq
<1>7. ASSUME k # 0 PROVE [list EXCEPT ![k].version = Version4] \in Seq(Copy)
  <2>1. [list[k] EXCEPT !.version = Version4] \in Copy
    BY <1>5, <1>7 DEF Copy, Version4
  <2> QED
    BY <1>5, <1>7, <2>1, ExceptSeq
<1> QED
  BY <1>2, <1>4, <1>5, <1>6, <1>7

LEMMA Messages ==
  ASSUME NEW i \in Icon \cup Copy, NEW id, id.guid \in Guids
  PROVE  /\ AddOf(i) \in Msg /\ i.win \in Windows
         /\ \A ic : ModifyOf(i, id, ic) \in Msg
         /\ KeyOf("delete", i, id) \in Msg /\ VersionOf(i) \in Msg
BY DEF AddOf, ModifyOf, KeyOf, VersionOf, Msg, Icon, Copy, Maybe, Guids

LEMMA Told ==
  ASSUME Typed
  PROVE  Targets \in Seq(Lsn)
BY KeptIs, TrayAssumption DEF Targets

LEMMA Calls ==
  ASSUME Typed, NEW op \in {"notify", "delete", "resend"}, NEW it \in Nat, NEW msg \in Msg,
         NEW l \in Lsn \cup {None}
  PROVE  Call(op, it, msg, l) \in Frame
BY Told DEF Call, Frame

\* The calls below the innermost one.
LEMMA Below ==
  ASSUME Typed, stack # <<>>
  PROVE  Top \in Frame /\ Top = stack[1] /\ 1 \in 1..Len(stack)
BY Popped DEF Typed, Top

LEMMA ItersPushed ==
  ASSUME TypeInv, NEW n \in Nat, NEW f \in Frame, ~f.sent, stack = <<>> \/ Waits,
         \/ f.op = "notify" /\ f.it = 0 /\ (n = Len(icons) \/ ~Iterates)
         \/ f.op # "notify" /\ f.it \in 1..n /\ ~Iterates
  PROVE  <<f>> \o stack \in Seq(Frame) /\ Iterators(<<f>> \o stack, n)
<1> DEFINE st == <<f>> \o stack
<1>1. /\ st \in Seq(Frame) /\ Len(st) = Len(stack) + 1 /\ Len(stack) \in Nat
      /\ \A i \in 1..(Len(stack) + 1) : st[i] = IF i = 1 THEN f ELSE stack[i - 1]
  BY Pushed, Lengths DEF TypeInv, Typed
<1> HIDE DEF st
<1>2. ASSUME ~Iterates, NEW i \in 1..Len(stack) PROVE stack[i].op = "notify"
  <2>1. stack[i] \in Frame /\ i \in DOMAIN stack
    BY ElementOfSeq, Lengths DEF TypeInv, Typed
  <2> QED
    BY <1>2, <2>1 DEF Iterates, Frame
<1>3. ASSUME NEW i \in 1..Len(st)
      PROVE  st[i].it \in (IF st[i].op = "notify" THEN {0} ELSE 1..n)
  <2>1. CASE i = 1
    BY <1>1, <2>1
  <2>2. CASE i # 1
    <3>1. i - 1 \in 1..Len(stack) /\ st[i] = stack[i - 1]
      BY <1>1, <2>2
    <3>2. stack[i - 1].it \in (IF stack[i - 1].op = "notify" THEN {0} ELSE 1..Len(icons))
      BY <3>1 DEF TypeInv, Iterators
    <3> QED
      BY <1>2, <3>1, <3>2
  <2> QED
    BY <2>1, <2>2
<1>4. ASSUME NEW i \in 1..Len(st), NEW j \in 1..Len(st), st[i].op # "notify", st[j].op # "notify"
      PROVE  i = j
  <2>1. ASSUME NEW k \in 1..Len(st), k # 1 PROVE k - 1 \in 1..Len(stack) /\ st[k] = stack[k - 1]
    BY <1>1, <2>1
  <2>2. CASE i # 1 /\ j # 1
    <3>1. i - 1 \in 1..Len(stack) /\ j - 1 \in 1..Len(stack)
      BY <2>1, <2>2
    <3>2. stack[i - 1].op # "notify" /\ stack[j - 1].op # "notify"
      BY <1>4, <2>1, <2>2
    <3>3. \A a, b \in 1..Len(stack) : stack[a].op # "notify" /\ stack[b].op # "notify" => a = b
      BY DEF TypeInv, Iterators
    <3>4. i - 1 = j - 1
      BY <3>1, <3>2, <3>3
    <3> QED
      BY <1>1, <3>4
  <2>3. CASE i = 1 /\ j # 1
    BY <1>1, <1>2, <1>4, <2>1, <2>3
  <2>4. CASE i # 1 /\ j = 1
    BY <1>1, <1>2, <1>4, <2>1, <2>4
  <2> QED
    BY <2>2, <2>3, <2>4
<1>5. ASSUME NEW i \in 1..Len(st)
      PROVE  (i > 1 => st[i].sent) /\ (st[i].sent => Waiting(st[i]))
  <2>1. CASE i = 1
    BY <1>1, <2>1
  <2>2. CASE i # 1
    <3>1. i - 1 \in 1..Len(stack) /\ st[i] = stack[i - 1]
      BY <1>1, <2>2
    <3>2. stack # <<>>
      BY <1>1, <3>1
    <3>3. stack[1].sent
      BY <3>2, Below DEF Waits, TypeInv
    <3>4. stack[i - 1].sent /\ Waiting(stack[i - 1])
      BY <3>1, <3>3 DEF TypeInv, Iterators
    <3> QED
      BY <3>1, <3>4
  <2> QED
    BY <2>1, <2>2
<1> QED
  BY <1>1, <1>3, <1>4, <1>5 DEF Iterators, st

LEMMA ItersReplaced ==
  ASSUME TypeInv, stack # <<>>, NEW f \in Frame, f.op = Top.op,
         f.it \in (IF f.op = "notify" THEN {0} ELSE 1..Len(icons)), f.sent => Waiting(f)
  PROVE  <<f>> \o Tail(stack) \in Seq(Frame) /\ Iterators(<<f>> \o Tail(stack), Len(icons))
<1> DEFINE st == <<f>> \o Tail(stack)
<1>1. /\ st \in Seq(Frame) /\ Len(st) = Len(stack) /\ Top = stack[1]
      /\ \A i \in 1..Len(stack) : st[i] = IF i = 1 THEN f ELSE stack[i]
  BY Replaced, Below DEF TypeInv, Typed
<1> HIDE DEF st
<1>2. \A i \in 1..Len(st) : st[i].op = stack[i].op
  BY <1>1
<1>3. \A i \in 1..Len(st) : (i > 1 => st[i].sent) /\ (st[i].sent => Waiting(st[i]))
  BY <1>1 DEF Iterators, TypeInv
<1> QED
  BY <1>1, <1>2, <1>3 DEF Iterators, TypeInv, st

LEMMA ItersPopped ==
  ASSUME TypeInv, stack # <<>>, NEW n \in Nat, n = Len(icons) \/ Top.op # "notify"
  PROVE  Tail(stack) \in Seq(Frame) /\ Iterators(Tail(stack), n)
<1> DEFINE st == Tail(stack)
<1>1. /\ st \in Seq(Frame) /\ Len(st) = Len(stack) - 1 /\ Top = stack[1] /\ Len(stack) \in Nat \ {0}
      /\ \A i \in 1..(Len(stack) - 1) : st[i] = stack[i + 1]
  BY Popped, Below DEF TypeInv, Typed
<1> HIDE DEF st
<1>2. ASSUME NEW i \in 1..Len(st)
      PROVE  i + 1 \in 1..Len(stack) /\ st[i] = stack[i + 1] /\ i + 1 # 1 /\ i \in Nat
  BY <1>1
<1>3. ASSUME NEW i \in 1..Len(st)
      PROVE  st[i].it \in (IF st[i].op = "notify" THEN {0} ELSE 1..n)
  <2>1. stack[i + 1].it \in (IF stack[i + 1].op = "notify" THEN {0} ELSE 1..Len(icons))
    BY <1>2 DEF TypeInv, Iterators
  <2>2. Top.op # "notify" => stack[i + 1].op = "notify"
    BY <1>1, <1>2 DEF TypeInv, Iterators
  <2> QED
    BY <1>2, <2>1, <2>2
<1>4. ASSUME NEW i \in 1..Len(st), NEW j \in 1..Len(st), st[i].op # "notify", st[j].op # "notify"
      PROVE  i = j
  <2>1. \A a, b \in 1..Len(stack) : stack[a].op # "notify" /\ stack[b].op # "notify" => a = b
    BY DEF TypeInv, Iterators
  <2>2. i + 1 = j + 1
    BY <1>2, <1>4, <2>1
  <2> QED
    BY <1>2, <2>2
<1>5. ASSUME NEW i \in 1..Len(st)
      PROVE  (i > 1 => st[i].sent) /\ (st[i].sent => Waiting(st[i]))
  <2>1. i + 1 > 1
    BY <1>2
  <2> QED
    BY <1>2, <2>1 DEF TypeInv, Iterators
<1> QED
  BY <1>1, <1>3, <1>4, <1>5 DEF Iterators, st

\* A call that has another message or fewer listeners.
LEMMA SameFrame ==
  ASSUME Typed, stack # <<>>, Top.todo # <<>>, NEW sent \in BOOLEAN
  PROVE  /\ [Top EXCEPT !.todo = Tail(@)] \in Frame
         /\ [Top EXCEPT !.sent = sent] \in Frame
         /\ [Top EXCEPT !.todo = Tail(@), !.sent = sent] \in Frame
         /\ Head(Top.todo) \in Lsn /\ Top.msg \in Msg
<1>1. Top \in Frame /\ Top.todo \in Seq(Lsn)
  BY Below DEF Frame
<1>2. Tail(Top.todo) \in Seq(Lsn) /\ Head(Top.todo) \in Lsn
  BY <1>1, Popped
<1> QED
  BY <1>1, <1>2 DEF Frame

LEMMA SameIters ==
  ASSUME TypeInv, stack # <<>>, Top.todo # <<>>,
         \/ Replace([Top EXCEPT !.todo = Tail(@)]) /\ ~Top.sent
         \/ Replace([Top EXCEPT !.sent = TRUE]) /\ Head(Top.todo) \in Threaded
         \/ Replace([Top EXCEPT !.todo = Tail(@), !.sent = FALSE])
  PROVE  stack' \in Seq(Frame) /\ Iterators(stack', Len(icons))
<1>1. PICK f : /\ stack' = <<f>> \o Tail(stack)
               /\ \/ f = [Top EXCEPT !.todo = Tail(@)] /\ ~Top.sent
                  \/ f = [Top EXCEPT !.sent = TRUE] /\ Head(Top.todo) \in Threaded
                  \/ f = [Top EXCEPT !.todo = Tail(@), !.sent = FALSE]
  BY DEF Replace
<1>2. f \in Frame /\ Top \in Frame
  BY <1>1, SameFrame, Below DEF TypeInv
<1>3. f.op = Top.op /\ f.it = Top.it /\ (f.sent => Waiting(f))
  BY <1>1, <1>2 DEF Frame, Waiting
<1>4. Top.it \in (IF Top.op = "notify" THEN {0} ELSE 1..Len(icons))
  BY Below DEF TypeInv, Iterators
<1> QED
  BY <1>1, <1>2, <1>3, <1>4, ItersReplaced

LEMMA SendTypes == ASSUME TypeInv, SendNext PROVE TypeInv'
<1> DEFINE l == Head(Top.todo)
<1>1. /\ stack # <<>> /\ Top.todo # <<>> /\ UNCHANGED <<window, icons, registered, life, asks>>
      /\ \/ Replace([Top EXCEPT !.todo = Tail(@)]) /\ ~Top.sent
         \/ Replace([Top EXCEPT !.sent = TRUE]) /\ l \in Threaded
      /\ \/ shown' = shown \/ shown' = [shown EXCEPT ![l] = Handled(@, Top.msg)]
      /\ \/ inbox' = inbox \/ inbox' = [inbox EXCEPT ![l] = Append(@, Top.msg)]
  BY DEF SendNext
<1>2. stack' \in Seq(Frame) /\ Iterators(stack', Len(icons))
  BY <1>1, SameIters
<1>3. l \in Lsn /\ Top.msg \in Msg
  BY <1>1, SameFrame DEF TypeInv
<1>4. Handled(shown[l], Top.msg) \in Seq(Copy) /\ Append(inbox[l], Top.msg) \in Seq(Msg)
  BY <1>3, Handling, AppendProperties DEF TypeInv, Typed
<1> HIDE DEF l
<1>5. shown' \in [Lsn -> Seq(Copy)] /\ inbox' \in [Lsn -> Seq(Msg)]
  BY <1>1, <1>3, <1>4 DEF TypeInv, Typed
<1> QED
  BY <1>1, <1>2, <1>5 DEF TypeInv, Typed

LEMMA HandleTypes == ASSUME TypeInv, NEW l \in Lsn, HandleSent(l) PROVE TypeInv'
<1>1. /\ inbox[l] # <<>> /\ UNCHANGED <<window, icons, registered, life, stack, asks>>
      /\ shown' = [shown EXCEPT ![l] = Handled(@, Head(inbox[l]))]
      /\ inbox' = [inbox EXCEPT ![l] = Tail(@)]
  BY DEF HandleSent
<1>2. Head(inbox[l]) \in Msg /\ Tail(inbox[l]) \in Seq(Msg)
  BY <1>1, Popped DEF TypeInv, Typed
<1>3. Handled(shown[l], Head(inbox[l])) \in Seq(Copy)
  BY <1>2, Handling DEF TypeInv, Typed
<1> QED
  BY <1>1, <1>2, <1>3 DEF TypeInv, Typed

LEMMA AnsweredTypes == ASSUME TypeInv, Answered PROVE TypeInv'
<1>1. stack # <<>> /\ Top.sent /\ Replace([Top EXCEPT !.todo = Tail(@), !.sent = FALSE])
      /\ UNCHANGED <<window, icons, registered, life, shown, inbox, asks>>
  BY DEF Answered
<1>2. Top.todo # <<>>
  BY <1>1, Below DEF TypeInv, Iterators, Waiting
<1> QED
  BY <1>1, <1>2, SameIters DEF TypeInv, Typed

\* A notification leaves all but the icons and the stack alone.
LEMMA AskTypes ==
  ASSUME TypeInv, NEW w, Asks(w), UNCHANGED <<window, registered, life, shown, inbox>>,
         icons' \in Seq(Icon), stack' \in Seq(Frame), Iterators(stack', Len(icons'))
  PROVE  TypeInv'
<1>1. asks' \in 0..MaxAsks
  BY TrayAssumption DEF Asks, TypeInv, Typed
<1> QED
  BY <1>1 DEF TypeInv, Typed

LEMMA NotifyCall ==
  ASSUME TypeInv, NEW n \in Nat, n = Len(icons) \/ ~Iterates, NEW msg \in Msg, stack = <<>> \/ Waits
  PROVE  LET st == <<Call("notify", 0, msg, None)>> \o stack
         IN  st \in Seq(Frame) /\ Iterators(st, n)
<1> DEFINE f == Call("notify", 0, msg, None)
<1>1. f \in Frame
  BY Calls DEF TypeInv
<1>2. f.op = "notify" /\ f.it = 0 /\ ~f.sent
  BY DEF Call
<1> HIDE DEF f
<1>3. <<f>> \o stack \in Seq(Frame) /\ Iterators(<<f>> \o stack, n)
  BY <1>1, <1>2, ItersPushed
<1> QED
  BY <1>3 DEF f

LEMMA AddTypes ==
  ASSUME TypeInv, NEW id \in Identities, NEW s \in {None, "hidden", "shared"}, NEW h \in Maybe,
         addIcon(id, s, h)
  PROVE  TypeInv'
<1> DEFINE new == [win |-> id.win, guid |-> id.guid, icon |-> None, state |-> "plain", version |-> 0]
           i   == Update(new, s, h)
<1>1. new \in Icon
  BY Named DEF Icon, Maybe
<1>2. i \in Icon
  <2> HIDE DEF new
  <2> QED
    BY <1>1, UpdateIs DEF States
<1>3. /\ Asks(id.win) /\ (stack = <<>> \/ (Waits /\ ~Iterates)) /\ icons' = Append(icons, i)
      /\ \/ stack' = <<Call("notify", 0, AddOf(i), None)>> \o stack
         \/ stack' = stack
      /\ UNCHANGED <<window, registered, life, shown, inbox>>
  BY DEF addIcon, Push, Free
<1> HIDE DEF i
<1>4. icons' \in Seq(Icon) /\ Len(icons') = Len(icons) + 1 /\ Len(icons') \in Nat
  BY <1>2, <1>3, AppendProperties, Lengths DEF TypeInv, Typed
<1>5. AddOf(i) \in Msg
  BY <1>2, Named, Messages
<1>6. ~Iterates
  BY <1>3, Lengths DEF Iterates, TypeInv
<1>7. CASE stack' = <<Call("notify", 0, AddOf(i), None)>> \o stack
  BY <1>3, <1>4, <1>5, <1>6, <1>7, NotifyCall, AskTypes
<1>8. CASE stack' = stack
  <2>1. Iterators(stack', Len(icons'))
    <3>1. \A j \in 1..Len(stack) : stack[j].op = "notify"
      <4> SUFFICES ASSUME NEW j \in 1..Len(stack) PROVE stack[j].op = "notify"
        OBVIOUS
      <4>1. stack[j] \in Frame /\ j \in DOMAIN stack
        BY ElementOfSeq, Lengths DEF TypeInv, Typed
      <4> QED
        BY <1>6, <4>1 DEF Iterates, Frame
    <3> QED
      BY <1>8, <3>1 DEF Iterators, TypeInv
  <2> QED
    BY <1>3, <1>4, <1>8, <2>1, AskTypes DEF TypeInv, Typed
<1> QED
  BY <1>3, <1>7, <1>8

LEMMA ModifyTypes ==
  ASSUME TypeInv, NEW id \in Identities \cup Aliases, NEW s \in {None, "plain", "hidden"},
         NEW h \in Maybe \cup {"keep"}, modifyIcon(id, s, h)
  PROVE  TypeInv'
<1> DEFINE k  == Found(icons, id)
           i  == Update(icons[k], s, h)
           ms == Modified(icons[k], i, id, h)
<1>1. /\ Asks(id.win) /\ (stack = <<>> \/ Waits) /\ k # 0 /\ icons' = [icons EXCEPT ![k] = i]
      /\ IF ms = <<>> THEN stack' = stack ELSE stack' = <<Call("notify", 0, ms[1], None)>> \o stack
      /\ UNCHANGED <<window, registered, life, shown, inbox>>
  BY DEF modifyIcon, Push, Free
<1>2. k \in 1..Len(icons) /\ icons[k] \in Icon
  BY <1>1, FoundIs, ElementOfSeq, Lengths DEF TypeInv, Typed
<1>3. i \in Icon
  <2> HIDE DEF k
  <2> QED
    BY <1>2, UpdateIs DEF States
<1>4. ms = <<>> \/ ms[1] \in Msg
  <2>1. ms = <<>> \/ ms[1] \in {ModifyOf(i, id, h), AddOf(i), KeyOf("delete", i, id)}
    BY DEF Modified
  <2> HIDE DEF i, ms
  <2> QED
    BY <1>3, <2>1, Named, Messages
<1> HIDE DEF k, i, ms
<1>5. icons' \in Seq(Icon) /\ Len(icons') = Len(icons) /\ Len(icons) \in Nat
  BY <1>1, <1>2, <1>3, ExceptSeq, Lengths DEF TypeInv, Typed
<1>6. CASE ms = <<>>
  BY <1>1, <1>5, <1>6, AskTypes DEF TypeInv, Typed
<1>7. CASE ms # <<>>
  BY <1>1, <1>4, <1>5, <1>7, NotifyCall, AskTypes
<1> QED
  BY <1>6, <1>7

LEMMA VersionTypes ==
  ASSUME TypeInv, NEW id \in Identities \cup Aliases, NEW v, setVersionIcon(id, v)
  PROVE  TypeInv'
<1>5. CASE v = 0
  <2>1. Asks(id.win) /\ UNCHANGED <<window, icons, registered, life, shown, inbox, stack>>
    BY <1>5 DEF setVersionIcon
  <2> QED
    BY <2>1, AskTypes DEF TypeInv, Typed
<1>6. SUFFICES ASSUME v # 0 PROVE TypeInv'
  BY <1>5
<1> DEFINE k == Found(icons, id)
<1>1. /\ Asks(id.win) /\ (stack = <<>> \/ Waits) /\ k # 0
      /\ icons' = [icons EXCEPT ![k].version = Version4]
      /\ stack' = <<Call("notify", 0, VersionOf(icons[k]), None)>> \o stack
      /\ UNCHANGED <<window, registered, life, shown, inbox>>
  BY <1>6 DEF setVersionIcon, Push, Free
<1>2. k \in 1..Len(icons) /\ icons[k] \in Icon
  BY <1>1, FoundIs, ElementOfSeq, Lengths DEF TypeInv, Typed
<1>3. [icons[k] EXCEPT !.version = Version4] \in Icon /\ VersionOf(icons[k]) \in Msg
  BY <1>2, Named, Messages DEF Icon, Version4
<1> HIDE DEF k
<1>4. icons' \in Seq(Icon) /\ Len(icons') = Len(icons) /\ Len(icons) \in Nat
  BY <1>1, <1>2, <1>3, ExceptSeq, Lengths DEF TypeInv, Typed
<1> QED
  BY <1>1, <1>3, <1>4, NotifyCall, AskTypes

LEMMA DeleteTypes ==
  ASSUME TypeInv, NEW id \in Identities \cup Aliases, deleteIcon(id)
  PROVE  TypeInv'
<1> DEFINE k == Found(icons, id)
           f == Call("delete", k, KeyOf("delete", icons[k], id), None)
<1>1. /\ Asks(id.win) /\ (stack = <<>> \/ (Waits /\ ~Iterates)) /\ k # 0
      /\ stack' = <<f>> \o stack
      /\ UNCHANGED <<window, icons, registered, life, shown, inbox>>
  BY DEF deleteIcon, Push, Free
<1>2. k \in 1..Len(icons) /\ icons[k] \in Icon /\ Len(icons) \in Nat
  BY <1>1, FoundIs, ElementOfSeq, Lengths DEF TypeInv, Typed
<1>3. KeyOf("delete", icons[k], id) \in Msg
  BY <1>2, Named, Messages
<1>4. ~Iterates
  BY <1>1, Lengths DEF Iterates, TypeInv
<1>5. f \in Frame
  <2> HIDE DEF k
  <2> QED
    BY <1>2, <1>3, Calls DEF TypeInv
<1>6. f.op = "delete" /\ f.it = k /\ ~f.sent
  BY DEF Call
<1> HIDE DEF f, k
<1>7. stack' \in Seq(Frame) /\ Iterators(stack', Len(icons'))
  BY <1>1, <1>2, <1>4, <1>5, <1>6, ItersPushed
<1> QED
  BY <1>1, <1>7, AskTypes DEF TypeInv, Typed

\* Where SendSystemTray goes on.
LEMMA NextValid ==
  ASSUME NEW T \in SUBSET (1..Len(icons)), Typed, T # {}
  PROVE  LET j == CHOOSE j \in T : \A n \in T : j <= n
         IN  j \in T /\ \A n \in T : j <= n
<1>1. T \in SUBSET Nat
  BY Lengths
<1> QED
  BY <1>1, LeastIs

LEMMA ResumeIs ==
  ASSUME Typed, NEW k \in Nat
  PROVE  \/ ValidAfter(k) = {} /\ Resume(k) = <<>>
         \/ \E j \in ValidAfter(k) : /\ j \in 1..Len(icons) /\ \A n \in ValidAfter(k) : j <= n
                                    /\ Resume(k) = <<Call("resend", j, AddOf(icons[j]), Top.for)>>
<1>1. ValidAfter(k) \in SUBSET (1..Len(icons))
  BY Lengths DEF ValidAfter
<1>2. CASE ValidAfter(k) = {}
  BY <1>2 DEF Resume
<1>3. CASE ValidAfter(k) # {}
  <2> DEFINE j == CHOOSE j \in ValidAfter(k) : \A n \in ValidAfter(k) : j <= n
  <2>1. Resume(k) = <<Call("resend", j, AddOf(icons[j]), Top.for)>>
    BY <1>3 DEF Resume
  <2>2. j \in ValidAfter(k) /\ \A n \in ValidAfter(k) : j <= n
    BY <1>1, <1>3, NextValid
  <2> HIDE DEF j
  <2> QED
    BY <1>1, <2>1, <2>2
<1> QED
  BY <1>2, <1>3

LEMMA ResendCall ==
  ASSUME TypeInv, stack # <<>>, Top.op = "resend", NEW k \in 1..Len(icons), NEW msg \in Msg
  PROVE  LET st == <<Call("resend", k, msg, Top.for)>> \o Tail(stack)
         IN  st \in Seq(Frame) /\ Iterators(st, Len(icons))
<1> DEFINE f == Call("resend", k, msg, Top.for)
<1>1. Top.for \in Lsn \cup {None} /\ k \in Nat
  BY Below, Lengths DEF TypeInv, Frame
<1>2. f \in Frame
  BY <1>1, Calls DEF TypeInv
<1>3. f.op = "resend" /\ f.it = k /\ ~f.sent
  BY DEF Call
<1> HIDE DEF f
<1>4. <<f>> \o Tail(stack) \in Seq(Frame) /\ Iterators(<<f>> \o Tail(stack), Len(icons))
  BY <1>2, <1>3, ItersReplaced
<1> QED
  BY <1>4 DEF f

LEMMA NotifiedTypes == ASSUME TypeInv, Notified PROVE TypeInv'
<1>1. /\ stack # <<>> /\ UNCHANGED <<window, registered, shown, inbox, asks>>
      /\ Top \in Frame /\ Top.it \in (IF Top.op = "notify" THEN {0} ELSE 1..Len(icons))
      /\ Len(icons) \in Nat
  BY Below, Lengths DEF Notified, TypeInv, Iterators
<1>2. Tail(stack) \in Seq(Frame) /\ Iterators(Tail(stack), Len(icons))
  BY <1>1, ItersPopped
<1>3. CASE Top.op = "notify" /\ stack' = Tail(stack) /\ UNCHANGED <<icons, life>>
  BY <1>1, <1>2, <1>3 DEF TypeInv, Typed
<1>4. CASE Top.op = "delete" /\ stack' = Tail(stack) /\ icons' = RemoveAt(icons, Top.it) /\ UNCHANGED life
  <2>1. icons' \in Seq(Icon) /\ Len(icons') \in Nat
    BY <1>1, <1>4, WithoutOne, LenProperties DEF TypeInv, Typed
  <2>2. Iterators(Tail(stack), Len(icons'))
    BY <1>1, <1>4, <2>1, ItersPopped
  <2> QED
    BY <1>1, <1>2, <1>4, <2>1, <2>2 DEF TypeInv, Typed
<1>5. CASE /\ Top.op = "resend" /\ UNCHANGED <<icons, life>>
           /\ Replace(Call("resend", Top.it, [Top.msg EXCEPT !.nim = "version", !.icon = None], Top.for))
  <2>1. [Top.msg EXCEPT !.nim = "version", !.icon = None] \in Msg
    BY <1>1 DEF Frame, Msg, Maybe
  <2> QED
    BY <1>1, <1>5, <2>1, ResendCall DEF Replace, TypeInv, Typed
<1>6. CASE /\ Top.op = "resend" /\ stack' = Resume(Top.it) \o Tail(stack) /\ UNCHANGED icons
           /\ life' = IF ValidAfter(Top.it) = {} THEN [life EXCEPT ![Top.for] = "on"] ELSE life
  <2>1. life' \in [Lsn -> {"off", "starting", "asking", "on"}]
    BY <1>6 DEF TypeInv, Typed
  <2>2. stack' \in Seq(Frame) /\ Iterators(stack', Len(icons))
    <3>1. CASE Resume(Top.it) = <<>>
      BY <1>2, <1>6, <3>1
    <3>2. CASE \E j \in 1..Len(icons) : Resume(Top.it) = <<Call("resend", j, AddOf(icons[j]), Top.for)>>
      <4>1. PICK j \in 1..Len(icons) : Resume(Top.it) = <<Call("resend", j, AddOf(icons[j]), Top.for)>>
        BY <3>2
      <4>2. AddOf(icons[j]) \in Msg
        <5>1. icons[j] \in Icon
          BY ElementOfSeq DEF TypeInv, Typed
        <5> QED
          BY <5>1 DEF AddOf, Msg, Icon
      <4> QED
        BY <1>1, <1>6, <4>1, <4>2, ResendCall
    <3> QED
      BY <1>1, <3>1, <3>2, ResumeIs DEF Frame, TypeInv
  <2> QED
    BY <1>1, <1>6, <2>1, <2>2 DEF TypeInv, Typed
<1> QED
  BY <1>3, <1>4, <1>5, <1>6 DEF Notified

LEMMA TrayTypes == ASSUME TypeInv, NEW l \in Lsn, SendSystemTray(l) PROVE TypeInv'
<1> DEFINE left  == Kept(icons, {k \in DOMAIN icons : window[icons[k].win] = "alive"})
           valid == {k \in DOMAIN left : Valid(left[k])}
           k     == CHOOSE k \in valid : \A n \in valid : k <= n
           f     == Call("resend", k, AddOf(left[k]), l)
<1>1. left \in Seq(Icon)
  BY KeptIs DEF TypeInv, Typed
<1>2. /\ life[l] = "starting" /\ (stack = <<>> \/ (Waits /\ ~Iterates)) /\ icons' = left
      /\ UNCHANGED <<window, registered, shown, inbox, asks>>
      /\ \/ valid = {} /\ life' = [life EXCEPT ![l] = "on"] /\ stack' = stack
         \/ valid # {} /\ stack' = <<f>> \o stack /\ life' = [life EXCEPT ![l] = "asking"]
  BY DEF SendSystemTray, Push
<1>3. life' \in [Lsn -> {"off", "starting", "asking", "on"}]
  BY <1>2 DEF TypeInv, Typed
<1>4. ~Iterates
  <2>1. stack = <<>> \/ ~Iterates
    BY <1>2
  <2> QED
    BY <2>1, Lengths DEF Iterates, TypeInv
<1> HIDE DEF left
<1>5. DOMAIN left = 1..Len(left) /\ Len(left) \in Nat
  BY <1>1, LenProperties
<1>6. CASE valid = {} /\ stack' = stack
  <2>1. \A j \in 1..Len(stack) : stack[j].op = "notify"
    <3> SUFFICES ASSUME NEW j \in 1..Len(stack) PROVE stack[j].op = "notify"
      OBVIOUS
    <3>1. stack[j] \in Frame /\ j \in DOMAIN stack
      BY ElementOfSeq, Lengths DEF TypeInv, Typed
    <3> QED
      BY <1>4, <3>1 DEF Iterates, Frame
  <2>2. Iterators(stack', Len(icons'))
    BY <1>6, <2>1 DEF Iterators, TypeInv
  <2> QED
    BY <1>1, <1>2, <1>3, <1>6, <2>2 DEF TypeInv, Typed
<1>7. CASE valid # {} /\ stack' = <<f>> \o stack
  <2>1. k \in valid
    <3>1. valid \in SUBSET Nat
      BY <1>5
    <3> HIDE DEF valid
    <3> QED
      BY <1>7, <3>1, LeastIs
  <2>2. k \in 1..Len(left) /\ left[k] \in Icon
    <3> HIDE DEF k
    <3> QED
      BY <1>1, <1>5, <2>1, ElementOfSeq
  <2> HIDE DEF k
  <2>3. AddOf(left[k]) \in Msg
    BY <2>2 DEF AddOf, Msg, Icon
  <2>4. f \in Frame
    BY <1>5, <2>2, <2>3, Calls DEF TypeInv
  <2>5. f.op = "resend" /\ f.it = k /\ ~f.sent
    BY DEF Call
  <2> HIDE DEF f
  <2>6. stack' \in Seq(Frame) /\ Iterators(stack', Len(icons'))
    BY <1>2, <1>4, <1>5, <1>7, <2>2, <2>4, <2>5, ItersPushed
  <2> QED
    BY <1>1, <1>2, <1>3, <2>6 DEF TypeInv, Typed
<1> QED
  BY <1>2, <1>6, <1>7

LEMMA LifeTypes ==
  ASSUME TypeInv, NEW l \in Lsn, Register(l) \/ Unregister(l) \/ MouseOverDead(l)
  PROVE  TypeInv'
<1>1. CASE Register(l)
  BY <1>1 DEF Register, TypeInv, Typed
<1>2. CASE Unregister(l)
  BY <1>2 DEF Unregister, TypeInv, Typed
<1>3. CASE MouseOverDead(l)
  <2>1. PICK k \in DOMAIN shown[l] :
          shown' = [shown EXCEPT ![l] = Handled(shown[l], KeyOf("delete", shown[l][k], shown[l][k]))]
    BY <1>3 DEF MouseOverDead, TypeInv, Typed
  <2>2. shown[l] \in Seq(Copy) /\ shown[l][k] \in Copy
    BY <2>1, LenProperties, ElementOfSeq DEF TypeInv, Typed
  <2>3. KeyOf("delete", shown[l][k], shown[l][k]) \in Msg
    BY <2>2, Messages DEF Copy
  <2>4. shown' \in [Lsn -> Seq(Copy)]
    BY <2>1, <2>2, <2>3, Handling DEF TypeInv, Typed
  <2> QED
    BY <1>3, <2>4 DEF MouseOverDead, TypeInv, Typed
<1> QED
  BY <1>1, <1>2, <1>3

LEMMA StepTypes == TypeInv /\ [Next]_vars => TypeInv'
<1> SUFFICES ASSUME TypeInv, [Next]_vars PROVE TypeInv'
  OBVIOUS
<1>1. CASE HandleNotification
  <2>1. CASE \E id \in Identities, s \in {None, "hidden", "shared"}, h \in Maybe : addIcon(id, s, h)
    BY <2>1, AddTypes
  <2>2. CASE \E id \in Identities \cup Aliases :
               \E s \in {None, "plain", "hidden"}, h \in Maybe \cup {"keep"} : modifyIcon(id, s, h)
    BY <2>2, ModifyTypes
  <2>3. CASE \E id \in Identities \cup Aliases :
               deleteIcon(id) \/ \E v \in {0, VersionAsked} : setVersionIcon(id, v)
    BY <2>3, DeleteTypes, VersionTypes
  <2> QED
    BY <1>1, <2>1, <2>2, <2>3 DEF HandleNotification
<1>2. CASE SendNext \/ Answered \/ Notified
  BY <1>2, SendTypes, AnsweredTypes, NotifiedTypes
<1>3. CASE \E l \in Lsn : HandleSent(l) \/ Register(l) \/ SendSystemTray(l) \/ Unregister(l)
                         \/ MouseOverDead(l)
  BY <1>3, HandleTypes, TrayTypes, LifeTypes
<1>4. CASE \E w \in Windows : WindowChanges(w)
  BY <1>4 DEF WindowChanges, TypeInv, Typed
<1>5. CASE UNCHANGED vars
  BY <1>5 DEF vars, TypeInv, Typed
<1> QED
  BY <1>1, <1>2, <1>3, <1>4, <1>5 DEF Next

LEMMA StartTypes == Init => TypeInv
BY TrayAssumption DEF Init, TypeInv, Typed, Iterators

\* Every variable keeps its type, and the iterators that deleteIcon and SendSystemTray have on
\* m_siVector stay within it, whatever notifications are dispatched while they wait for a
\* listener (TrayService.cpp:1912-1936, 2185-2214).
THEOREM Typing == Spec => []TypeOK
<1>1. Init => TypeInv
  BY StartTypes
<1>2. TypeInv /\ [Next]_vars => TypeInv'
  BY StepTypes
<1>3. TypeInv => TypeOK
  <2>1. ASSUME TypeInv, NEW i \in DOMAIN stack PROVE stack[i].it \in 0..Len(icons)
    BY <2>1, Lengths DEF TypeInv, Iterators
  <2> QED
    BY <2>1 DEF TypeInv, Typed, TypeOK
<1> QED
  BY <1>1, <1>2, <1>3, PTL DEF Spec

-----------------------------------------------------------------------------
(* What is shown.                                                           *)

\* Icons, their copies and messages are about one identity each, and lists have it once.
IsOf(x, id)  == x.win = id.win /\ x.guid = id.guid
Uniq(list)   == \A i, j \in 1..Len(list) : list[i].win = list[j].win => i = j
Keyed(list)  == Uniq(list) /\ \A i \in 1..Len(list) : \E id \in Identities : IsOf(list[i], id)
About(m, id) == m.win = id.win /\ (m.guid = id.guid \/ (m.nim # "add" /\ m.guid = None))
GoodMsgs     == {m \in Msg : \E id \in Identities : About(m, id)}
Lists        == {c \in Seq(Copy) : Keyed(c)}

Elems(s) == {s[i] : i \in 1..Len(s)}

\* A listener's list when it has handled ms, and what is yet to be sent to it as well.
Result(list, ms) ==
  LET after[i \in 0..Len(ms)] == IF i = 0 THEN list ELSE Handled(after[i - 1], ms[i])
  IN  after[Len(ms)]
Due(l)    == stack # <<>> /\ ~Top.sent /\ l \in Elems(Top.todo)
Coming(l) == IF Due(l) THEN Handled(Result(shown[l], inbox[l]), Top.msg)
             ELSE Result(shown[l], inbox[l])

ListsInv ==
  /\ Keyed(icons) /\ \A k \in 1..Len(icons) : window[icons[k].win] # "unborn"
  /\ shown \in [Lsn -> Lists] /\ inbox \in [Lsn -> Seq(GoodMsgs)]

\* Who is registered is told, each once and in order; what is sent is waited for.
InOrder(todo) ==
  /\ \A j \in 1..Len(todo) : todo[j] \in Threaded => j = Len(todo)
  /\ \A j, k \in 1..Len(todo) : todo[j] = todo[k] => j = k
ToldInv ==
  /\ registered = {l \in Lsn : life[l] # "off"}
  /\ \A l \in Lsn : /\ life[l] = "off" => shown[l] = <<>> /\ inbox[l] = <<>>
                    /\ inbox[l] # <<>> => \E f \in Elems(stack) : f.sent /\ Head(f.todo) = l

\* What a call is about.
CallOK(f) ==
  /\ f.msg \in GoodMsgs /\ InOrder(f.todo)
  /\ f.op # "notify" => f.msg.win = icons[f.it].win
  /\ f.op = "resend" => f.for \in Lsn /\ life[f.for] = "asking"
CallsInv == \A f \in Elems(stack) : CallOK(f)

\* The icon of a window that is to be seen, unless it is being deleted.
Of(list, w)    == {list[k] : k \in {k \in 1..Len(list) : list[k].win = w}}
Wants(list, w) == {i \in Of(list, w) : Valid(i)}
Dying(w)       == \E f \in Elems(stack) : f.op = "delete" /\ f.msg.win = w
Wanted(w)      == IF Dying(w) THEN {} ELSE Wants(icons, w)

\* Of the windows that are not dead, a listener has or will have nothing else, and all that
\* SendSystemTray has come to for it.
Agree(e, i) == e.guid = i.guid /\ e.icon = i.icon /\ e.version \in {0, i.version}
Only(c, W)  == \A e \in c : \E i \in W : Agree(e, i)
All(c, W)   == \A i \in W : \E e \in c : Agree(e, i)
Owed(l, w)  == \/ life[l] = "on"
               \/ \E f \in Elems(stack) : /\ f.op = "resend" /\ f.for = l
                                          /\ \E k \in 1..f.it : icons[k].win = w
Right(l, w) == /\ Only(Of(Coming(l), w), Wanted(w))
               /\ Owed(l, w) => All(Of(Coming(l), w), Wanted(w))
ShownInv ==
  \A w \in Windows, l \in Lsn : window[w] # "dead" /\ life[l] # "off" => Right(l, w)

TrayInv == TypeInv /\ ListsInv /\ ToldInv /\ CallsInv /\ ShownInv

-----------------------------------------------------------------------------
(* What a list has of a window.                                             *)

\* Of w it has c now, of the other windows what it had.
Puts(list, new, w, c) == Of(new, w) = c /\ \A v : v # w => Of(new, v) = Of(list, v)

LEMMA OfExcept ==
  ASSUME NEW S, NEW list \in Seq(S), Keyed(list), NEW k \in 1..Len(list), NEW e \in S,
         IsOf(e, list[k]), NEW new, new = [list EXCEPT ![k] = e]
  PROVE  new \in Seq(S) /\ Keyed(new) /\ Puts(list, new, e.win, {e})
<1>1. new \in Seq(S) /\ Len(new) = Len(list)
  BY ExceptSeq
<1>2. \A i \in 1..Len(list) : new[i] = IF i = k THEN e ELSE list[i]
  BY LenProperties
<1>3. \A i \in 1..Len(list) : new[i].win = list[i].win /\ new[i].guid = list[i].guid
  BY <1>2 DEF IsOf
<1>4. Keyed(new)
  BY <1>1, <1>3 DEF Keyed, Uniq, IsOf
<1>5. ASSUME NEW w, w # e.win PROVE Of(new, w) = Of(list, w)
  BY <1>1, <1>2, <1>3, <1>5 DEF Of
<1>6. \A i \in 1..Len(list) : list[i].win = e.win <=> i = k
  BY DEF Keyed, Uniq, IsOf
<1>7. Of(new, e.win) = {e}
  BY <1>1, <1>2, <1>3, <1>6 DEF Of
<1> QED
  BY <1>1, <1>4, <1>5, <1>7 DEF Puts

LEMMA OfAppend ==
  ASSUME NEW S, NEW list \in Seq(S), Keyed(list), NEW e \in S, NEW id \in Identities,
         IsOf(e, id), \A i \in 1..Len(list) : list[i].win # e.win, NEW new, new = Append(list, e)
  PROVE  new \in Seq(S) /\ Keyed(new) /\ Puts(list, new, e.win, {e}) /\ Of(list, e.win) = {}
<1> DEFINE n == Len(list) + 1
<1>1. /\ new \in Seq(S) /\ Len(new) = n /\ new[n] = e /\ \A i \in 1..Len(list) : new[i] = list[i]
      /\ Len(list) \in Nat
  BY AppendProperties, LenProperties
<1>2. 1..n = 1..Len(list) \cup {n} /\ n \notin 1..Len(list)
  BY <1>1
<1> HIDE DEF n
<1>3. Uniq(new)
  BY <1>1, <1>2 DEF Keyed, Uniq
<1>4. Keyed(new)
  BY <1>1, <1>2, <1>3 DEF Keyed
<1>5. ASSUME NEW w, w # e.win PROVE Of(new, w) = Of(list, w)
  BY <1>1, <1>2, <1>5 DEF Of
<1>6. Of(new, e.win) = {e} /\ Of(list, e.win) = {}
  BY <1>1, <1>2 DEF Of
<1> QED
  BY <1>1, <1>4, <1>5, <1>6 DEF Puts

LEMMA OfRemove ==
  ASSUME NEW S, NEW list \in Seq(S), Keyed(list), NEW k \in 1..Len(list),
         NEW new, new = RemoveAt(list, k)
  PROVE  new \in Seq(S) /\ Keyed(new) /\ Puts(list, new, list[k].win, {})
<1> DEFINE old(i) == IF i < k THEN i ELSE i + 1
<1>1. /\ new \in Seq(S) /\ Len(new) = Len(list) - 1 /\ Len(list) \in Nat /\ k \in Nat
      /\ \A i \in 1..(Len(list) - 1) : new[i] = IF i < k THEN list[i] ELSE list[i + 1]
  <2>1. Len(list) \in Nat /\ k \in Nat
    BY LenProperties
  <2> QED
    BY <2>1, WithoutOne
<1>2. ASSUME NEW i \in 1..Len(new)
      PROVE  old(i) \in 1..Len(list) /\ old(i) # k /\ new[i] = list[old(i)]
  BY <1>1
<1>3. \A i, j \in 1..Len(new) : old(i) = old(j) => i = j
  BY <1>1
<1>4. ASSUME NEW j \in 1..Len(list), j # k PROVE \E i \in 1..Len(new) : old(i) = j
  <2>1. CASE j < k
    <3>1. j \in 1..Len(new) /\ old(j) = j
      BY <1>1, <2>1
    <3> QED
      BY <3>1
  <2>2. CASE ~(j < k)
    <3>1. j - 1 \in 1..Len(new) /\ old(j - 1) = j
      BY <1>1, <1>4, <2>2
    <3> QED
      BY <3>1
  <2> QED
    BY <2>1, <2>2
<1> HIDE DEF old
<1>5. Keyed(new)
  <2>1. Uniq(new)
    BY <1>2, <1>3 DEF Keyed, Uniq
  <2> QED
    BY <1>2, <2>1 DEF Keyed
<1>6. \A j \in 1..Len(list) : list[j].win = list[k].win => j = k
  BY DEF Keyed, Uniq
<1>7. ASSUME NEW w, w # list[k].win PROVE Of(new, w) = Of(list, w)
  <2>1. Of(new, w) \subseteq Of(list, w)
    BY <1>2 DEF Of
  <2>2. Of(list, w) \subseteq Of(new, w)
    <3> SUFFICES ASSUME NEW j \in 1..Len(list), list[j].win = w PROVE list[j] \in Of(new, w)
      BY DEF Of
    <3>1. PICK i \in 1..Len(new) : old(i) = j
      BY <1>4, <1>7
    <3> QED
      BY <1>2, <3>1 DEF Of
  <2> QED
    BY <2>1, <2>2
<1>8. Of(new, list[k].win) = {}
  BY <1>2, <1>6 DEF Of
<1> QED
  BY <1>1, <1>5, <1>7, <1>8 DEF Puts

LEMMA OfKept ==
  ASSUME NEW S, NEW list \in Seq(S), Keyed(list), NEW ks, NEW new, new = Kept(list, ks)
  PROVE  /\ new \in Seq(S) /\ Keyed(new)
         /\ \A i \in 1..Len(new) : \E j \in 1..Len(list) : new[i] = list[j] /\ j \in ks
         /\ \A w : (\A j \in 1..Len(list) : list[j].win = w => j \in ks) => Of(new, w) = Of(list, w)
<1> DEFINE n == Len(list)
<1>1. new \in Seq(S) /\ n \in Nat
  BY KeptIs, LenProperties
<1>2. PICK pos : Places(pos, new, list, ks, n)
  BY KeptIs DEF Picks
<1>3. /\ pos \in [1..Len(new) -> 1..n]
      /\ \A i, j \in 1..Len(new) : i < j => pos[i] < pos[j]
      /\ \A i \in 1..Len(new) : new[i] = list[pos[i]] /\ pos[i] \in ks
      /\ \A k \in 1..n : k \in ks => \E i \in 1..Len(new) : pos[i] = k
  BY <1>2 DEF Places
<1>4. \A i, j \in 1..Len(new) : pos[i] = pos[j] => i = j
  <2> SUFFICES ASSUME NEW i \in 1..Len(new), NEW j \in 1..Len(new), i < j PROVE pos[i] # pos[j]
    BY <1>1, LenProperties
  <2>1. pos[i] < pos[j] /\ pos[i] \in Nat
    BY <1>1, <1>3
  <2> QED
    BY <2>1
<1>5. Keyed(new)
  <2>1. ASSUME NEW i \in 1..Len(new), NEW j \in 1..Len(new), new[i].win = new[j].win PROVE i = j
    <3>1. pos[i] \in 1..n /\ pos[j] \in 1..n /\ new[i] = list[pos[i]] /\ new[j] = list[pos[j]]
      BY <1>3
    <3>2. pos[i] = pos[j]
      BY <2>1, <3>1 DEF Keyed, Uniq
    <3> QED
      BY <1>4, <3>2
  <2>2. Uniq(new)
    BY <2>1 DEF Uniq
  <2> QED
    BY <1>3, <2>2 DEF Keyed
<1>6. ASSUME NEW w, \A j \in 1..n : list[j].win = w => j \in ks PROVE Of(new, w) = Of(list, w)
  <2>1. Of(new, w) \subseteq Of(list, w)
    BY <1>3 DEF Of
  <2>2. Of(list, w) \subseteq Of(new, w)
    <3> SUFFICES ASSUME NEW j \in 1..n, list[j].win = w PROVE list[j] \in Of(new, w)
      BY DEF Of
    <3>1. PICK i \in 1..Len(new) : pos[i] = j
      BY <1>3, <1>6
    <3> QED
      BY <1>3, <3>1 DEF Of
  <2> QED
    BY <2>1, <2>2
<1>7. \A i \in 1..Len(new) : \E j \in 1..n : new[i] = list[j] /\ j \in ks
  BY <1>3
<1> QED
  BY <1>1, <1>5, <1>6, <1>7

\* What refers to an identity finds its one entry.
LEMMA Matching ==
  ASSUME NEW x, NEW other \in Identities, IsOf(x, other), NEW m, NEW id \in Identities,
         m.win = id.win, m.guid \in {None, id.guid}
  PROVE  Matches(x, m) <=> x.win = m.win
<1>1. CASE m.guid = None
  BY <1>1 DEF Matches
<1>2. CASE m.guid # None
  <2>1. Matches(x, m) <=> other.guid = id.guid
    BY <1>2 DEF Matches, IsOf
  <2>2. other.guid = id.guid => other = id
    BY <1>2, TrayAssumption
  <2>3. other.win = id.win => other = id
    BY TrayAssumption
  <2> QED
    BY <2>1, <2>2, <2>3 DEF IsOf
<1> QED
  BY <1>1, <1>2

LEMMA FoundOne ==
  ASSUME NEW S, NEW list \in Seq(S), Keyed(list), NEW m, NEW id \in Identities,
         m.win = id.win, m.guid \in {None, id.guid}
  PROVE  /\ Found(list, m) = 0 => \A i \in 1..Len(list) : list[i].win # m.win
         /\ Found(list, m) # 0 => Found(list, m) \in 1..Len(list) /\ list[Found(list, m)].win = m.win
<1>1. \A i \in 1..Len(list) : Matches(list[i], m) <=> list[i].win = m.win
  BY Matching DEF Keyed
<1>2. /\ Found(list, m) \in 0..Len(list) /\ Len(list) \in Nat
      /\ Found(list, m) # 0 => Matches(list[Found(list, m)], m)
      /\ Found(list, m) = 0 => \A k \in 1..Len(list) : ~Matches(list[k], m)
  BY FoundIs, LenProperties
<1> DEFINE k == Found(list, m)
<1> HIDE DEF k
<1>3. k # 0 => k \in 1..Len(list)
  BY <1>2 DEF k
<1> QED
  BY <1>1, <1>2, <1>3 DEF k

\* What a message does to what a list has of its window.
Effect(c, m) ==
  CASE m.nim = "add" ->
         IF c = {} THEN {[win |-> m.win, guid |-> m.guid, icon |-> m.icon, version |-> 0]} ELSE c
    [] m.nim = "modify"  -> IF m.icon = None THEN c ELSE {[e EXCEPT !.icon = m.icon] : e \in c}
    [] m.nim = "delete"  -> {}
    [] m.nim = "version" -> {[e EXCEPT !.version = Version4] : e \in c}

After(c, m, w) == IF w = m.win THEN Effect(c, m) ELSE c

LEMMA HandledOf ==
  ASSUME NEW list \in Lists, NEW m \in GoodMsgs, NEW new, new = Handled(list, m)
  PROVE  new \in Lists /\ \A w : Of(new, w) = After(Of(list, w), m, w)
<1> DEFINE k == Found(list, m)
<1>0. list \in Seq(Copy) /\ Keyed(list) /\ m \in Msg
  BY DEF Lists, GoodMsgs
<1>1. PICK id \in Identities : About(m, id)
  BY DEF GoodMsgs
<1>2. m.win = id.win /\ m.guid \in {None, id.guid} /\ (m.nim = "add" => m.guid = id.guid)
  BY <1>1 DEF About
<1>3. /\ k = 0 => \A i \in 1..Len(list) : list[i].win # m.win
      /\ k # 0 => k \in 1..Len(list) /\ list[k].win = m.win
  BY <1>0, <1>2, FoundOne
<1>4. m.nim \in {"add", "modify", "delete", "version"} /\ m.icon \in Maybe
  BY <1>0 DEF Msg
<1>5. new = CASE m.nim = "add" /\ k = 0 ->
                   Append(list, [win |-> m.win, guid |-> m.guid, icon |-> m.icon, version |-> 0])
              [] m.nim = "modify" /\ k # 0 /\ m.icon # None -> [list EXCEPT ![k].icon = m.icon]
              [] m.nim = "delete" /\ k # 0 -> RemoveAt(list, k)
              [] m.nim = "version" /\ k # 0 -> [list EXCEPT ![k].version = Version4]
              [] OTHER -> list
  BY DEF Handled
<1>6. new \in Seq(Copy) /\ Uniq(list)
  BY <1>0, Handling DEF Keyed
<1> SUFFICES /\ Keyed(new) /\ Of(new, m.win) = Effect(Of(list, m.win), m)
             /\ \A w : w # m.win => Of(new, w) = Of(list, w)
  BY <1>6 DEF After, Lists
<1> HIDE DEF k
<1>7. CASE k = 0 /\ m.nim = "add"
  <2> DEFINE e == [win |-> m.win, guid |-> m.guid, icon |-> m.icon, version |-> 0]
  <2>1. e \in Copy /\ e.win = m.win /\ IsOf(e, id)
    BY <1>0, <1>2, <1>7 DEF Msg, Copy, IsOf
  <2>2. new = Append(list, e)
    BY <1>5, <1>7
  <2>3. {e} = {[win |-> m.win, guid |-> m.guid, icon |-> m.icon, version |-> 0]}
    OBVIOUS
  <2> HIDE DEF e
  <2>4. \A i \in 1..Len(list) : list[i].win # e.win
    BY <1>3, <1>7, <2>1
  <2>5. Keyed(new) /\ Puts(list, new, e.win, {e}) /\ Of(list, e.win) = {}
    BY <1>0, <2>1, <2>2, <2>4, OfAppend
  <2>6. Effect({}, m) = {e}
    BY <1>7, <2>3 DEF Effect
  <2> QED
    BY <2>1, <2>5, <2>6 DEF Puts
<1>8. CASE k = 0 /\ m.nim # "add"
  <2>1. new = list
    BY <1>5, <1>8
  <2>2. Of(list, m.win) = {}
    BY <1>3, <1>8 DEF Of
  <2>3. Effect({}, m) = {}
    BY <1>4, <1>8 DEF Effect
  <2> QED
    BY <1>0, <2>1, <2>2, <2>3
<1>9. CASE k # 0
  <2>1. k \in 1..Len(list) /\ list[k].win = m.win /\ list[k] \in Copy
    BY <1>0, <1>3, <1>9, ElementOfSeq
  <2>2. Of(list, m.win) = {list[k]}
    BY <1>6, <2>1 DEF Of, Uniq
  <2>3. CASE m.nim = "add" \/ (m.nim = "modify" /\ m.icon = None)
    <3>1. new = list
      BY <1>5, <1>9, <2>3
    <3>2. Effect({list[k]}, m) = {list[k]}
      BY <2>3 DEF Effect
    <3> QED
      BY <1>0, <2>2, <3>1, <3>2
  <2>4. CASE (m.nim = "modify" /\ m.icon # None) \/ m.nim = "version"
    <3>1. PICK e \in Copy : /\ new = [list EXCEPT ![k] = e] /\ e.win = m.win /\ e.guid = list[k].guid
                            /\ Effect({list[k]}, m) = {e}
      <4>1. CASE m.nim = "modify" /\ m.icon # None
        <5> DEFINE e == [list[k] EXCEPT !.icon = m.icon]
        <5>1. e \in Copy /\ e.win = m.win /\ e.guid = list[k].guid
          BY <1>4, <2>1 DEF Copy
        <5>2. new = [list EXCEPT ![k] = e]
          BY <1>5, <1>9, <4>1
        <5>3. Effect({list[k]}, m) = {e}
          BY <4>1 DEF Effect
        <5> QED
          BY <5>1, <5>2, <5>3
      <4>2. CASE m.nim = "version"
        <5> DEFINE e == [list[k] EXCEPT !.version = Version4]
        <5>1. e \in Copy /\ e.win = m.win /\ e.guid = list[k].guid
          BY <2>1 DEF Copy, Version4
        <5>2. new = [list EXCEPT ![k] = e]
          BY <1>5, <1>9, <4>2
        <5>3. Effect({list[k]}, m) = {e}
          BY <4>2 DEF Effect
        <5> QED
          BY <5>1, <5>2, <5>3
      <4> QED
        BY <2>4, <4>1, <4>2
    <3>2. IsOf(e, list[k])
      BY <2>1, <3>1 DEF IsOf
    <3>3. Keyed(new) /\ Puts(list, new, e.win, {e})
      BY <1>0, <2>1, <3>1, <3>2, OfExcept
    <3> QED
      BY <2>2, <3>1, <3>3 DEF Puts
  <2>5. CASE m.nim = "delete"
    <3>1. new = RemoveAt(list, k)
      BY <1>5, <1>9, <2>5
    <3>2. Keyed(new) /\ Puts(list, new, list[k].win, {})
      BY <1>0, <2>1, <3>1, OfRemove
    <3>3. Effect(Of(list, m.win), m) = {}
      BY <2>5 DEF Effect
    <3> QED
      BY <2>1, <3>2, <3>3 DEF Puts
  <2> QED
    BY <1>4, <2>3, <2>4, <2>5
<1> QED
  BY <1>6, <1>7, <1>8, <1>9

-----------------------------------------------------------------------------
(* What messages make of a list.                                            *)

Runs(f, list, ms) == f[0] = list /\ \A i \in 1..Len(ms) : f[i] = Handled(f[i - 1], ms[i])

LEMMA ResultIs ==
  ASSUME NEW list \in Lists, NEW ms \in Seq(GoodMsgs)
  PROVE  \E f \in [0..Len(ms) -> Lists] : Runs(f, list, ms) /\ Result(list, ms) = f[Len(ms)]
<1> DEFINE n == Len(ms)
           G == [i \in 1..n |-> [c \in Lists |-> Handled(c, ms[i])]]
           R(f) == f = [i \in 0..n |-> IF i = 0 THEN list ELSE Handled(f[i - 1], ms[i])]
           after == CHOOSE f : R(f)
<1>1. n \in Nat /\ \A i \in 1..n : ms[i] \in GoodMsgs
  BY LenProperties, ElementOfSeq
<1>2. G \in [1..n -> [Lists -> Lists]]
  <2>1. \A i \in 1..n : \A c \in Lists : Handled(c, ms[i]) \in Lists
    BY <1>1, HandledOf
  <2> QED
    BY <2>1
<1>3. PICK f \in [0..n -> Lists] : Steps(f, n, list, G)
  <2> HIDE DEF G, n
  <2> QED
    BY <1>1, <1>2, Recursion
<1>4. \A i \in 1..n : i - 1 \in 0..n /\ i \in 0..n /\ i # 0
  BY <1>1
<1> HIDE DEF n
<1>5. f[0] = list /\ \A i \in 1..n : f[i] = Handled(f[i - 1], ms[i])
  BY <1>3, <1>4 DEF Steps
<1>6. R(f)
  <2>1. \A i \in 0..n : i # 0 => i \in 1..n
    BY <1>1
  <2>2. f = [i \in 0..n |-> f[i]]
    OBVIOUS
  <2>3. \A i \in 0..n : f[i] = IF i = 0 THEN list ELSE Handled(f[i - 1], ms[i])
    BY <1>5, <2>1
  <2> HIDE DEF G
  <2> QED
    BY <2>2, <2>3, Zenon
<1>7. R(after)
  BY <1>6
<1>8. Result(list, ms) = after[n]
  BY DEF Result, n
<1> HIDE DEF after
<1>9. after[0] = list /\ \A i \in 1..n : after[i] = Handled(after[i - 1], ms[i])
  BY <1>1, <1>4, <1>7
<1> DEFINE T == {i \in 0..n : after[i] = f[i]}
<1>10. 0 \in T
  BY <1>1, <1>5, <1>9
<1>11. \A i \in 1..n : i - 1 \in T => i \in T
  BY <1>4, <1>5, <1>9
<1> HIDE DEF T
<1>12. n \in T
  <2>1. 0..n \subseteq T
    BY <1>1, <1>10, <1>11, InductTo
  <2> QED
    BY <1>1, <2>1
<1> QED
  BY <1>5, <1>8, <1>12 DEF T, Runs, n

LEMMA ResultOf ==
  ASSUME NEW list \in Lists, NEW ms \in Seq(GoodMsgs),
         NEW f \in [0..Len(ms) -> Lists], Runs(f, list, ms)
  PROVE  Result(list, ms) = f[Len(ms)]
<1> DEFINE n == Len(ms)
<1>1. PICK g \in [0..n -> Lists] : Runs(g, list, ms) /\ Result(list, ms) = g[n]
  BY ResultIs
<1>2. n \in Nat
  BY LenProperties
<1> DEFINE T == {i \in 0..n : g[i] = f[i]}
<1>3. \A i \in 1..n : i - 1 \in 0..n /\ i \in 0..n
  BY <1>2
<1>4. 0 \in T
  BY <1>1, <1>2 DEF Runs
<1>5. \A i \in 1..n : i - 1 \in T => i \in T
  BY <1>1, <1>3 DEF Runs
<1> HIDE DEF T, n
<1>6. n \in T
  <2>1. 0..n \subseteq T
    BY <1>2, <1>4, <1>5, InductTo
  <2> QED
    BY <1>2, <2>1
<1> QED
  BY <1>1, <1>6 DEF T, n

LEMMA ResultNone ==
  ASSUME NEW list \in Lists
  PROVE  Result(list, <<>>) = list
<1>1. <<>> \in Seq(GoodMsgs) /\ Len(<<>>) = 0
  OBVIOUS
<1>2. PICK f \in [0..Len(<<>>) -> Lists] : Runs(f, list, <<>>) /\ Result(list, <<>>) = f[Len(<<>>)]
  BY <1>1, ResultIs
<1> QED
  BY <1>1, <1>2 DEF Runs

LEMMA ResultIn ==
  ASSUME NEW list \in Lists, NEW ms \in Seq(GoodMsgs)
  PROVE  Result(list, ms) \in Lists
<1>1. PICK f \in [0..Len(ms) -> Lists] : Result(list, ms) = f[Len(ms)]
  BY ResultIs
<1>2. Len(ms) \in 0..Len(ms)
  BY LenProperties
<1> QED
  BY <1>1, <1>2

LEMMA ResultAppend ==
  ASSUME NEW list \in Lists, NEW ms \in Seq(GoodMsgs), NEW m \in GoodMsgs
  PROVE  Result(list, Append(ms, m)) = Handled(Result(list, ms), m)
<1> DEFINE n == Len(ms)
           t == Append(ms, m)
<1>1. /\ n \in Nat /\ t \in Seq(GoodMsgs) /\ Len(t) = n + 1 /\ t[n + 1] = m
      /\ \A i \in 1..n : t[i] = ms[i]
  BY LenProperties, AppendProperties
<1>2. PICK f \in [0..n -> Lists] : Runs(f, list, ms) /\ Result(list, ms) = f[n]
  BY ResultIs
<1> DEFINE g == [i \in 0..(n + 1) |-> IF i = n + 1 THEN Handled(f[n], m) ELSE f[i]]
<1>3. f[n] \in Lists /\ Handled(f[n], m) \in Lists
  BY <1>1, <1>2, HandledOf
<1>4. g \in [0..(n + 1) -> Lists]
  BY <1>1, <1>3
<1>5. /\ g[n + 1] = Handled(f[n], m) /\ \A i \in 0..n : g[i] = f[i]
  BY <1>1
<1>6. 1..(n + 1) = 1..n \cup {n + 1} /\ (n + 1) - 1 = n /\ \A i \in 1..n : i - 1 \in 0..n /\ i \in 0..n
  BY <1>1
<1> HIDE DEF g, n, t
<1>7. Runs(g, list, t)
  <2>1. f[0] = list /\ \A i \in 1..n : f[i] = Handled(f[i - 1], ms[i])
    BY <1>2 DEF Runs, n
  <2>2. ASSUME NEW i \in 1..n PROVE g[i] = Handled(g[i - 1], t[i])
    BY <1>1, <1>5, <1>6, <2>1
  <2>3. g[n + 1] = Handled(g[n], t[n + 1])
    BY <1>1, <1>5
  <2>4. g[0] = list
    BY <1>1, <1>5, <2>1
  <2> QED
    BY <1>1, <1>6, <2>2, <2>3, <2>4 DEF Runs
<1>8. Result(list, t) = g[n + 1]
  BY <1>1, <1>4, <1>7, ResultOf
<1> QED
  BY <1>2, <1>5, <1>8 DEF t

LEMMA ResultTail ==
  ASSUME NEW list \in Lists, NEW ms \in Seq(GoodMsgs), ms # <<>>
  PROVE  Result(Handled(list, Head(ms)), Tail(ms)) = Result(list, ms)
<1> DEFINE n == Len(ms)
           t == Tail(ms)
           m == Head(ms)
           c == Handled(list, m)
<1>1. /\ n \in Nat \ {0} /\ t \in Seq(GoodMsgs) /\ Len(t) = n - 1 /\ m = ms[1] /\ m \in GoodMsgs
      /\ \A i \in 1..(n - 1) : t[i] = ms[i + 1]
  BY Popped
<1>2. PICK f \in [0..n -> Lists] : Runs(f, list, ms) /\ Result(list, ms) = f[n]
  BY ResultIs
<1> DEFINE g == [i \in 0..(n - 1) |-> f[i + 1]]
<1>3. /\ g \in [0..(n - 1) -> Lists] /\ g[0] = f[1] /\ g[n - 1] = f[n]
      /\ \A i \in 1..(n - 1) : g[i] = f[i + 1] /\ g[i - 1] = f[i]
  BY <1>1
<1>4. 1 \in 1..n /\ 1 - 1 = 0 /\ \A i \in 1..(n - 1) : i + 1 \in 1..n /\ (i + 1) - 1 = i
  BY <1>1
<1> HIDE DEF g, n, t, m, c
<1>5. \A i \in 1..n : f[i] = Handled(f[i - 1], ms[i])
  BY <1>2 DEF Runs, n
<1>6. f[0] = list
  BY <1>2 DEF Runs
<1>7. f[1] = c
  BY <1>1, <1>4, <1>5, <1>6 DEF c
<1>8. ASSUME NEW i \in 1..(n - 1) PROVE g[i] = Handled(g[i - 1], t[i])
  BY <1>1, <1>3, <1>4, <1>5
<1>9. Runs(g, c, t)
  BY <1>1, <1>3, <1>7, <1>8 DEF Runs
<1>10. c \in Lists
  BY <1>1, HandledOf DEF c
<1>11. Result(c, t) = g[n - 1]
  BY <1>1, <1>3, <1>9, <1>10, ResultOf
<1> QED
  BY <1>2, <1>3, <1>11 DEF c, m, t

-----------------------------------------------------------------------------
(* The calls on the stack.                                                  *)

LEMMA ElemsPushed ==
  ASSUME NEW S, NEW st \in Seq(S), NEW f \in S
  PROVE  Elems(<<f>> \o st) = {f} \cup Elems(st)
<1> DEFINE t == <<f>> \o st
           n == Len(st)
<1>1. /\ Len(t) = n + 1 /\ \A i \in 1..(n + 1) : t[i] = IF i = 1 THEN f ELSE st[i - 1]
      /\ n \in Nat
  BY Pushed, LenProperties
<1>2. 1 \in 1..(n + 1) /\ \A i \in 1..n : i + 1 \in 1..(n + 1) /\ i + 1 # 1 /\ (i + 1) - 1 = i
  BY <1>1
<1>3. \A i \in 1..(n + 1) : i # 1 => i - 1 \in 1..n
  BY <1>1
<1> HIDE DEF t
<1>4. Elems(t) \subseteq {f} \cup Elems(st)
  BY <1>1, <1>3 DEF Elems
<1>5. \A i \in 1..n : st[i] = t[i + 1]
  BY <1>1, <1>2
<1>6. f = t[1]
  BY <1>1, <1>2
<1>7. f \in Elems(t)
  BY <1>1, <1>2, <1>6 DEF Elems
<1>8. ASSUME NEW i \in 1..Len(st) PROVE st[i] \in Elems(t)
  <2>1. i + 1 \in 1..Len(t) /\ st[i] = t[i + 1]
    BY <1>1, <1>2, <1>5
  <2> QED
    BY <2>1 DEF Elems
<1>9. Elems(st) \subseteq Elems(t)
  BY <1>8 DEF Elems
<1> QED
  BY <1>4, <1>7, <1>9 DEF t

LEMMA ElemsPopped ==
  ASSUME NEW S, NEW st \in Seq(S), st # <<>>
  PROVE  Elems(st) = {Head(st)} \cup Elems(Tail(st))
<1>1. Tail(st) \in Seq(S) /\ Head(st) \in S /\ st = <<Head(st)>> \o Tail(st)
  <2>1. Tail(st) \in Seq(S) /\ Head(st) \in S /\ Head(st) = st[1]
    BY Popped
  <2>2. /\ <<Head(st)>> \o Tail(st) \in Seq(S) /\ Len(<<Head(st)>> \o Tail(st)) = Len(st)
        /\ \A i \in 1..Len(st) : (<<Head(st)>> \o Tail(st))[i] = IF i = 1 THEN Head(st) ELSE st[i]
    BY <2>1, Replaced
  <2>3. st = <<Head(st)>> \o Tail(st)
    BY <2>1, <2>2, SeqEqual
  <2> QED
    BY <2>1, <2>3
<1> QED
  BY <1>1, ElemsPushed

LEMMA Stacked ==
  ASSUME TypeInv, NEW f \in Elems(stack)
  PROVE  /\ f \in Frame /\ (f.sent => Waiting(f))
         /\ f.it \in (IF f.op = "notify" THEN {0} ELSE 1..Len(icons))
<1>1. PICK i \in 1..Len(stack) : f = stack[i]
  BY DEF Elems
<1>2. f \in Frame
  BY <1>1, ElementOfSeq DEF TypeInv, Typed
<1> QED
  BY <1>1, <1>2 DEF TypeInv, Iterators

LEMMA Beneath ==
  ASSUME TypeInv, stack # <<>>
  PROVE  /\ Elems(stack) = {Top} \cup Elems(Tail(stack)) /\ Tail(stack) \in Seq(Frame)
         /\ \A f \in Elems(Tail(stack)) : f.sent /\ (Top.op # "notify" => f.op = "notify")
<1>1. Elems(stack) = {Top} \cup Elems(Tail(stack))
  BY ElemsPopped DEF Top, TypeInv, Typed
<1>2. /\ Len(Tail(stack)) = Len(stack) - 1 /\ Len(stack) \in Nat \ {0} /\ Tail(stack) \in Seq(Frame)
      /\ \A i \in 1..(Len(stack) - 1) : Tail(stack)[i] = stack[i + 1]
  BY Popped DEF TypeInv, Typed
<1>3. Top = stack[1] /\ 1 \in 1..Len(stack)
  BY Below DEF TypeInv
<1>4. ASSUME NEW f \in Elems(Tail(stack)) PROVE f.sent /\ (Top.op # "notify" => f.op = "notify")
  <2>1. PICK i \in 1..(Len(stack) - 1) : f = stack[i + 1]
    BY <1>2 DEF Elems
  <2>2. i + 1 \in 1..Len(stack) /\ i + 1 > 1 /\ i + 1 # 1
    BY <1>2
  <2>3. f.sent
    BY <2>1, <2>2 DEF TypeInv, Iterators
  <2>4. Top.op # "notify" => f.op = "notify"
    BY <1>3, <2>1, <2>2 DEF TypeInv, Iterators
  <2> QED
    BY <2>3, <2>4
<1> QED
  BY <1>1, <1>2, <1>4

LEMMA NoneIterates ==
  ASSUME TypeInv, stack = <<>> \/ ~Iterates, NEW f \in Elems(stack)
  PROVE  f.op = "notify"
<1>1. PICK i \in 1..Len(stack) : f = stack[i]
  BY DEF Elems
<1>2. stack # <<>> /\ i \in DOMAIN stack /\ f \in Frame
  BY <1>1, Lengths, Stacked DEF TypeInv
<1> QED
  BY <1>1, <1>2 DEF Iterates, Frame

-----------------------------------------------------------------------------
(* Who is told what.                                                        *)

\* No message is on its way from listener to listener.
Calm == stack = <<>> \/ Top.sent \/ Top.todo = <<>>

LEMMA NoneDue == ASSUME TypeInv, Calm, NEW l PROVE ~Due(l)
<1>1. CASE stack # <<>> /\ Top.todo = <<>>
  <2>1. Len(<<>>) = 0 /\ 1..0 = {}
    OBVIOUS
  <2> QED
    BY <1>1, <2>1 DEF Due, Elems
<1> QED
  BY <1>1 DEF Due, Calm

LEMMA PoppedDue == ASSUME TypeInv, stack # <<>>, stack' = Tail(stack), NEW l PROVE ~Due(l)'
<1> SUFFICES ASSUME stack' # <<>> PROVE Top'.sent
  BY DEF Due
<1>1. stack' \in Seq(Frame)
  BY Beneath
<1>2. Elems(stack') = {Head(stack')} \cup Elems(Tail(stack'))
  BY <1>1, ElemsPopped
<1>3. Head(stack') \in Elems(Tail(stack))
  BY <1>2
<1> QED
  BY <1>3, Beneath DEF Top

LEMMA TargetsAre ==
  ASSUME TypeInv
  PROVE  /\ Targets \in Seq(Lsn) /\ (ThreadedLast => InOrder(Targets))
         /\ registered \subseteq Elems(Targets)
<1> DEFINE ks == {k \in DOMAIN Listeners : Listeners[k] \in registered}
           n  == Len(Listeners)
           t  == Kept(Listeners, ks)
<1>1. /\ Listeners \in Seq(Lsn) /\ n \in Nat /\ DOMAIN Listeners = 1..n /\ t = Targets
      /\ \A i, j \in 1..n : Listeners[i] = Listeners[j] => i = j
  BY TrayAssumption, LenProperties DEF Targets, IsInjective
<1>2. t \in Seq(Lsn) /\ Picks(t, Listeners, ks, n)
  BY <1>1, KeptIs
<1>3. PICK pos : Places(pos, t, Listeners, ks, n)
  BY <1>2 DEF Picks
<1>4. Len(t) \in Nat
  BY <1>2, LenProperties
<1>5. ASSUME NEW l \in registered PROVE \E k \in 1..n : Listeners[k] = l
  <2>1. l \in Lsn
    BY DEF TypeInv, Typed
  <2> QED
    BY <1>1, <2>1 DEF Lsn, ToSet
<1> HIDE DEF t, n
<1>6. /\ pos \in [1..Len(t) -> 1..n]
      /\ \A i, j \in 1..Len(t) : i < j => pos[i] < pos[j]
      /\ \A i \in 1..Len(t) : t[i] = Listeners[pos[i]] /\ pos[i] \in ks
      /\ \A k \in 1..n : k \in ks => \E i \in 1..Len(t) : pos[i] = k
  BY <1>3 DEF Places
<1>7. ASSUME NEW l \in registered PROVE \E j \in 1..Len(t) : t[j] = l
  <2>1. PICK k \in 1..n : Listeners[k] = l
    BY <1>5
  <2>2. k \in ks
    BY <1>1, <2>1
  <2>3. PICK i \in 1..Len(t) : pos[i] = k
    BY <1>6, <2>2
  <2> HIDE DEF ks
  <2> QED
    BY <1>6, <2>1, <2>3
<1> HIDE DEF ks
<1>8. \A i \in 1..Len(t) : pos[i] \in 1..n /\ t[i] = Listeners[pos[i]]
  BY <1>6
<1>9. ASSUME NEW i \in 1..Len(t), NEW j \in 1..Len(t), t[i] = t[j] PROVE i = j
  <2>1. pos[i] = pos[j]
    BY <1>1, <1>8, <1>9
  <2>2. pos[i] \in Nat /\ pos[j] \in Nat
    BY <1>1, <1>8
  <2>3. ~(pos[i] < pos[j]) /\ ~(pos[j] < pos[i])
    BY <2>1, <2>2
  <2>4. ~(i < j) /\ ~(j < i)
    BY <1>6, <2>3
  <2> QED
    BY <1>4, <2>4
<1>10. ASSUME ThreadedLast, NEW j \in 1..Len(t), t[j] \in Threaded PROVE j = Len(t)
  <2>1. pos[j] = n
    BY <1>8, <1>10 DEF ThreadedLast, n
  <2>2. Len(t) \in 1..Len(t)
    BY <1>4
  <2>3. pos[Len(t)] \in 1..n
    BY <1>8, <2>2
  <2>4. ~(n < pos[Len(t)])
    BY <1>1, <2>3
  <2>5. ~(j < Len(t))
    BY <1>6, <2>1, <2>2, <2>4
  <2> QED
    BY <1>4, <2>5
<1>11. ThreadedLast => InOrder(t)
  BY <1>9, <1>10 DEF InOrder
<1> QED
  BY <1>1, <1>2, <1>7, <1>11 DEF Elems

LEMMA TopIs ==
  ASSUME NEW f \in Frame, NEW rest \in Seq(Frame), stack' = <<f>> \o rest
  PROVE  stack' # <<>> /\ Top' = f
<1>1. stack' \in Seq(Frame) /\ Len(stack') = Len(rest) + 1 /\ Len(rest) \in Nat
      /\ \A i \in 1..(Len(rest) + 1) : stack'[i] = IF i = 1 THEN f ELSE rest[i - 1]
  BY Pushed, LenProperties
<1>2. stack' # <<>>
  BY <1>1
<1>3. Head(stack') = stack'[1]
  BY <1>1, <1>2, Popped
<1>4. 1 \in 1..(Len(rest) + 1)
  BY <1>1
<1> QED
  BY <1>1, <1>2, <1>3, <1>4 DEF Top

\* A message that begins will be handled after all that was sent.
LEMMA Begins ==
  ASSUME TypeInv, ToldInv, Calm, NEW f \in Frame, NEW rest \in Seq(Frame), stack' = <<f>> \o rest,
         f.todo = Targets, ~f.sent, shown' = shown, inbox' = inbox, NEW l \in Lsn, life[l] # "off"
  PROVE  Coming(l)' = Handled(Coming(l), f.msg)
<1>1. stack' # <<>> /\ Top' = f
  BY TopIs
<1>2. Due(l)'
  <2>1. l \in registered
    BY DEF ToldInv
  <2>2. l \in Elems(f.todo)
    BY <2>1, TargetsAre
  <2> QED
    BY <1>1, <2>2 DEF Due
<1>3. ~Due(l)
  BY NoneDue
<1> QED
  BY <1>1, <1>2, <1>3 DEF Coming

LEMMA NotSent ==
  ASSUME TypeInv, ToldInv, NEW l \in Lsn, l \notin Threaded
  PROVE  inbox[l] = <<>>
<1> SUFFICES ASSUME inbox[l] # <<>> PROVE FALSE
  OBVIOUS
<1>1. PICK f \in Elems(stack) : f.sent /\ Head(f.todo) = l
  BY DEF ToldInv
<1> QED
  BY <1>1, Stacked DEF Waiting

LEMMA Shorter ==
  ASSUME NEW todo \in Seq(Lsn), todo # <<>>, InOrder(todo)
  PROVE  /\ Tail(todo) \in Seq(Lsn) /\ InOrder(Tail(todo)) /\ Head(todo) \notin Elems(Tail(todo))
         /\ Elems(todo) = {Head(todo)} \cup Elems(Tail(todo))
         /\ Head(todo) \in Threaded => Elems(Tail(todo)) = {}
<1> DEFINE t == Tail(todo)
<1>1. /\ t \in Seq(Lsn) /\ Len(todo) \in Nat \ {0} /\ Len(t) = Len(todo) - 1 /\ Head(todo) = todo[1]
      /\ \A i \in 1..(Len(todo) - 1) : t[i] = todo[i + 1]
  BY Popped
<1>2. \A i \in 1..Len(t) : i + 1 \in 1..Len(todo) /\ t[i] = todo[i + 1] /\ i + 1 # 1 /\ i \in Nat
  BY <1>1
<1>3. 1 \in 1..Len(todo)
  BY <1>1
<1> HIDE DEF t
<1>4. ASSUME NEW i \in 1..Len(t), t[i] \in Threaded PROVE i = Len(t)
  <2>1. i + 1 = Len(todo)
    BY <1>2, <1>4 DEF InOrder
  <2> QED
    BY <1>1, <1>2, <2>1
<1>5. ASSUME NEW i \in 1..Len(t), NEW j \in 1..Len(t), t[i] = t[j] PROVE i = j
  <2>1. i + 1 = j + 1
    BY <1>2, <1>5 DEF InOrder
  <2> QED
    BY <1>2, <2>1
<1>6. Head(todo) \notin Elems(t)
  BY <1>1, <1>2, <1>3 DEF InOrder, Elems
<1>7. ASSUME Head(todo) \in Threaded PROVE Elems(t) = {}
  <2>1. Len(todo) = 1
    BY <1>1, <1>3, <1>7 DEF InOrder
  <2>2. 1..Len(t) = {}
    BY <1>1, <2>1
  <2> QED
    BY <2>2 DEF Elems
<1>8. Elems(todo) = {Head(todo)} \cup Elems(t)
  BY ElemsPopped DEF t
<1>9. InOrder(t)
  BY <1>4, <1>5 DEF InOrder
<1> QED
  BY <1>1, <1>6, <1>7, <1>8, <1>9 DEF t

LEMMA ComingIn ==
  ASSUME TypeInv, ListsInv, CallsInv, NEW l \in Lsn
  PROVE  Coming(l) \in Lists
<1>1. Result(shown[l], inbox[l]) \in Lists
  BY ResultIn DEF ListsInv
<1>2. CASE Due(l)
  <2>1. Top \in Elems(stack)
    BY <1>2, Beneath DEF Due
  <2>2. Top.msg \in GoodMsgs
    BY <2>1 DEF CallsInv, CallOK
  <2> QED
    BY <1>1, <1>2, <2>2, HandledOf DEF Coming
<1> QED
  BY <1>1, <1>2 DEF Coming

\* What a listener will have in the end is the same wherever its messages are.
LEMMA SendKeeps ==
  ASSUME TypeInv, ListsInv, ToldInv, CallsInv, SendNext, NEW l \in Lsn, life[l] # "off"
  PROVE  Coming(l)' = Coming(l)
<1> DEFINE a == Head(Top.todo)
           c == Result(shown[l], inbox[l])
<1>1. /\ stack # <<>> /\ Top.todo # <<>> /\ ~Top.sent
      /\ \/ life[a] = "off" /\ Replace([Top EXCEPT !.todo = Tail(@)]) /\ UNCHANGED <<shown, inbox>>
         \/ /\ a \notin Threaded /\ shown' = [shown EXCEPT ![a] = Handled(@, Top.msg)]
            /\ Replace([Top EXCEPT !.todo = Tail(@)]) /\ UNCHANGED inbox
         \/ /\ a \in Threaded /\ inbox' = [inbox EXCEPT ![a] = Append(@, Top.msg)]
            /\ Replace([Top EXCEPT !.sent = TRUE]) /\ UNCHANGED shown
  BY DEF SendNext
<1>2. /\ Top \in Frame /\ Top.msg \in GoodMsgs /\ InOrder(Top.todo) /\ Top.todo \in Seq(Lsn)
  <2>1. Top \in Elems(stack)
    BY <1>1, Beneath
  <2> QED
    BY <2>1, Stacked DEF CallsInv, CallOK, Frame
<1>3. /\ Tail(Top.todo) \in Seq(Lsn) /\ a \notin Elems(Tail(Top.todo))
      /\ Elems(Top.todo) = {a} \cup Elems(Tail(Top.todo))
      /\ a \in Threaded => Elems(Tail(Top.todo)) = {}
  BY <1>1, <1>2, Shorter
<1>4. Tail(stack) \in Seq(Frame)
  BY <1>1, Beneath
<1>5. shown[l] \in Lists /\ inbox[l] \in Seq(GoodMsgs) /\ c \in Lists
      /\ shown \in [Lsn -> Lists] /\ inbox \in [Lsn -> Seq(GoodMsgs)]
  BY ResultIn DEF ListsInv
<1>6. Due(l) <=> l \in Elems(Top.todo)
  BY <1>1 DEF Due
<1>7. CASE Replace([Top EXCEPT !.todo = Tail(@)])
  <2>1. [Top EXCEPT !.todo = Tail(@)] \in Frame
    BY <1>1, SameFrame DEF TypeInv
  <2>2. stack' # <<>> /\ Top' = [Top EXCEPT !.todo = Tail(@)]
    BY <1>4, <1>7, <2>1, TopIs DEF Replace
  <2>3. ~Top'.sent /\ Top'.todo = Tail(Top.todo) /\ Top'.msg = Top.msg
    BY <1>1, <1>2, <2>2 DEF Frame
  <2>4. Due(l)' <=> l \in Elems(Tail(Top.todo))
    BY <2>2, <2>3 DEF Due
  <2>5. CASE l # a
    <3>1. Due(l)' <=> Due(l)
      BY <1>3, <1>6, <2>4, <2>5
    <3>2. shown'[l] = shown[l] /\ inbox'[l] = inbox[l]
      BY <1>1, <1>5, <2>5
    <3> QED
      BY <2>3, <3>1, <3>2 DEF Coming
  <2>6. CASE l = a
    <3>1. Due(l) /\ ~Due(l)'
      BY <1>3, <1>6, <2>4, <2>6
    <3>2. CASE l \notin Threaded
      <4>1. inbox[l] = <<>> /\ shown'[l] = Handled(shown[l], Top.msg)
        <5>1. shown' = [shown EXCEPT ![a] = Handled(@, Top.msg)]
          BY <1>1, <2>6, <3>2
        <5> QED
          BY <1>5, <2>6, <3>2, <5>1, NotSent
      <4>2. inbox'[l] = <<>>
        BY <1>1, <2>6, <3>2, <4>1
      <4>3. Handled(shown[l], Top.msg) \in Lists
        BY <1>2, <1>5, HandledOf
      <4> QED
        BY <1>5, <3>1, <4>1, <4>2, <4>3, ResultNone DEF Coming
    <3>3. CASE l \in Threaded
      <4>1. Replace([Top EXCEPT !.sent = TRUE])
        BY <1>1, <2>6, <3>3
      <4>2. [Top EXCEPT !.sent = TRUE] \in Frame
        BY <1>2 DEF Frame
      <4>3. Top' = [Top EXCEPT !.sent = TRUE]
        BY <1>4, <4>1, <4>2, TopIs DEF Replace
      <4>4. Top'.sent
        BY <1>2, <4>3 DEF Frame
      <4> QED
        BY <2>3, <4>4
    <3> QED
      BY <3>2, <3>3
  <2> QED
    BY <2>5, <2>6
<1>8. CASE /\ a \in Threaded /\ inbox' = [inbox EXCEPT ![a] = Append(@, Top.msg)]
           /\ Replace([Top EXCEPT !.sent = TRUE]) /\ UNCHANGED shown
  <2>1. [Top EXCEPT !.sent = TRUE] \in Frame
    BY <1>2 DEF Frame
  <2>2. stack' # <<>> /\ Top' = [Top EXCEPT !.sent = TRUE]
    BY <1>4, <1>8, <2>1, TopIs DEF Replace
  <2>3. Top'.sent
    BY <1>2, <2>2 DEF Frame
  <2>4. ~Due(l)'
    BY <2>3 DEF Due
  <2>5. CASE l # a
    <3>1. ~Due(l)
      BY <1>3, <1>6, <1>8, <2>5
    <3>2. inbox'[l] = inbox[l]
      BY <1>5, <1>8, <2>5
    <3> QED
      BY <1>8, <2>4, <3>1, <3>2 DEF Coming
  <2>6. CASE l = a
    <3>1. Due(l)
      BY <1>3, <1>6, <2>6
    <3>2. inbox'[l] = Append(inbox[l], Top.msg)
      BY <1>5, <1>8, <2>6
    <3>3. Result(shown[l], Append(inbox[l], Top.msg)) = Handled(c, Top.msg)
      BY <1>2, <1>5, ResultAppend
    <3> QED
      BY <1>8, <2>4, <3>1, <3>2, <3>3 DEF Coming
  <2> QED
    BY <2>5, <2>6
<1> QED
  BY <1>1, <1>7, <1>8

LEMMA HandleKeeps ==
  ASSUME TypeInv, ListsInv, NEW a \in Lsn, HandleSent(a), NEW l \in Lsn
  PROVE  Coming(l)' = Coming(l)
<1>1. /\ inbox[a] # <<>> /\ stack' = stack
      /\ shown' = [shown EXCEPT ![a] = Handled(@, Head(inbox[a]))]
      /\ inbox' = [inbox EXCEPT ![a] = Tail(@)]
      /\ shown \in [Lsn -> Lists] /\ inbox \in [Lsn -> Seq(GoodMsgs)]
  BY DEF HandleSent, ListsInv
<1>2. (Due(l)' <=> Due(l)) /\ Top' = Top
  BY <1>1 DEF Due, Top
<1>3. Result(shown'[l], inbox'[l]) = Result(shown[l], inbox[l])
  <2>1. CASE l # a
    BY <1>1, <2>1
  <2>2. CASE l = a
    <3>1. shown'[l] = Handled(shown[l], Head(inbox[l])) /\ inbox'[l] = Tail(inbox[l])
      BY <1>1, <2>2
    <3>2. shown[l] \in Lists /\ inbox[l] \in Seq(GoodMsgs) /\ inbox[l] # <<>>
      BY <1>1, <2>2
    <3> QED
      BY <3>1, <3>2, ResultTail
  <2> QED
    BY <2>1, <2>2
<1> QED
  BY <1>2, <1>3 DEF Coming

LEMMA AnswerKeeps ==
  ASSUME TypeInv, CallsInv, Answered, NEW l \in Lsn
  PROVE  Coming(l)' = Coming(l)
<1>1. stack # <<>> /\ Top.sent /\ Replace([Top EXCEPT !.todo = Tail(@), !.sent = FALSE])
      /\ UNCHANGED <<shown, inbox>>
  BY DEF Answered
<1>2. Top \in Elems(stack) /\ Tail(stack) \in Seq(Frame)
  BY <1>1, Beneath
<1>3. Top \in Frame /\ InOrder(Top.todo) /\ Waiting(Top)
  BY <1>1, <1>2, Stacked DEF CallsInv, CallOK
<1>4. Elems(Tail(Top.todo)) = {}
  BY <1>3, Shorter DEF Waiting, Frame
<1>5. [Top EXCEPT !.todo = Tail(@), !.sent = FALSE] \in Frame
  BY <1>1, <1>3, SameFrame DEF TypeInv, Waiting
<1>6. Top' = [Top EXCEPT !.todo = Tail(@), !.sent = FALSE]
  BY <1>1, <1>2, <1>5, TopIs DEF Replace
<1>7. Top'.todo = Tail(Top.todo)
  BY <1>3, <1>6 DEF Frame
<1>8. ~Due(l)'
  BY <1>4, <1>7 DEF Due
<1>9. ~Due(l)
  BY <1>1 DEF Due
<1> QED
  BY <1>1, <1>8, <1>9 DEF Coming

-----------------------------------------------------------------------------
(* What notifications do.                                                   *)

LEMMA IdOf ==
  ASSUME TypeInv, ListsInv, NEW id \in Identities \cup Aliases, NEW k, k = Found(icons, id), k # 0
  PROVE  /\ k \in 1..Len(icons) /\ icons[k] \in Icon /\ icons[k].win = id.win
         /\ \E ident \in Identities : IsOf(icons[k], ident) /\ id.guid \in {None, ident.guid}
<1>1. icons \in Seq(Icon) /\ Keyed(icons)
  BY DEF TypeInv, Typed, ListsInv
<1>2. k \in 1..Len(icons) /\ Matches(icons[k], id)
  <2>1. k \in 0..Len(icons) /\ Len(icons) \in Nat /\ Matches(icons[k], id)
    BY <1>1, FoundIs, LenProperties
  <2> QED
    BY <2>1
<1>3. PICK ident \in Identities : IsOf(icons[k], ident)
  BY <1>1, <1>2 DEF Keyed
<1>4. icons[k].win = id.win
  <2>1. CASE id \in Identities
    BY <1>1, <2>1, FoundOne
  <2>2. CASE id \in Aliases
    BY <1>2, <2>2, TrayAssumption DEF Matches
  <2> QED
    BY <2>1, <2>2
<1>5. id.guid \in {None, ident.guid}
  <2>1. CASE id \in Identities
    <3>1. id = ident
      BY <1>3, <1>4, <2>1, TrayAssumption DEF IsOf
    <3> QED
      BY <3>1
  <2>2. CASE id \in Aliases
    BY <2>2, TrayAssumption
  <2> QED
    BY <2>1, <2>2
<1> QED
  BY <1>1, <1>2, <1>3, <1>4, <1>5, ElementOfSeq

LEMMA GoodOnes ==
  ASSUME NEW x \in Icon \cup Copy, NEW ident \in Identities, IsOf(x, ident),
         NEW id, id.guid \in {None, ident.guid}
  PROVE  /\ AddOf(x) \in GoodMsgs
         /\ \A ic : ModifyOf(x, id, ic) \in GoodMsgs
         /\ KeyOf("delete", x, id) \in GoodMsgs /\ VersionOf(x) \in GoodMsgs
<1>1. id.guid \in Guids
  BY DEF Guids
<1>2. /\ AddOf(x) \in Msg /\ \A ic : ModifyOf(x, id, ic) \in Msg
      /\ KeyOf("delete", x, id) \in Msg /\ VersionOf(x) \in Msg
  BY <1>1, Messages
<1>3. About(AddOf(x), ident)
  BY DEF About, AddOf, IsOf
<1>4. \A ic : About(ModifyOf(x, id, ic), ident)
  BY DEF About, ModifyOf, IsOf
<1>5. About(KeyOf("delete", x, id), ident) /\ About(VersionOf(x), ident)
  BY DEF About, KeyOf, VersionOf, IsOf
<1> QED
  BY <1>2, <1>3, <1>4, <1>5 DEF GoodMsgs

\* Who shows the old icon will show the new one.
Seen(i) == IF Valid(i) THEN {i} ELSE {}
Turns(m, old, new) ==
  \A c \in SUBSET Copy : Only(c, Seen(old)) =>
    /\ Only(Effect(c, m), Seen(new))
    /\ All(c, Seen(old)) => All(Effect(c, m), Seen(new))

LEMMA OnlyOne ==
  ASSUME NEW c, NEW i, Only(c, Seen(i)), NEW e \in c
  PROVE  Valid(i) /\ Agree(e, i)
BY DEF Only, Seen

LEMMA AddTurns ==
  ASSUME NEW i \in Icon, Valid(i), NEW c, Only(c, {i})
  PROVE  Only(Effect(c, AddOf(i)), {i}) /\ All(Effect(c, AddOf(i)), {i})
<1> DEFINE e == [win |-> i.win, guid |-> i.guid, icon |-> i.icon, version |-> 0]
<1>1. Effect(c, AddOf(i)) = IF c = {} THEN {e} ELSE c
  BY DEF Effect, AddOf
<1>2. Agree(e, i)
  BY DEF Agree
<1> HIDE DEF e
<1> QED
  BY <1>1, <1>2 DEF Only, All

LEMMA VersionTurns ==
  ASSUME NEW i \in Icon, NEW j \in Icon, j = [i EXCEPT !.version = Version4],
         NEW m, m.nim = "version"
  PROVE  Turns(m, i, j)
<1> SUFFICES ASSUME NEW c \in SUBSET Copy, Only(c, Seen(i))
             PROVE  /\ Only(Effect(c, m), Seen(j))
                    /\ All(c, Seen(i)) => All(Effect(c, m), Seen(j))
  BY DEF Turns
<1>1. Effect(c, m) = {[e EXCEPT !.version = Version4] : e \in c}
  BY DEF Effect
<1>2. Valid(i) <=> Valid(j)
  BY DEF Valid, Icon
<1>3. ASSUME NEW e \in c, Agree(e, i) PROVE Agree([e EXCEPT !.version = Version4], j)
  BY <1>3 DEF Agree, Icon, Copy, Version4
<1>4. Only(Effect(c, m), Seen(j))
  BY <1>1, <1>2, <1>3 DEF Only, Seen
<1>5. All(c, Seen(i)) => All(Effect(c, m), Seen(j))
  BY <1>1, <1>2, <1>3 DEF All, Seen
<1> QED
  BY <1>4, <1>5

LEMMA ModifyTurns ==
  ASSUME NEW old \in Icon, NEW new \in Icon, IsOf(new, old), new.version = old.version,
         NEW id, NEW ic, ic = "keep" => new.icon = old.icon,
         NEW m, Modified(old, new, id, ic) = <<m>>
  PROVE  Turns(m, old, new)
<1> SUFFICES ASSUME NEW c \in SUBSET Copy, Only(c, Seen(old))
             PROVE  /\ Only(Effect(c, m), Seen(new))
                    /\ All(c, Seen(old)) => All(Effect(c, m), Seen(new))
  BY DEF Turns
<1>1. CASE Valid(new) /\ Valid(old)
  <2>1. m = ModifyOf(new, id, ic)
    BY <1>1 DEF Modified
  <2>2. m.nim = "modify" /\ m.icon = IF ic = "keep" THEN None ELSE new.icon
    BY <2>1 DEF ModifyOf
  <2>3. CASE m.icon = None
    <3>1. Effect(c, m) = c
      BY <2>2, <2>3 DEF Effect
    <3>2. new.icon = old.icon
      BY <1>1, <2>2, <2>3 DEF Valid
    <3>3. \A e \in c : Agree(e, old) => Agree(e, new)
      BY <3>2 DEF Agree, IsOf
    <3> QED
      BY <1>1, <3>1, <3>3 DEF Only, All, Seen
  <2>4. CASE m.icon # None
    <3>1. Effect(c, m) = {[e EXCEPT !.icon = new.icon] : e \in c}
      BY <2>2, <2>4 DEF Effect
    <3>2. ASSUME NEW e \in c, Agree(e, old) PROVE Agree([e EXCEPT !.icon = new.icon], new)
      BY <3>2 DEF Agree, IsOf, Copy
    <3>3. Only(Effect(c, m), Seen(new))
      BY <1>1, <3>1, <3>2 DEF Only, Seen
    <3>4. All(c, Seen(old)) => All(Effect(c, m), Seen(new))
      BY <1>1, <3>1, <3>2 DEF All, Seen
    <3> QED
      BY <3>3, <3>4
  <2> QED
    BY <2>3, <2>4
<1>2. CASE Valid(new) /\ ~Valid(old)
  <2>1. m = AddOf(new)
    BY <1>2 DEF Modified
  <2>2. c = {}
    BY <1>2, OnlyOne
  <2>3. Only(c, {new})
    BY <2>2 DEF Only
  <2> QED
    BY <1>2, <2>1, <2>3, AddTurns DEF Seen
<1>3. CASE ~Valid(new)
  <2>1. m.nim = "delete"
    BY <1>3 DEF Modified, KeyOf
  <2>2. Effect(c, m) = {}
    BY <2>1 DEF Effect
  <2> QED
    BY <1>3, <2>2 DEF Only, All, Seen
<1> QED
  BY <1>1, <1>2, <1>3

\* An icon is added, changed (modifyIcon, setVersionIcon) or begins to be deleted.
Within     == stack = <<>> \/ (Waits /\ ~Iterates)
Notes(m)   == stack' = <<Call("notify", 0, m, None)>> \o stack
Adds(i)    == /\ Within /\ icons' = Append(icons, i) /\ \A k \in 1..Len(icons) : icons[k].win # i.win
              /\ IF Valid(i) THEN Notes(AddOf(i)) ELSE UNCHANGED stack
Turned(k, i) ==
  /\ stack = <<>> \/ Waits
  /\ icons' = [icons EXCEPT ![k] = i] /\ IsOf(i, icons[k])
  /\ \/ UNCHANGED stack /\ ~Valid(i) /\ ~Valid(icons[k])
     \/ \E m \in GoodMsgs : m.win = i.win /\ Turns(m, icons[k], i) /\ Notes(m)
Deletes(k) ==
  /\ Within /\ UNCHANGED icons
  /\ \E m \in GoodMsgs : /\ m.nim = "delete" /\ m.win = icons[k].win
                         /\ stack' = <<Call("delete", k, m, None)>> \o stack
Asked(w)   == Asks(w) /\ UNCHANGED <<window, registered, life, shown, inbox>>
Change(w)  ==
  \/ \E i \in Icon, id \in Identities : i.win = w /\ IsOf(i, id) /\ Adds(i)
  \/ \E k \in 1..Len(icons), i \in Icon : i.win = w /\ Turned(k, i)
  \/ \E k \in 1..Len(icons) : icons[k].win = w /\ Deletes(k)

LEMMA AddIs ==
  ASSUME TypeInv, ListsInv, NEW id \in Identities, NEW s \in {None, "hidden", "shared"},
         NEW h \in Maybe, addIcon(id, s, h)
  PROVE  Asked(id.win) /\ Change(id.win)
<1> DEFINE new == [win |-> id.win, guid |-> id.guid, icon |-> None, state |-> "plain", version |-> 0]
           i   == Update(new, s, h)
<1>1. new \in Icon /\ new.win = id.win /\ new.guid = id.guid
  BY Named DEF Icon, Maybe
<1>2. /\ Asks(id.win) /\ Within /\ icons' = Append(icons, i)
      /\ IF Valid(i) THEN Notes(AddOf(i)) ELSE UNCHANGED stack
      /\ UNCHANGED <<window, registered, life, shown, inbox>> /\ Found(icons, id) = 0
  BY DEF addIcon, Push, Free, Within, Notes
<1> HIDE DEF new
<1>3. i \in Icon /\ i.win = id.win /\ i.guid = id.guid
  <2>1. s \in States \cup {None} /\ h \in Maybe \cup {"keep"}
    BY DEF States
  <2>2. i \in Icon /\ i.win = new.win /\ i.guid = new.guid
    BY <1>1, <2>1, UpdateIs
  <2> QED
    BY <1>1, <2>2
<1> HIDE DEF i
<1>4. icons \in Seq(Icon) /\ Keyed(icons)
  BY DEF TypeInv, Typed, ListsInv
<1>5. \A k \in 1..Len(icons) : icons[k].win # i.win
  BY <1>2, <1>3, <1>4, FoundOne
<1> QED
  BY <1>2, <1>3, <1>5 DEF Adds, IsOf, Asked, Change

LEMMA ModifyIs ==
  ASSUME TypeInv, ListsInv, NEW id \in Identities \cup Aliases, NEW s \in {None, "plain", "hidden"},
         NEW h \in Maybe \cup {"keep"}, modifyIcon(id, s, h)
  PROVE  Asked(id.win) /\ Change(id.win)
<1> DEFINE k  == Found(icons, id)
           i  == Update(icons[k], s, h)
           ms == Modified(icons[k], i, id, h)
<1>1. /\ Asks(id.win) /\ (stack = <<>> \/ Waits) /\ k # 0 /\ icons' = [icons EXCEPT ![k] = i]
      /\ IF ms = <<>> THEN stack' = stack ELSE Notes(ms[1])
      /\ UNCHANGED <<window, registered, life, shown, inbox>>
  BY DEF modifyIcon, Push, Free, Notes
<1>2. k \in 1..Len(icons) /\ icons[k] \in Icon /\ icons[k].win = id.win
  BY <1>1, IdOf
<1>3. PICK ident \in Identities : IsOf(icons[k], ident) /\ id.guid \in {None, ident.guid}
  BY <1>1, IdOf
<1>4. /\ i \in Icon /\ i.win = id.win /\ i.guid = icons[k].guid /\ i.version = icons[k].version
      /\ h = "keep" => i.icon = icons[k].icon
  <2> HIDE DEF k
  <2>1. /\ i \in Icon /\ i.win = icons[k].win /\ i.guid = icons[k].guid
        /\ i.version = icons[k].version
    <3>1. s \in States \cup {None}
      BY DEF States
    <3>2. PICK old \in Icon : old = icons[k]
      BY <1>2
    <3>3. /\ Update(old, s, h) \in Icon
          /\ Update(old, s, h).win = old.win /\ Update(old, s, h).guid = old.guid
          /\ Update(old, s, h).version = old.version
      BY <3>1, UpdateIs
    <3> QED
      BY <3>2, <3>3
  <2>2. h = "keep" => i.icon = icons[k].icon
    BY <1>2 DEF Update, Icon
  <2> QED
    BY <1>2, <2>1, <2>2
<1>5. \/ ms = <<>> /\ ~Valid(i) /\ ~Valid(icons[k])
      \/ /\ ms = <<ms[1]>> /\ ms # <<>>
         /\ ms[1] \in {ModifyOf(i, id, h), AddOf(i), KeyOf("delete", i, id)}
         /\ ms[1].win = i.win
  <2> HIDE DEF i, k
  <2> QED
    BY DEF Modified, ModifyOf, AddOf, KeyOf
<1> HIDE DEF k, i, ms
<1>6. IsOf(i, icons[k]) /\ IsOf(i, ident)
  BY <1>2, <1>3, <1>4 DEF IsOf
<1>7. CASE ms = <<>> /\ ~Valid(i) /\ ~Valid(icons[k])
  <2>1. Turned(k, i)
    BY <1>1, <1>6, <1>7 DEF Turned
  <2> QED
    BY <1>1, <1>2, <1>4, <2>1 DEF Asked, Change
<1>8. CASE /\ ms = <<ms[1]>> /\ ms # <<>> /\ ms[1].win = i.win
           /\ ms[1] \in {ModifyOf(i, id, h), AddOf(i), KeyOf("delete", i, id)}
  <2>1. ms[1] \in GoodMsgs
    BY <1>3, <1>4, <1>6, <1>8, GoodOnes
  <2>2. Modified(icons[k], i, id, h) = <<ms[1]>>
    BY <1>8 DEF ms
  <2>3. Turns(ms[1], icons[k], i)
    BY <1>2, <1>4, <1>6, <2>2, ModifyTurns
  <2>4. Turned(k, i)
    BY <1>1, <1>6, <1>8, <2>1, <2>3 DEF Turned
  <2> QED
    BY <1>1, <1>2, <1>4, <2>4 DEF Asked, Change
<1> QED
  BY <1>5, <1>7, <1>8

LEMMA VersionIs ==
  ASSUME TypeInv, ListsInv, NEW id \in Identities \cup Aliases, NEW v, v # 0,
         setVersionIcon(id, v)
  PROVE  Asked(id.win) /\ Change(id.win)
<1> DEFINE k == Found(icons, id)
           m == VersionOf(icons[k])
           i == [icons[k] EXCEPT !.version = Version4]
<1>1. /\ Asks(id.win) /\ (stack = <<>> \/ Waits) /\ k # 0
      /\ icons' = [icons EXCEPT ![k] = i]
      /\ Notes(m) /\ UNCHANGED <<window, registered, life, shown, inbox>>
  BY DEF setVersionIcon, Push, Free, Notes
<1>2. k \in 1..Len(icons) /\ icons[k] \in Icon /\ icons[k].win = id.win
  BY <1>1, IdOf
<1>3. PICK ident \in Identities : IsOf(icons[k], ident) /\ id.guid \in {None, ident.guid}
  BY <1>1, IdOf
<1> HIDE DEF k
<1>4. i \in Icon /\ IsOf(i, icons[k]) /\ i.win = id.win
  BY <1>2 DEF Icon, Version4, IsOf
<1>5. m \in GoodMsgs
  BY <1>2, <1>3, GoodOnes
<1>6. m.nim = "version" /\ m.win = i.win
  BY <1>2, <1>4 DEF VersionOf
<1>7. Turns(m, icons[k], i)
  <2> HIDE DEF m
  <2> QED
    BY <1>2, <1>4, <1>6, VersionTurns
<1> HIDE DEF m, i
<1>8. Turned(k, i)
  BY <1>1, <1>4, <1>5, <1>6, <1>7 DEF Turned
<1> QED
  BY <1>1, <1>2, <1>4, <1>8 DEF Asked, Change

LEMMA DeleteIs ==
  ASSUME TypeInv, ListsInv, NEW id \in Identities \cup Aliases, deleteIcon(id)
  PROVE  Asked(id.win) /\ Change(id.win)
<1> DEFINE k == Found(icons, id)
           m == KeyOf("delete", icons[k], id)
<1>1. /\ Asks(id.win) /\ Within /\ k # 0 /\ UNCHANGED icons
      /\ stack' = <<Call("delete", k, m, None)>> \o stack
      /\ UNCHANGED <<window, registered, life, shown, inbox>>
  BY DEF deleteIcon, Push, Free, Within
<1>2. k \in 1..Len(icons) /\ icons[k] \in Icon /\ icons[k].win = id.win
  BY <1>1, IdOf
<1>3. PICK ident \in Identities : IsOf(icons[k], ident) /\ id.guid \in {None, ident.guid}
  BY <1>1, IdOf
<1> HIDE DEF k
<1>4. m \in GoodMsgs
  BY <1>2, <1>3, GoodOnes
<1>5. m.nim = "delete" /\ m.win = icons[k].win
  BY DEF KeyOf
<1> HIDE DEF m
<1>6. Deletes(k)
  BY <1>1, <1>4, <1>5 DEF Deletes
<1> QED
  BY <1>1, <1>2, <1>6 DEF Asked, Change

LEMMA NotificationIs ==
  ASSUME TypeInv, ListsInv, HandleNotification
  PROVE  \/ \E w \in Windows : Asked(w) /\ Change(w)
         \/ UNCHANGED <<window, icons, registered, life, shown, inbox, stack>>
<1>1. CASE \E id \in Identities, s \in {None, "hidden", "shared"}, h \in Maybe : addIcon(id, s, h)
  <2>1. PICK id \in Identities, s \in {None, "hidden", "shared"}, h \in Maybe : addIcon(id, s, h)
    BY <1>1
  <2> QED
    BY <2>1, AddIs, Named
<1>2. CASE \E id \in Identities \cup Aliases :
             \E s \in {None, "plain", "hidden"}, h \in Maybe \cup {"keep"} : modifyIcon(id, s, h)
  <2>1. PICK id \in Identities \cup Aliases, s \in {None, "plain", "hidden"},
             h \in Maybe \cup {"keep"} : modifyIcon(id, s, h)
    BY <1>2
  <2> QED
    BY <2>1, ModifyIs, Named
<1>3. CASE \E id \in Identities \cup Aliases :
             deleteIcon(id) \/ \E v \in {0, VersionAsked} : setVersionIcon(id, v)
  <2>1. PICK id \in Identities \cup Aliases :
          deleteIcon(id) \/ \E v \in {0, VersionAsked} : setVersionIcon(id, v)
    BY <1>3
  <2>2. CASE deleteIcon(id)
    BY <2>2, DeleteIs, Named
  <2>3. CASE setVersionIcon(id, 0)
    BY <2>3 DEF setVersionIcon
  <2>4. CASE setVersionIcon(id, VersionAsked)
    BY <2>4, VersionIs, Named DEF VersionAsked
  <2> QED
    BY <2>1, <2>2, <2>3, <2>4
<1> QED
  BY <1>1, <1>2, <1>3 DEF HandleNotification

-----------------------------------------------------------------------------
(* How notify goes on, and how a tray starts.                               *)

\* The next message of SendSystemTray: the version of the icon just sent, or another icon.
Further(k, m) ==
  /\ Top.op = "resend" /\ Top.for \in Lsn /\ m.win = icons[k].win
  /\ stack' = <<Call("resend", k, m, Top.for)>> \o Tail(stack)
  /\ \/ k = Top.it /\ Turns(m, icons[k], icons[k])
     \/ /\ m = AddOf(icons[k]) /\ Valid(icons[k])
        /\ \A n \in 1..Len(icons) : Top.it < n /\ Valid(icons[n]) => k <= n
Ends ==
  \/ Top.op = "notify" /\ UNCHANGED <<icons, life>>
  \/ Top.op = "delete" /\ icons' = RemoveAt(icons, Top.it) /\ UNCHANGED life
  \/ /\ Top.op = "resend" /\ UNCHANGED icons /\ life' = [life EXCEPT ![Top.for] = "on"]
     /\ \A n \in 1..Len(icons) : Top.it < n => ~Valid(icons[n])

LEMMA NotifiedIs ==
  ASSUME TypeInv, ListsInv, CallsInv, Notified
  PROVE  /\ stack # <<>> /\ Top.todo = <<>> /\ UNCHANGED <<window, registered, shown, inbox>>
         /\ \/ stack' = Tail(stack) /\ Ends
            \/ /\ UNCHANGED <<icons, life>>
               /\ \E k \in 1..Len(icons), m \in GoodMsgs : Further(k, m)
<1>1. stack # <<>> /\ Top.todo = <<>> /\ UNCHANGED <<window, registered, shown, inbox>>
  BY DEF Notified
<1>2. Top \in Elems(stack)
  BY <1>1, Beneath
<1>3. /\ Top \in Frame /\ Top.it \in (IF Top.op = "notify" THEN {0} ELSE 1..Len(icons))
      /\ CallOK(Top)
  BY <1>2, Stacked DEF CallsInv
<1>4. icons \in Seq(Icon) /\ Keyed(icons) /\ Len(icons) \in Nat /\ Typed
  BY Lengths DEF TypeInv, Typed, ListsInv
<1>5. CASE Top.op = "notify" /\ stack' = Tail(stack) /\ UNCHANGED <<icons, life>>
  BY <1>1, <1>5 DEF Ends
<1>6. CASE Top.op = "delete" /\ stack' = Tail(stack) /\ icons' = RemoveAt(icons, Top.it) /\ UNCHANGED life
  BY <1>1, <1>6 DEF Ends
<1>7. CASE /\ Top.op = "resend" /\ Top.msg.nim = "add" /\ icons[Top.it].version # 0
           /\ Replace(Call("resend", Top.it, [Top.msg EXCEPT !.nim = "version", !.icon = None], Top.for))
           /\ UNCHANGED <<icons, life>>
  <2> DEFINE k == Top.it
             m == [Top.msg EXCEPT !.nim = "version", !.icon = None]
  <2>1. k \in 1..Len(icons) /\ icons[k] \in Icon /\ Top.msg \in GoodMsgs /\ Top.for \in Lsn
        /\ Top.msg.win = icons[k].win
    BY <1>3, <1>4, <1>7, ElementOfSeq DEF CallOK
  <2>2. m \in Msg /\ m.nim = "version" /\ m.win = icons[k].win /\ m.guid = Top.msg.guid
    BY <2>1 DEF GoodMsgs, Msg, Maybe
  <2>3. PICK id \in Identities : About(Top.msg, id)
    BY <2>1 DEF GoodMsgs
  <2>4. About(m, id)
    BY <1>7, <2>1, <2>2, <2>3 DEF About
  <2>5. m \in GoodMsgs
    BY <2>2, <2>4 DEF GoodMsgs
  <2>6. icons[k] = [icons[k] EXCEPT !.version = Version4]
    BY <1>7, <2>1 DEF Icon, Version4
  <2>7. stack' = <<Call("resend", k, m, Top.for)>> \o Tail(stack)
    BY <1>7 DEF Replace
  <2> HIDE DEF k, m
  <2>8. Turns(m, icons[k], icons[k])
    BY <2>1, <2>2, <2>6, VersionTurns
  <2>9. Further(k, m)
    BY <1>7, <2>1, <2>2, <2>7, <2>8 DEF Further, k
  <2> QED
    BY <1>1, <1>7, <2>1, <2>5, <2>9
<1>8. CASE /\ Top.op = "resend" /\ stack' = Resume(Top.it) \o Tail(stack) /\ UNCHANGED icons
           /\ life' = IF ValidAfter(Top.it) = {} THEN [life EXCEPT ![Top.for] = "on"] ELSE life
  <2>1. Top.it \in Nat /\ Top.it \in 1..Len(icons) /\ Top.for \in Lsn /\ Tail(stack) \in Seq(Frame)
    BY <1>1, <1>3, <1>4, <1>8, Beneath DEF CallOK
  <2>2. \A n \in 1..Len(icons) : n \in ValidAfter(Top.it) <=> Top.it < n /\ Valid(icons[n])
    BY <1>4, <2>1, Lengths DEF ValidAfter
  <2>3. CASE ValidAfter(Top.it) = {} /\ Resume(Top.it) = <<>>
    <3>1. stack' = Tail(stack)
      BY <1>8, <2>1, <2>3
    <3>2. life' = [life EXCEPT ![Top.for] = "on"]
      BY <1>8, <2>3
    <3>3. Ends
      BY <1>8, <2>2, <2>3, <3>2 DEF Ends
    <3> QED
      BY <1>1, <3>1, <3>3
  <2>4. CASE \E j \in ValidAfter(Top.it) :
               /\ j \in 1..Len(icons) /\ \A n \in ValidAfter(Top.it) : j <= n
               /\ Resume(Top.it) = <<Call("resend", j, AddOf(icons[j]), Top.for)>>
    <3>1. PICK j \in ValidAfter(Top.it) :
               /\ j \in 1..Len(icons) /\ \A n \in ValidAfter(Top.it) : j <= n
               /\ Resume(Top.it) = <<Call("resend", j, AddOf(icons[j]), Top.for)>>
      BY <2>4
    <3>2. icons[j] \in Icon /\ \E id \in Identities : IsOf(icons[j], id)
      BY <1>4, <3>1, ElementOfSeq DEF Keyed
    <3>3. PICK id \in Identities : IsOf(icons[j], id)
      BY <3>2
    <3>4. AddOf(icons[j]) \in GoodMsgs
      BY <3>2, <3>3, GoodOnes
    <3>5. AddOf(icons[j]).win = icons[j].win
      BY DEF AddOf
    <3>6. Valid(icons[j]) /\ \A n \in 1..Len(icons) : Top.it < n /\ Valid(icons[n]) => j <= n
      BY <2>2, <3>1
    <3>7. stack' = <<Call("resend", j, AddOf(icons[j]), Top.for)>> \o Tail(stack)
      BY <1>8, <3>1
    <3>8. Further(j, AddOf(icons[j]))
      BY <1>8, <2>1, <3>5, <3>6, <3>7 DEF Further
    <3>9. UNCHANGED <<icons, life>>
      BY <1>8, <3>1
    <3> QED
      BY <1>1, <3>1, <3>4, <3>8, <3>9
  <2> QED
    BY <1>4, <2>1, <2>3, <2>4, ResumeIs
<1> QED
  BY <1>5, <1>6, <1>7, <1>8 DEF Notified

\* SendSystemTray has dropped the icons of windows that are gone.
Drops ==
  /\ icons' \in Seq(Icon) /\ Keyed(icons')
  /\ \A k \in 1..Len(icons') : window[icons'[k].win] = "alive"
  /\ \A w \in Windows : window[w] # "dead" => Of(icons', w) = Of(icons, w)
First(k, l) ==
  /\ Valid(icons'[k]) /\ \A n \in 1..Len(icons') : Valid(icons'[n]) => k <= n
  /\ stack' = <<Call("resend", k, AddOf(icons'[k]), l)>> \o stack
  /\ life' = [life EXCEPT ![l] = "asking"]

LEMMA TrayIs ==
  ASSUME TypeInv, ListsInv, NEW l \in Lsn, SendSystemTray(l)
  PROVE  /\ life[l] = "starting" /\ Within /\ UNCHANGED <<window, registered, shown, inbox>>
         /\ Drops
         /\ \/ /\ life' = [life EXCEPT ![l] = "on"] /\ UNCHANGED stack
               /\ \A n \in 1..Len(icons') : ~Valid(icons'[n])
            \/ \E k \in 1..Len(icons') : First(k, l)
<1> DEFINE ks    == {k \in DOMAIN icons : window[icons[k].win] = "alive"}
           left  == Kept(icons, ks)
           valid == {k \in DOMAIN left : Valid(left[k])}
           k     == CHOOSE k \in valid : \A n \in valid : k <= n
<1>1. /\ life[l] = "starting" /\ Within /\ icons' = left
      /\ UNCHANGED <<window, registered, shown, inbox>>
      /\ \/ valid = {} /\ life' = [life EXCEPT ![l] = "on"] /\ stack' = stack
         \/ /\ valid # {} /\ stack' = <<Call("resend", k, AddOf(left[k]), l)>> \o stack
            /\ life' = [life EXCEPT ![l] = "asking"]
  BY DEF SendSystemTray, Push, Within
<1>2. icons \in Seq(Icon) /\ Keyed(icons) /\ DOMAIN icons = 1..Len(icons)
  BY Lengths DEF TypeInv, Typed, ListsInv
<1>3. /\ left \in Seq(Icon) /\ Keyed(left)
      /\ \A i \in 1..Len(left) : \E j \in 1..Len(icons) : left[i] = icons[j] /\ j \in ks
      /\ \A w : (\A j \in 1..Len(icons) : icons[j].win = w => j \in ks) => Of(left, w) = Of(icons, w)
  <2> HIDE DEF ks
  <2> QED
    BY <1>2, OfKept
<1> HIDE DEF left
<1>4. DOMAIN left = 1..Len(left) /\ Len(left) \in Nat
  BY <1>3, LenProperties
<1>5. \A i \in 1..Len(left) : window[left[i].win] = "alive"
  BY <1>3
<1>6. ASSUME NEW w \in Windows, window[w] # "dead" PROVE Of(left, w) = Of(icons, w)
  <2>1. ASSUME NEW j \in 1..Len(icons), icons[j].win = w PROVE j \in ks
    <3>1. window[w] # "unborn"
      BY <2>1 DEF ListsInv
    <3>2. window[w] = "alive"
      BY <1>6, <3>1 DEF TypeInv, Typed
    <3> QED
      BY <1>2, <2>1, <3>2
  <2> HIDE DEF ks
  <2> QED
    BY <1>3, <2>1
<1>7. Drops
  BY <1>1, <1>3, <1>5, <1>6 DEF Drops
<1>8. CASE valid = {}
  BY <1>1, <1>4, <1>7, <1>8
<1>9. CASE valid # {}
  <2>1. k \in valid /\ \A n \in valid : k <= n
    <3>1. valid \in SUBSET Nat
      BY <1>4
    <3> HIDE DEF valid
    <3> QED
      BY <1>9, <3>1, LeastIs
  <2>2. stack' = <<Call("resend", k, AddOf(left[k]), l)>> \o stack /\ life' = [life EXCEPT ![l] = "asking"]
    BY <1>1, <1>9
  <2> HIDE DEF k
  <2>3. k \in 1..Len(left) /\ Valid(left[k]) /\ \A n \in 1..Len(left) : Valid(left[n]) => k <= n
    BY <1>4, <2>1
  <2>4. First(k, l)
    BY <1>1, <2>2, <2>3 DEF First
  <2> QED
    BY <1>1, <1>7, <2>3, <2>4
<1> QED
  BY <1>8, <1>9

-----------------------------------------------------------------------------
(* Lists, listeners and calls.                                              *)

SoundInv == ListsInv /\ ToldInv /\ CallsInv

LEMMA CallIs ==
  ASSUME TypeInv, ThreadedLast, NEW op \in {"notify", "delete", "resend"}, NEW k \in Nat,
         NEW m \in GoodMsgs, NEW l \in Lsn \cup {None}, NEW f, f = Call(op, k, m, l),
         op # "notify" => m.win = icons'[k].win,
         op = "resend" => l \in Lsn /\ life'[l] = "asking"
  PROVE  /\ f \in Frame /\ CallOK(f)'
         /\ f.op = op /\ f.it = k /\ f.msg = m /\ f.for = l /\ f.todo = Targets /\ ~f.sent
<1>1. f.op = op /\ f.it = k /\ f.msg = m /\ f.for = l /\ f.todo = Targets /\ ~f.sent
  BY DEF Call
<1>2. m \in Msg
  BY DEF GoodMsgs
<1>3. f \in Frame
  BY <1>2, Calls DEF TypeInv
<1>4. InOrder(Targets)
  BY TargetsAre
<1> QED
  BY <1>1, <1>3, <1>4 DEF CallOK

\* Calls are added, and the icons that the others are at stay where they are.
LEMMA Grown ==
  ASSUME TypeInv, SoundInv, UNCHANGED <<registered, life, shown, inbox>>,
         \A k \in 1..Len(icons) : icons'[k].win = icons[k].win,
         \/ UNCHANGED stack
         \/ \E f \in Frame : stack' = <<f>> \o stack /\ CallOK(f)'
  PROVE  ToldInv' /\ CallsInv'
<1>1. Elems(stack) \subseteq Elems(stack') /\ \A f \in Elems(stack') \ Elems(stack) : CallOK(f)'
  <2>1. CASE UNCHANGED stack
    BY <2>1
  <2>2. CASE \E f \in Frame : stack' = <<f>> \o stack /\ CallOK(f)'
    <3>1. PICK f \in Frame : stack' = <<f>> \o stack /\ CallOK(f)'
      BY <2>2
    <3>2. Elems(stack') = {f} \cup Elems(stack)
      BY <3>1, ElemsPushed DEF TypeInv, Typed
    <3> QED
      BY <3>1, <3>2
  <2> QED
    BY <2>1, <2>2
<1>2. ASSUME NEW f \in Elems(stack) PROVE CallOK(f)'
  <2>1. CallOK(f) /\ (f.op # "notify" => f.it \in 1..Len(icons))
    BY Stacked DEF SoundInv, CallsInv
  <2> QED
    BY <2>1 DEF CallOK
<1>3. CallsInv'
  BY <1>1, <1>2 DEF CallsInv
<1>4. ToldInv'
  BY <1>1 DEF ToldInv, SoundInv
<1> QED
  BY <1>3, <1>4

LEMMA AskSound ==
  ASSUME TypeInv, SoundInv, ThreadedLast, NEW w \in Windows, Asked(w), Change(w)
  PROVE  SoundInv'
<1>1. /\ icons \in Seq(Icon) /\ Keyed(icons) /\ Len(icons) \in Nat /\ window[w] = "alive"
      /\ \A k \in 1..Len(icons) : window[icons[k].win] # "unborn"
  BY Lengths DEF TypeInv, Typed, SoundInv, ListsInv, Asked, Asks
<1>2. UNCHANGED <<window, registered, life, shown, inbox>>
  BY DEF Asked
<1>3. ASSUME NEW m \in GoodMsgs, Notes(m)
      PROVE  \E f \in Frame : stack' = <<f>> \o stack /\ CallOK(f)'
  <2>1. PICK f : f = Call("notify", 0, m, None)
    OBVIOUS
  <2>2. f \in Frame /\ CallOK(f)'
    BY <2>1, CallIs
  <2> QED
    BY <1>3, <2>1, <2>2 DEF Notes
<1>4. CASE \E i \in Icon, id \in Identities : i.win = w /\ IsOf(i, id) /\ Adds(i)
  <2>1. PICK i \in Icon, id \in Identities : i.win = w /\ IsOf(i, id) /\ Adds(i)
    BY <1>4
  <2>2. icons' = Append(icons, i) /\ \A k \in 1..Len(icons) : icons[k].win # i.win
    BY <2>1 DEF Adds
  <2>3. Keyed(icons')
    BY <1>1, <2>1, <2>2, OfAppend
  <2>4. /\ Len(icons') = Len(icons) + 1 /\ icons'[Len(icons) + 1] = i
        /\ \A k \in 1..Len(icons) : icons'[k] = icons[k]
    BY <1>1, <2>2, AppendProperties
  <2>5. ASSUME NEW k \in 1..Len(icons') PROVE window[icons'[k].win] # "unborn"
    <3>1. k \in 1..Len(icons) \/ k = Len(icons) + 1
      BY <1>1, <2>4
    <3> QED
      BY <1>1, <2>1, <2>4, <3>1
  <2>6. AddOf(i) \in GoodMsgs
    BY <2>1, GoodOnes DEF IsOf
  <2>7. UNCHANGED stack \/ \E f \in Frame : stack' = <<f>> \o stack /\ CallOK(f)'
    BY <1>3, <2>1, <2>6 DEF Adds
  <2>8. ToldInv' /\ CallsInv'
    BY <1>2, <2>4, <2>7, Grown
  <2> QED
    BY <1>2, <2>3, <2>5, <2>8 DEF SoundInv, ListsInv
<1>5. CASE \E k \in 1..Len(icons), i \in Icon : i.win = w /\ Turned(k, i)
  <2>1. PICK k \in 1..Len(icons), i \in Icon : i.win = w /\ Turned(k, i)
    BY <1>5
  <2>2. icons' = [icons EXCEPT ![k] = i] /\ IsOf(i, icons[k])
    BY <2>1 DEF Turned
  <2>3. Keyed(icons')
    BY <1>1, <2>1, <2>2, OfExcept
  <2>4. /\ Len(icons') = Len(icons)
        /\ \A n \in 1..Len(icons) : icons'[n] = IF n = k THEN i ELSE icons[n]
    BY <1>1, <2>1, <2>2, ExceptSeq, LenProperties
  <2>5. \A n \in 1..Len(icons) : icons'[n].win = icons[n].win
    BY <2>2, <2>4 DEF IsOf
  <2>6. \A n \in 1..Len(icons') : window[icons'[n].win] # "unborn"
    BY <1>1, <2>4, <2>5
  <2>7. UNCHANGED stack \/ \E f \in Frame : stack' = <<f>> \o stack /\ CallOK(f)'
    BY <1>3, <2>1 DEF Turned
  <2>8. ToldInv' /\ CallsInv'
    BY <1>2, <2>5, <2>7, Grown
  <2> QED
    BY <1>2, <2>3, <2>6, <2>8 DEF SoundInv, ListsInv
<1>6. CASE \E k \in 1..Len(icons) : icons[k].win = w /\ Deletes(k)
  <2>1. PICK k \in 1..Len(icons) : icons[k].win = w /\ Deletes(k)
    BY <1>6
  <2>2. icons' = icons /\ k \in Nat
    BY <1>1, <2>1 DEF Deletes
  <2>3. PICK m \in GoodMsgs : /\ m.win = icons[k].win
                              /\ stack' = <<Call("delete", k, m, None)>> \o stack
    BY <2>1 DEF Deletes
  <2>4. PICK f : f = Call("delete", k, m, None)
    OBVIOUS
  <2>5. f \in Frame /\ CallOK(f)'
    BY <2>2, <2>3, <2>4, CallIs
  <2>6. ToldInv' /\ CallsInv'
    BY <1>2, <2>2, <2>3, <2>4, <2>5, Grown
  <2> QED
    BY <1>2, <2>2, <2>6 DEF SoundInv, ListsInv
<1> QED
  BY <1>4, <1>5, <1>6 DEF Change

\* The innermost call gets on with its listeners.
LEMMA TopMoves ==
  ASSUME TypeInv, SoundInv, stack # <<>>, Top.todo # <<>>, UNCHANGED <<icons, life>>,
         NEW f, f \in {[Top EXCEPT !.todo = Tail(@)], [Top EXCEPT !.sent = TRUE],
                       [Top EXCEPT !.todo = Tail(@), !.sent = FALSE]},
         Replace(f)
  PROVE  f \in Frame /\ CallsInv' /\ Elems(stack') = {f} \cup Elems(Tail(stack))
<1>1. Top \in Frame /\ CallOK(Top) /\ Tail(stack) \in Seq(Frame) /\ Elems(Tail(stack)) \subseteq Elems(stack)
  <2>1. Top \in Elems(stack)
    BY Beneath
  <2> QED
    BY <2>1, Beneath, Stacked DEF SoundInv, CallsInv
<1>2. f \in Frame
  BY SameFrame DEF TypeInv
<1>3. /\ f.op = Top.op /\ f.it = Top.it /\ f.msg = Top.msg /\ f.for = Top.for
      /\ f.todo \in {Top.todo, Tail(Top.todo)}
  BY <1>1 DEF Frame
<1>4. InOrder(f.todo)
  <2>1. InOrder(Top.todo) /\ Top.todo \in Seq(Lsn)
    BY <1>1 DEF CallOK, Frame
  <2>2. InOrder(Tail(Top.todo))
    BY <2>1, Shorter
  <2> QED
    BY <1>3, <2>1, <2>2
<1>5. Elems(stack') = {f} \cup Elems(Tail(stack))
  BY <1>1, <1>2, ElemsPushed DEF Replace
<1>6. CallOK(f)'
  BY <1>1, <1>3, <1>4 DEF CallOK
<1>7. \A g \in Elems(Tail(stack)) : CallOK(g)'
  BY <1>1 DEF SoundInv, CallsInv, CallOK
<1> QED
  BY <1>2, <1>5, <1>6, <1>7 DEF CallsInv

LEMMA SendSound == ASSUME TypeInv, SoundInv, SendNext PROVE SoundInv'
<1> DEFINE a == Head(Top.todo)
<1>1. /\ stack # <<>> /\ Top.todo # <<>> /\ ~Top.sent
      /\ UNCHANGED <<window, icons, registered, life>>
      /\ \/ Replace([Top EXCEPT !.todo = Tail(@)]) /\ UNCHANGED <<shown, inbox>>
         \/ /\ life[a] # "off" /\ shown' = [shown EXCEPT ![a] = Handled(@, Top.msg)]
            /\ Replace([Top EXCEPT !.todo = Tail(@)]) /\ UNCHANGED inbox
         \/ /\ life[a] # "off" /\ inbox' = [inbox EXCEPT ![a] = Append(@, Top.msg)]
            /\ Replace([Top EXCEPT !.sent = TRUE]) /\ UNCHANGED shown
  BY DEF SendNext
<1>2. Top \in Frame /\ Top.msg \in GoodMsgs /\ a \in Lsn /\ Elems(stack) = {Top} \cup Elems(Tail(stack))
  <2>1. Top \in Elems(stack)
    BY <1>1, Beneath
  <2>2. a \in Lsn
    BY <1>1, SameFrame DEF TypeInv
  <2> QED
    BY <1>1, <2>1, <2>2, Beneath, Stacked DEF SoundInv, CallsInv, CallOK
<1>3. /\ shown \in [Lsn -> Lists] /\ inbox \in [Lsn -> Seq(GoodMsgs)]
      /\ Handled(shown[a], Top.msg) \in Lists /\ Append(inbox[a], Top.msg) \in Seq(GoodMsgs)
  <2>1. shown \in [Lsn -> Lists] /\ inbox \in [Lsn -> Seq(GoodMsgs)]
    BY DEF SoundInv, ListsInv
  <2>2. shown[a] \in Lists /\ inbox[a] \in Seq(GoodMsgs)
    BY <1>2, <2>1
  <2> QED
    BY <1>2, <2>1, <2>2, HandledOf, AppendProperties
<1>4. PICK f : /\ f \in {[Top EXCEPT !.todo = Tail(@)], [Top EXCEPT !.sent = TRUE]} /\ Replace(f)
               /\ inbox' # inbox => f = [Top EXCEPT !.sent = TRUE]
  BY <1>1
<1>5. f \in Frame /\ CallsInv' /\ Elems(stack') = {f} \cup Elems(Tail(stack))
  BY <1>1, <1>4, TopMoves
<1> HIDE DEF a
<1>6. shown' \in [Lsn -> Lists] /\ inbox' \in [Lsn -> Seq(GoodMsgs)]
  BY <1>1, <1>2, <1>3
<1>7. \A l \in Lsn : life[l] = "off" => shown'[l] = shown[l] /\ inbox'[l] = inbox[l]
  BY <1>1, <1>3
<1>8. ASSUME NEW l \in Lsn, inbox'[l] # <<>>
      PROVE  \E g \in Elems(stack') : g.sent /\ Head(g.todo) = l
  <2>1. CASE inbox[l] # <<>>
    <3>1. PICK g \in Elems(stack) : g.sent /\ Head(g.todo) = l
      BY <2>1 DEF SoundInv, ToldInv
    <3>2. g \in Elems(Tail(stack))
      BY <1>1, <1>2, <3>1
    <3> QED
      BY <1>5, <3>1, <3>2
  <2>2. CASE inbox[l] = <<>>
    <3>1. inbox' # inbox /\ l = a
      BY <1>1, <1>3, <1>8, <2>2
    <3>2. f = [Top EXCEPT !.sent = TRUE]
      BY <1>4, <3>1
    <3>3. f.sent /\ Head(f.todo) = l
      BY <1>2, <3>1, <3>2 DEF Frame, a
    <3> QED
      BY <1>5, <3>3
  <2> QED
    BY <2>1, <2>2
<1>9. ToldInv'
  BY <1>1, <1>7, <1>8 DEF SoundInv, ToldInv
<1>10. ListsInv'
  BY <1>1, <1>6 DEF SoundInv, ListsInv
<1> QED
  BY <1>5, <1>9, <1>10 DEF SoundInv

LEMMA AnsweredSound == ASSUME TypeInv, SoundInv, Answered PROVE SoundInv'
<1> DEFINE f == [Top EXCEPT !.todo = Tail(@), !.sent = FALSE]
<1>1. /\ stack # <<>> /\ Top.sent /\ inbox[Head(Top.todo)] = <<>> /\ Replace(f)
      /\ UNCHANGED <<window, icons, registered, life, shown, inbox>>
  BY DEF Answered
<1>2. Elems(stack) = {Top} \cup Elems(Tail(stack)) /\ Top.todo # <<>>
  <2>1. Top \in Elems(stack)
    BY <1>1, Beneath
  <2> QED
    BY <1>1, <2>1, Beneath, Stacked DEF Waiting
<1>3. CallsInv' /\ Elems(stack') = {f} \cup Elems(Tail(stack))
  BY <1>1, <1>2, TopMoves
<1>4. ASSUME NEW l \in Lsn, inbox[l] # <<>>
      PROVE  \E g \in Elems(stack') : g.sent /\ Head(g.todo) = l
  <2>1. PICK g \in Elems(stack) : g.sent /\ Head(g.todo) = l
    BY <1>4 DEF SoundInv, ToldInv
  <2>2. g \in Elems(Tail(stack))
    BY <1>1, <1>2, <1>4, <2>1
  <2> QED
    BY <1>3, <2>1, <2>2
<1>5. ToldInv'
  BY <1>1, <1>4 DEF SoundInv, ToldInv
<1>6. ListsInv'
  BY <1>1 DEF SoundInv, ListsInv
<1> QED
  BY <1>3, <1>5, <1>6 DEF SoundInv

LEMMA NotifiedSound == ASSUME TypeInv, SoundInv, ThreadedLast, Notified PROVE SoundInv'
<1>1. /\ stack # <<>> /\ Top.todo = <<>> /\ UNCHANGED <<window, registered, shown, inbox>>
      /\ \/ stack' = Tail(stack) /\ Ends
         \/ /\ UNCHANGED <<icons, life>>
            /\ \E k \in 1..Len(icons), m \in GoodMsgs : Further(k, m)
  BY NotifiedIs DEF SoundInv
<1>2. /\ Elems(stack) = {Top} \cup Elems(Tail(stack)) /\ Tail(stack) \in Seq(Frame)
      /\ \A f \in Elems(Tail(stack)) : Top.op # "notify" => f.op = "notify"
  BY <1>1, Beneath
<1>3. Top \in Elems(stack)
  BY <1>2
<1>4. CallOK(Top) /\ ~Top.sent /\ Top.it \in (IF Top.op = "notify" THEN {0} ELSE 1..Len(icons))
  BY <1>1, <1>3, Stacked DEF SoundInv, CallsInv, Waiting
<1>5. ASSUME NEW l \in Lsn, inbox[l] # <<>>
      PROVE  \E g \in Elems(Tail(stack)) : g.sent /\ Head(g.todo) = l
  <2>1. PICK g \in Elems(stack) : g.sent /\ Head(g.todo) = l
    BY <1>5 DEF SoundInv, ToldInv
  <2> QED
    BY <1>2, <1>4, <2>1
<1>6. /\ icons \in Seq(Icon) /\ Keyed(icons) /\ Len(icons) \in Nat
      /\ \A k \in 1..Len(icons) : window[icons[k].win] # "unborn"
  BY Lengths DEF TypeInv, Typed, SoundInv, ListsInv
<1>7. CASE stack' = Tail(stack) /\ Ends
  <2>1. \A l \in Lsn : life'[l] = "off" <=> life[l] = "off"
    <3>1. CASE UNCHANGED life
      BY <3>1
    <3>2. CASE Top.op = "resend" /\ life' = [life EXCEPT ![Top.for] = "on"]
      <4>1. life[Top.for] = "asking"
        BY <1>4, <3>2 DEF CallOK
      <4> QED
        BY <3>2, <4>1 DEF TypeInv, Typed
    <3> QED
      BY <1>7, <3>1, <3>2 DEF Ends
  <2>2. ToldInv'
    BY <1>1, <1>5, <1>7, <2>1 DEF SoundInv, ToldInv
  <2>3. ASSUME NEW f \in Elems(Tail(stack)) PROVE CallOK(f)'
    <3>1. CallOK(f)
      BY <1>2 DEF SoundInv, CallsInv
    <3>2. CASE Top.op = "notify"
      BY <1>7, <3>1, <3>2 DEF Ends, CallOK
    <3>3. CASE Top.op # "notify"
      BY <1>2, <3>1, <3>3 DEF CallOK
    <3> QED
      BY <3>2, <3>3
  <2>4. CallsInv'
    BY <1>7, <2>3 DEF CallsInv
  <2>5. ListsInv'
    <3>1. CASE UNCHANGED icons
      BY <1>1, <3>1 DEF SoundInv, ListsInv
    <3>2. CASE Top.op = "delete" /\ icons' = RemoveAt(icons, Top.it)
      <4>1. Top.it \in 1..Len(icons)
        BY <1>4, <3>2
      <4>2. Keyed(icons')
        BY <1>6, <3>2, <4>1, OfRemove
      <4>3. /\ icons' \in Seq(Icon) /\ Len(icons') = Len(icons) - 1 /\ Top.it \in Nat
            /\ \A i \in 1..(Len(icons) - 1) : icons'[i] = IF i < Top.it THEN icons[i] ELSE icons[i + 1]
        <5>1. Top.it \in Nat
          BY <1>6, <4>1
        <5> QED
          BY <1>6, <3>2, <4>1, <5>1, WithoutOne
      <4>4. ASSUME NEW k \in 1..Len(icons') PROVE window[icons'[k].win] # "unborn"
        <5>1. k \in 1..Len(icons) /\ k + 1 \in 1..Len(icons) /\ k \in 1..(Len(icons) - 1)
          BY <1>6, <4>3
        <5> QED
          BY <1>6, <4>3, <5>1
      <4> QED
        BY <1>1, <4>2, <4>4 DEF SoundInv, ListsInv
    <3> QED
      BY <1>7, <3>1, <3>2 DEF Ends
  <2> QED
    BY <2>2, <2>4, <2>5 DEF SoundInv
<1>8. CASE UNCHANGED <<icons, life>> /\ \E k \in 1..Len(icons), m \in GoodMsgs : Further(k, m)
  <2>1. PICK k \in 1..Len(icons), m \in GoodMsgs : Further(k, m)
    BY <1>8
  <2>2. PICK f : f = Call("resend", k, m, Top.for)
    OBVIOUS
  <2>3. /\ Top.op = "resend" /\ Top.for \in Lsn /\ m.win = icons[k].win
        /\ stack' = <<f>> \o Tail(stack)
    BY <2>1, <2>2 DEF Further
  <2>4. life[Top.for] = "asking"
    BY <1>4, <2>3 DEF CallOK
  <2>5. f \in Frame /\ CallOK(f)'
    <3>1. k \in Nat /\ m.win = icons'[k].win /\ life'[Top.for] = "asking"
      BY <1>6, <1>8, <2>3, <2>4
    <3> QED
      BY <2>2, <2>3, <3>1, CallIs
  <2>6. Elems(stack') = {f} \cup Elems(Tail(stack))
    BY <1>2, <2>3, <2>5, ElemsPushed
  <2>7. ASSUME NEW g \in Elems(Tail(stack)) PROVE CallOK(g)'
    BY <1>2, <1>8 DEF SoundInv, CallsInv, CallOK
  <2>8. CallsInv'
    BY <2>5, <2>6, <2>7 DEF CallsInv
  <2>9. ToldInv'
    BY <1>1, <1>5, <1>8, <2>6 DEF SoundInv, ToldInv
  <2> QED
    BY <1>1, <1>8, <2>8, <2>9 DEF SoundInv, ListsInv
<1> QED
  BY <1>1, <1>7, <1>8

LEMMA HandleSound == ASSUME TypeInv, SoundInv, NEW a \in Lsn, HandleSent(a) PROVE SoundInv'
<1>1. /\ inbox[a] # <<>> /\ UNCHANGED <<window, icons, registered, life, stack>>
      /\ shown' = [shown EXCEPT ![a] = Handled(@, Head(inbox[a]))]
      /\ inbox' = [inbox EXCEPT ![a] = Tail(@)]
      /\ shown \in [Lsn -> Lists] /\ inbox \in [Lsn -> Seq(GoodMsgs)]
  BY DEF HandleSent, SoundInv, ListsInv
<1>2. Head(inbox[a]) \in GoodMsgs /\ Tail(inbox[a]) \in Seq(GoodMsgs) /\ shown[a] \in Lists
  BY <1>1, Popped
<1>3. shown' \in [Lsn -> Lists] /\ inbox' \in [Lsn -> Seq(GoodMsgs)]
  BY <1>1, <1>2, HandledOf
<1>4. life[a] # "off"
  BY <1>1 DEF SoundInv, ToldInv
<1>5. \A l \in Lsn : /\ inbox'[l] # <<>> => inbox[l] # <<>>
                     /\ life[l] = "off" => shown'[l] = shown[l] /\ inbox'[l] = inbox[l]
  BY <1>1, <1>4
<1>6. ToldInv'
  BY <1>1, <1>5 DEF SoundInv, ToldInv
<1>7. CallsInv'
  BY <1>1 DEF SoundInv, CallsInv, CallOK
<1> QED
  BY <1>1, <1>3, <1>6, <1>7 DEF SoundInv, ListsInv

LEMMA TraySound ==
  ASSUME TypeInv, SoundInv, ThreadedLast, NEW l \in Lsn, SendSystemTray(l)
  PROVE  SoundInv'
<1>1. /\ life[l] = "starting" /\ Within /\ UNCHANGED <<window, registered, shown, inbox>>
      /\ icons' \in Seq(Icon) /\ Keyed(icons') /\ Len(icons') \in Nat
      /\ \A k \in 1..Len(icons') : window'[icons'[k].win] # "unborn"
      /\ \/ life' = [life EXCEPT ![l] = "on"] /\ UNCHANGED stack
         \/ \E k \in 1..Len(icons') : First(k, l)
  BY TrayIs, LenProperties DEF SoundInv, Drops
<1>2. life' = [life EXCEPT ![l] = "on"] \/ life' = [life EXCEPT ![l] = "asking"]
  BY <1>1 DEF First
<1>3. \A k \in Lsn : life'[k] = "off" <=> life[k] = "off"
  BY <1>1, <1>2 DEF TypeInv, Typed
<1>4. ASSUME NEW f \in Elems(stack) PROVE CallOK(f)'
  <2>1. f.op = "notify"
    BY <1>1, NoneIterates DEF Within
  <2> QED
    BY <2>1 DEF SoundInv, CallsInv, CallOK
<1>5. Elems(stack) \subseteq Elems(stack') /\ CallsInv'
  <2>1. CASE UNCHANGED stack
    BY <1>4, <2>1 DEF CallsInv
  <2>2. CASE \E k \in 1..Len(icons') : First(k, l)
    <3>1. PICK k \in 1..Len(icons') : First(k, l)
      BY <2>2
    <3>2. PICK m : m = AddOf(icons'[k])
      OBVIOUS
    <3>3. PICK f : f = Call("resend", k, m, l)
      OBVIOUS
    <3>4. PICK id \in Identities : IsOf(icons'[k], id)
      BY <1>1 DEF Keyed
    <3>5. m \in GoodMsgs /\ m.win = icons'[k].win
      <4>1. icons'[k] \in Icon
        BY <1>1, ElementOfSeq
      <4>2. AddOf(icons'[k]) \in GoodMsgs
        BY <3>4, <4>1, GoodOnes DEF IsOf
      <4> QED
        BY <3>2, <4>2 DEF AddOf
    <3>6. stack' = <<f>> \o stack /\ life'[l] = "asking"
      BY <3>1, <3>2, <3>3 DEF First, TypeInv, Typed
    <3>7. k \in Nat
      BY <1>1
    <3>8. f \in Frame /\ CallOK(f)'
      BY <3>3, <3>5, <3>6, <3>7, CallIs
    <3>9. Elems(stack') = {f} \cup Elems(stack)
      BY <3>6, <3>8, ElemsPushed DEF TypeInv, Typed
    <3> QED
      BY <1>4, <3>8, <3>9 DEF CallsInv
  <2> QED
    BY <1>1, <2>1, <2>2
<1>6. ToldInv'
  BY <1>1, <1>3, <1>5 DEF SoundInv, ToldInv
<1> QED
  BY <1>1, <1>5, <1>6 DEF SoundInv, ListsInv

LEMMA DeadIs ==
  ASSUME TypeInv, SoundInv, NEW l \in Lsn, MouseOverDead(l)
  PROVE  /\ life[l] = "on" /\ inbox[l] = <<>>
         /\ UNCHANGED <<window, icons, registered, life, inbox, stack>>
         /\ \E m \in GoodMsgs : /\ window[m.win] = "dead"
                                /\ shown' = [shown EXCEPT ![l] = Handled(@, m)]
<1>1. /\ life[l] = "on" /\ inbox[l] = <<>>
      /\ UNCHANGED <<window, icons, registered, life, inbox, stack>>
  BY DEF MouseOverDead
<1>2. shown[l] \in Lists /\ shown \in [Lsn -> Lists]
  BY DEF SoundInv, ListsInv
<1>3. PICK k \in DOMAIN shown[l] :
        /\ window[shown[l][k].win] = "dead"
        /\ shown' = [shown EXCEPT ![l] = Handled(shown[l], KeyOf("delete", shown[l][k], shown[l][k]))]
  BY <1>2 DEF MouseOverDead
<1>4. k \in 1..Len(shown[l]) /\ shown[l][k] \in Copy
  BY <1>2, <1>3, LenProperties, ElementOfSeq DEF Lists
<1>5. PICK id \in Identities : IsOf(shown[l][k], id)
  BY <1>2, <1>4 DEF Lists, Keyed
<1>6. PICK m : m = KeyOf("delete", shown[l][k], shown[l][k])
  OBVIOUS
<1>7. m \in GoodMsgs
  BY <1>4, <1>5, <1>6, GoodOnes DEF IsOf
<1>8. m.win = shown[l][k].win
  BY <1>6 DEF KeyOf
<1>9. shown' = [shown EXCEPT ![l] = Handled(@, m)]
  BY <1>2, <1>3, <1>6
<1> QED
  BY <1>1, <1>3, <1>7, <1>8, <1>9

LEMMA LifeSound ==
  ASSUME TypeInv, SoundInv, NEW l \in Lsn, Register(l) \/ Unregister(l) \/ MouseOverDead(l)
  PROVE  SoundInv'
<1>1. CASE Register(l)
  <2>1. /\ stack = <<>> /\ life[l] = "off" /\ UNCHANGED <<window, icons, shown, inbox, stack>>
        /\ life' = [life EXCEPT ![l] = "starting"] /\ registered' = registered \cup {l}
    BY <1>1 DEF Register, Free
  <2>2. Elems(<<>>) = {}
    <3>1. 1..Len(<<>>) = {}
      OBVIOUS
    <3> QED
      BY <3>1 DEF Elems
  <2>3. \A k \in Lsn : life'[k] = IF k = l THEN "starting" ELSE life[k]
    BY <2>1 DEF TypeInv, Typed
  <2>4. ToldInv'
    BY <2>1, <2>3 DEF SoundInv, ToldInv
  <2> QED
    BY <2>1, <2>2, <2>4 DEF SoundInv, ListsInv, CallsInv
<1>2. CASE Unregister(l)
  <2>1. /\ life[l] = "on" /\ UNCHANGED <<window, icons, stack>>
        /\ life' = [life EXCEPT ![l] = "off"] /\ registered' = registered \ {l}
        /\ shown' = [shown EXCEPT ![l] = <<>>] /\ inbox' = [inbox EXCEPT ![l] = <<>>]
    BY <1>2 DEF Unregister
  <2>2. /\ shown \in [Lsn -> Lists] /\ inbox \in [Lsn -> Seq(GoodMsgs)]
        /\ <<>> \in Lists /\ <<>> \in Seq(GoodMsgs)
    <3>1. 1..Len(<<>>) = {} /\ <<>> \in Seq(Copy) /\ <<>> \in Seq(GoodMsgs)
      OBVIOUS
    <3>2. Keyed(<<>>)
      BY <3>1 DEF Keyed, Uniq
    <3> QED
      BY <3>1, <3>2 DEF SoundInv, ListsInv, Lists
  <2>3. /\ \A k \in Lsn : life'[k] = IF k = l THEN "off" ELSE life[k]
        /\ \A k \in Lsn : shown'[k] = IF k = l THEN <<>> ELSE shown[k]
        /\ \A k \in Lsn : inbox'[k] = IF k = l THEN <<>> ELSE inbox[k]
        /\ shown' \in [Lsn -> Lists] /\ inbox' \in [Lsn -> Seq(GoodMsgs)]
    BY <2>1, <2>2 DEF TypeInv, Typed
  <2>4. ToldInv'
    BY <2>1, <2>3 DEF SoundInv, ToldInv
  <2>5. CallsInv'
    <3> SUFFICES ASSUME NEW f \in Elems(stack) PROVE CallOK(f)'
      BY <2>1 DEF CallsInv
    <3>1. CallOK(f)
      BY DEF SoundInv, CallsInv
    <3>2. f.op = "resend" => f.for # l
      BY <2>1, <3>1 DEF CallOK
    <3> QED
      BY <2>1, <2>3, <3>1, <3>2 DEF CallOK
  <2> QED
    BY <2>1, <2>3, <2>4, <2>5 DEF SoundInv, ListsInv
<1>3. CASE MouseOverDead(l)
  <2>1. /\ life[l] = "on" /\ UNCHANGED <<window, icons, registered, life, inbox, stack>>
    BY <1>3, DeadIs
  <2>2. PICK m \in GoodMsgs : shown' = [shown EXCEPT ![l] = Handled(@, m)]
    BY <1>3, DeadIs
  <2>3. shown \in [Lsn -> Lists] /\ inbox \in [Lsn -> Seq(GoodMsgs)]
    BY DEF SoundInv, ListsInv
  <2>4. Handled(shown[l], m) \in Lists
    BY <2>3, HandledOf
  <2>5. shown' \in [Lsn -> Lists] /\ \A k \in Lsn : k # l => shown'[k] = shown[k]
    BY <2>2, <2>3, <2>4
  <2>6. ToldInv'
    BY <2>1, <2>5 DEF SoundInv, ToldInv
  <2>7. CallsInv'
    BY <2>1 DEF SoundInv, CallsInv, CallOK
  <2> QED
    BY <2>1, <2>3, <2>5, <2>6, <2>7 DEF SoundInv, ListsInv
<1> QED
  BY <1>1, <1>2, <1>3

LEMMA WindowSound == ASSUME TypeInv, SoundInv, NEW w \in Windows, WindowChanges(w) PROVE SoundInv'
<1>1. UNCHANGED <<icons, registered, life, shown, inbox, stack>>
  BY DEF WindowChanges
<1>2. \A k \in 1..Len(icons) : window[icons[k].win] # "unborn" => window'[icons[k].win] # "unborn"
  <2> SUFFICES ASSUME NEW k \in 1..Len(icons), window[icons[k].win] # "unborn"
               PROVE  window'[icons[k].win] # "unborn"
    OBVIOUS
  <2>1. icons[k] \in Icon
    BY ElementOfSeq DEF TypeInv, Typed
  <2>2. icons[k].win \in Windows
    BY <2>1 DEF Icon
  <2> QED
    BY <2>2 DEF WindowChanges, TypeInv, Typed
<1>3. ToldInv'
  BY <1>1 DEF SoundInv, ToldInv
<1>4. CallsInv'
  BY <1>1 DEF SoundInv, CallsInv, CallOK
<1> QED
  BY <1>1, <1>2, <1>3, <1>4 DEF SoundInv, ListsInv

-----------------------------------------------------------------------------
(* What is shown stays right.                                               *)

LEMMA WantsOne ==
  ASSUME NEW S, NEW list \in Seq(S), Keyed(list), NEW k \in 1..Len(list)
  PROVE  Wants(list, list[k].win) = Seen(list[k])
<1>1. Of(list, list[k].win) = {list[k]}
  BY DEF Of, Keyed, Uniq
<1> QED
  BY <1>1 DEF Wants, Seen

LEMMA WantsNone ==
  ASSUME NEW list, NEW w, \A k \in 1..Len(list) : list[k].win = w => ~Valid(list[k])
  PROVE  Wants(list, w) = {}
BY DEF Wants, Of

LEMMA Stays ==
  ASSUME NEW w, NEW l, Right(l, w), Of(Coming(l)', w) = Of(Coming(l), w), Wanted(w)' = Wanted(w),
         Owed(l, w)' => Owed(l, w) \/ Wanted(w) = {}
  PROVE  Right(l, w)'
BY DEF Right, All

LEMMA Parts ==
  ASSUME TypeInv, SoundInv, NEW l \in Lsn, NEW w
  PROVE  Coming(l) \in Lists /\ Of(Coming(l), w) \in SUBSET Copy
<1>1. Coming(l) \in Lists
  BY ComingIn DEF SoundInv
<1>2. Coming(l) \in Seq(Copy)
  BY <1>1 DEF Lists
<1>3. \A k \in 1..Len(Coming(l)) : Coming(l)[k] \in Copy
  BY <1>2, ElementOfSeq
<1> QED
  BY <1>1, <1>3 DEF Of

\* Handling, sending and answering.
LEMMA MovesRight ==
  ASSUME TypeInv, SoundInv, ShownInv, SendNext \/ Answered
  PROVE  ShownInv'
<1> SUFFICES ASSUME NEW w \in Windows, NEW l \in Lsn, window'[w] # "dead", life'[l] # "off"
             PROVE  Right(l, w)'
  BY DEF ShownInv
<1>1. stack # <<>> /\ UNCHANGED <<window, icons, life>>
  BY DEF SendNext, Answered
<1>2. Top \in Elems(stack) /\ Elems(stack) = {Top} \cup Elems(Tail(stack))
  BY <1>1, Beneath
<1>3. Top.todo # <<>> /\ Top \in Frame
  BY <1>2, Stacked DEF SendNext, Answered, Waiting
<1>4. PICK f : /\ f \in {[Top EXCEPT !.todo = Tail(@)], [Top EXCEPT !.sent = TRUE],
                         [Top EXCEPT !.todo = Tail(@), !.sent = FALSE]}
               /\ Replace(f)
  BY DEF SendNext, Answered
<1>5. f.op = Top.op /\ f.it = Top.it /\ f.msg = Top.msg /\ f.for = Top.for
  BY <1>3, <1>4 DEF Frame
<1>6. Elems(stack') = {f} \cup Elems(Tail(stack))
  BY <1>1, <1>3, <1>4, TopMoves
<1>7. Dying(w)' <=> Dying(w)
  BY <1>2, <1>5, <1>6 DEF Dying
<1>8. Owed(l, w)' <=> Owed(l, w)
  BY <1>1, <1>2, <1>5, <1>6 DEF Owed
<1>9. Wanted(w)' = Wanted(w)
  BY <1>1, <1>7 DEF Wanted
<1>10. Coming(l)' = Coming(l)
  BY <1>1, SendKeeps, AnswerKeeps DEF SoundInv
<1>11. Right(l, w)
  BY <1>1 DEF ShownInv
<1> QED
  BY <1>8, <1>9, <1>10, <1>11, Stays

LEMMA HandleRight ==
  ASSUME TypeInv, SoundInv, ShownInv, NEW a \in Lsn, HandleSent(a)
  PROVE  ShownInv'
<1> SUFFICES ASSUME NEW w \in Windows, NEW l \in Lsn, window'[w] # "dead", life'[l] # "off"
             PROVE  Right(l, w)'
  BY DEF ShownInv
<1>1. UNCHANGED <<window, icons, life, stack>>
  BY DEF HandleSent
<1>2. Coming(l)' = Coming(l)
  BY HandleKeeps DEF SoundInv
<1>3. Wanted(w)' = Wanted(w) /\ (Owed(l, w)' <=> Owed(l, w)) /\ Right(l, w)
  BY <1>1 DEF Wanted, Dying, Owed, ShownInv
<1> QED
  BY <1>2, <1>3, Stays

\* A notification.
LEMMA NotesIs ==
  ASSUME TypeInv, SoundInv, ThreadedLast, stack = <<>> \/ Waits, UNCHANGED <<shown, inbox>>,
         NEW op \in {"notify", "delete"}, NEW k \in Nat, NEW m \in GoodMsgs,
         op # "notify" => m.win = icons'[k].win,
         stack' = <<Call(op, k, m, None)>> \o stack
  PROVE  \E f : /\ f.op = op /\ f.msg = m /\ Elems(stack') = {f} \cup Elems(stack)
                /\ \A l \in Lsn : life[l] # "off" => Coming(l)' = Handled(Coming(l), m)
<1>1. PICK f : f = Call(op, k, m, None)
  OBVIOUS
<1>2. f \in Frame /\ f.op = op /\ f.msg = m /\ f.todo = Targets /\ ~f.sent
  BY <1>1, CallIs
<1>3. stack' = <<f>> \o stack /\ stack \in Seq(Frame)
  BY <1>1 DEF TypeInv, Typed
<1>4. Elems(stack') = {f} \cup Elems(stack)
  BY <1>2, <1>3, ElemsPushed
<1>5. ASSUME NEW l \in Lsn, life[l] # "off" PROVE Coming(l)' = Handled(Coming(l), m)
  <2>1. Calm
    BY DEF Calm, Waits
  <2> QED
    BY <1>2, <1>3, <1>5, <2>1, Begins DEF SoundInv
<1> QED
  BY <1>2, <1>4, <1>5

\* What is owed is the same where icons stay where they are.
LEMMA OwedSame ==
  ASSUME TypeInv, UNCHANGED life, \A k \in 1..Len(icons) : icons'[k].win = icons[k].win,
         \A f \in Elems(stack') : f \in Elems(stack) \/ f.op # "resend", NEW l, NEW w, Owed(l, w)'
  PROVE  Owed(l, w)
<1>1. CASE life[l] = "on"
  BY <1>1 DEF Owed
<1>2. CASE life[l] # "on"
  <2>1. PICK f \in Elems(stack') : /\ f.op = "resend" /\ f.for = l
                                   /\ \E k \in 1..f.it : icons'[k].win = w
    BY <1>2 DEF Owed
  <2>2. PICK k \in 1..f.it : icons'[k].win = w
    BY <2>1
  <2>3. f \in Elems(stack) /\ f.it \in 1..Len(icons) /\ Len(icons) \in Nat
    BY <2>1, Stacked, Lengths DEF TypeInv
  <2>4. k \in 1..Len(icons)
    BY <2>3
  <2>5. icons[k].win = w
    BY <2>2, <2>4
  <2> QED
    BY <2>1, <2>3, <2>5 DEF Owed
<1> QED
  BY <1>1, <1>2

LEMMA NotDying ==
  ASSUME TypeInv, NEW w, Asked(w)
  PROVE  ~Dying(w)
<1> SUFFICES ASSUME NEW f \in Elems(stack), f.op = "delete" PROVE f.msg.win # w
  BY DEF Dying
<1>1. PICK i \in 1..Len(stack) : f = stack[i]
  BY DEF Elems
<1>2. i \in DOMAIN stack
  BY Lengths DEF TypeInv
<1> QED
  BY <1>1, <1>2 DEF Asked, Asks

\* The icon that is asked about, and the others.
LEMMA AddRight ==
  ASSUME TypeInv, SoundInv, ThreadedLast, ShownInv, NEW i \in Icon, NEW id \in Identities,
         IsOf(i, id), Asked(i.win), Adds(i), NEW w \in Windows, NEW l \in Lsn, Right(l, w),
         life[l] # "off"
  PROVE  Right(l, w)'
<1>1. /\ icons \in Seq(Icon) /\ Keyed(icons) /\ Len(icons) \in Nat
      /\ icons' = Append(icons, i) /\ \A k \in 1..Len(icons) : icons[k].win # i.win
      /\ UNCHANGED <<life, shown, inbox>> /\ (stack = <<>> \/ Waits)
  BY Lengths DEF TypeInv, Typed, SoundInv, ListsInv, Adds, Asked, Within
<1>2. icons' \in Seq(Icon) /\ Keyed(icons') /\ Puts(icons, icons', i.win, {i})
  BY <1>1, OfAppend
<1>3. \A k \in 1..Len(icons) : icons'[k].win = icons[k].win
  BY <1>1, AppendProperties
<1>4. Wants(icons, i.win) = {} /\ Wants(icons', i.win) = Seen(i) /\ ~Dying(i.win)
  <2>1. Wants(icons, i.win) = {}
    BY <1>1, WantsNone
  <2>2. Wants(icons', i.win) = Seen(i)
    BY <1>2 DEF Puts, Wants, Seen
  <2> QED
    BY <2>1, <2>2, NotDying
<1>5. CASE ~Valid(i)
  <2>1. stack' = stack
    BY <1>5 DEF Adds
  <2>2. Coming(l)' = Coming(l) /\ (Dying(w)' <=> Dying(w))
    BY <1>1, <2>1 DEF Coming, Due, Top, Dying
  <2>3. Wants(icons', w) = Wants(icons, w)
    <3>1. CASE w = i.win
      BY <1>4, <1>5, <3>1 DEF Seen
    <3>2. CASE w # i.win
      BY <1>2, <3>2 DEF Puts, Wants
    <3> QED
      BY <3>1, <3>2
  <2>4. Wanted(w)' = Wanted(w)
    BY <2>2, <2>3 DEF Wanted
  <2>5. Owed(l, w)' => Owed(l, w)
    BY <1>1, <1>3, <2>1, OwedSame
  <2> QED
    BY <2>2, <2>4, <2>5, Stays
<1>6. CASE Valid(i)
  <2>1. PICK m : m = AddOf(i)
    OBVIOUS
  <2>2. m \in GoodMsgs /\ m.win = i.win /\ stack' = <<Call("notify", 0, m, None)>> \o stack
    <3>1. AddOf(i) \in GoodMsgs
      BY GoodOnes DEF IsOf
    <3> QED
      BY <1>6, <2>1, <3>1 DEF AddOf, Adds, Notes
  <2>3. PICK f : /\ f.op = "notify" /\ f.msg = m /\ Elems(stack') = {f} \cup Elems(stack)
                 /\ \A a \in Lsn : life[a] # "off" => Coming(a)' = Handled(Coming(a), m)
    BY <1>1, <2>2, NotesIs
  <2>4. Of(Coming(l)', w) = After(Of(Coming(l), w), m, w)
    BY <2>2, <2>3, Parts, HandledOf
  <2>5. Dying(w)' <=> Dying(w)
    BY <2>3 DEF Dying
  <2>6. Owed(l, w)' => Owed(l, w)
    BY <1>1, <1>3, <2>3, OwedSame
  <2>7. CASE w # i.win
    <3>1. Wanted(w)' = Wanted(w)
      BY <1>2, <2>5, <2>7 DEF Puts, Wants, Wanted
    <3>2. Of(Coming(l)', w) = Of(Coming(l), w)
      BY <2>2, <2>4, <2>7 DEF After
    <3> QED
      BY <2>6, <3>1, <3>2, Stays
  <2>8. CASE w = i.win
    <3>1. Wanted(w) = {} /\ Wanted(w)' = {i}
      BY <1>4, <1>6, <2>5, <2>8 DEF Wanted, Seen
    <3>2. Of(Coming(l)', w) = Effect(Of(Coming(l), w), AddOf(i))
      BY <2>1, <2>2, <2>4, <2>8 DEF After
    <3>3. Only(Of(Coming(l), w), {i})
      BY <3>1 DEF Right, Only
    <3>4. Only(Of(Coming(l)', w), {i}) /\ All(Of(Coming(l)', w), {i})
      BY <1>6, <3>2, <3>3, AddTurns
    <3> QED
      BY <3>1, <3>4 DEF Right
  <2> QED
    BY <2>7, <2>8
<1> QED
  BY <1>5, <1>6

LEMMA TurnRight ==
  ASSUME TypeInv, SoundInv, ThreadedLast, ShownInv, NEW k \in 1..Len(icons), NEW i \in Icon,
         Asked(i.win), Turned(k, i), NEW w \in Windows, NEW l \in Lsn, Right(l, w), life[l] # "off"
  PROVE  Right(l, w)'
<1>1. /\ icons \in Seq(Icon) /\ Keyed(icons) /\ Len(icons) \in Nat
      /\ icons' = [icons EXCEPT ![k] = i] /\ IsOf(i, icons[k])
      /\ UNCHANGED <<life, shown, inbox>> /\ (stack = <<>> \/ Waits)
  BY Lengths DEF TypeInv, Typed, SoundInv, ListsInv, Turned, Asked
<1>2. icons' \in Seq(Icon) /\ Keyed(icons') /\ Puts(icons, icons', i.win, {i})
  BY <1>1, OfExcept
<1>3. \A n \in 1..Len(icons) : icons'[n].win = icons[n].win
  <2>1. \A n \in 1..Len(icons) : icons'[n] = IF n = k THEN i ELSE icons[n]
    BY <1>1, LenProperties
  <2> QED
    BY <1>1, <2>1 DEF IsOf
<1>4. Wants(icons, i.win) = Seen(icons[k]) /\ Wants(icons', i.win) = Seen(i) /\ ~Dying(i.win)
  <2>1. Wants(icons, i.win) = Seen(icons[k])
    BY <1>1, WantsOne DEF IsOf
  <2>2. Wants(icons', i.win) = Seen(i)
    BY <1>2 DEF Puts, Wants, Seen
  <2> QED
    BY <2>1, <2>2, NotDying
<1>5. CASE UNCHANGED stack /\ ~Valid(i) /\ ~Valid(icons[k])
  <2>1. Coming(l)' = Coming(l) /\ (Dying(w)' <=> Dying(w))
    BY <1>1, <1>5 DEF Coming, Due, Top, Dying
  <2>2. Wants(icons', w) = Wants(icons, w)
    <3>1. CASE w = i.win
      BY <1>4, <1>5, <3>1 DEF Seen
    <3>2. CASE w # i.win
      BY <1>2, <3>2 DEF Puts, Wants
    <3> QED
      BY <3>1, <3>2
  <2>3. Wanted(w)' = Wanted(w)
    BY <2>1, <2>2 DEF Wanted
  <2>4. Owed(l, w)' => Owed(l, w)
    BY <1>1, <1>3, <1>5, OwedSame
  <2> QED
    BY <2>1, <2>3, <2>4, Stays
<1>6. CASE \E m \in GoodMsgs : m.win = i.win /\ Turns(m, icons[k], i) /\ Notes(m)
  <2>1. PICK m \in GoodMsgs : m.win = i.win /\ Turns(m, icons[k], i) /\ Notes(m)
    BY <1>6
  <2>2. PICK f : /\ f.op = "notify" /\ f.msg = m /\ Elems(stack') = {f} \cup Elems(stack)
                 /\ \A a \in Lsn : life[a] # "off" => Coming(a)' = Handled(Coming(a), m)
    BY <1>1, <2>1, NotesIs DEF Notes
  <2>3. Of(Coming(l)', w) = After(Of(Coming(l), w), m, w)
    BY <2>1, <2>2, Parts, HandledOf
  <2>4. Dying(w)' <=> Dying(w)
    BY <2>2 DEF Dying
  <2>5. Owed(l, w)' => Owed(l, w)
    BY <1>1, <1>3, <2>2, OwedSame
  <2>6. CASE w # i.win
    <3>1. Wanted(w)' = Wanted(w)
      BY <1>2, <2>4, <2>6 DEF Puts, Wants, Wanted
    <3>2. Of(Coming(l)', w) = Of(Coming(l), w)
      BY <2>1, <2>3, <2>6 DEF After
    <3> QED
      BY <2>5, <3>1, <3>2, Stays
  <2>7. CASE w = i.win
    <3>1. Wanted(w) = Seen(icons[k]) /\ Wanted(w)' = Seen(i)
      BY <1>4, <2>4, <2>7 DEF Wanted
    <3>2. Of(Coming(l)', w) = Effect(Of(Coming(l), w), m)
      BY <2>1, <2>3, <2>7 DEF After
    <3>3. Of(Coming(l), w) \in SUBSET Copy /\ Only(Of(Coming(l), w), Seen(icons[k]))
      BY <3>1, Parts DEF Right
    <3>4. /\ Only(Of(Coming(l)', w), Seen(i))
          /\ All(Of(Coming(l), w), Seen(icons[k])) => All(Of(Coming(l)', w), Seen(i))
      BY <2>1, <3>2, <3>3 DEF Turns
    <3> QED
      BY <2>5, <3>1, <3>4 DEF Right
  <2> QED
    BY <2>6, <2>7
<1> QED
  BY <1>5, <1>6 DEF Turned

LEMMA DeleteRight ==
  ASSUME TypeInv, SoundInv, ThreadedLast, ShownInv, NEW k \in 1..Len(icons),
         Asked(icons[k].win), Deletes(k), NEW w \in Windows, NEW l \in Lsn, Right(l, w),
         life[l] # "off"
  PROVE  Right(l, w)'
<1>1. UNCHANGED <<icons, life, shown, inbox>> /\ (stack = <<>> \/ Waits) /\ k \in Nat
  BY Lengths DEF TypeInv, Deletes, Asked, Within
<1>2. PICK m \in GoodMsgs : /\ m.nim = "delete" /\ m.win = icons[k].win
                            /\ stack' = <<Call("delete", k, m, None)>> \o stack
  BY DEF Deletes
<1>3. PICK f : /\ f.op = "delete" /\ f.msg = m /\ Elems(stack') = {f} \cup Elems(stack)
               /\ \A a \in Lsn : life[a] # "off" => Coming(a)' = Handled(Coming(a), m)
  BY <1>1, <1>2, NotesIs
<1>4. Of(Coming(l)', w) = After(Of(Coming(l), w), m, w)
  BY <1>2, <1>3, Parts, HandledOf
<1>5. Owed(l, w)' => Owed(l, w)
  BY <1>1, <1>3, OwedSame
<1>6. CASE w # m.win
  <2>1. Dying(w)' <=> Dying(w)
    BY <1>3, <1>6 DEF Dying
  <2>2. Wanted(w)' = Wanted(w)
    BY <1>1, <2>1 DEF Wanted
  <2>3. Of(Coming(l)', w) = Of(Coming(l), w)
    BY <1>4, <1>6 DEF After
  <2> QED
    BY <1>5, <2>2, <2>3, Stays
<1>7. CASE w = m.win
  <2>1. Dying(w)'
    BY <1>3, <1>7 DEF Dying
  <2>2. Wanted(w)' = {}
    BY <2>1 DEF Wanted
  <2>3. Of(Coming(l)', w) = {}
    BY <1>2, <1>4, <1>7 DEF After, Effect
  <2> QED
    BY <2>2, <2>3 DEF Right, Only, All
<1> QED
  BY <1>6, <1>7

LEMMA AskRight ==
  ASSUME TypeInv, SoundInv, ThreadedLast, ShownInv, NEW v \in Windows, Asked(v), Change(v)
  PROVE  ShownInv'
<1> SUFFICES ASSUME NEW w \in Windows, NEW l \in Lsn, window'[w] # "dead", life'[l] # "off"
             PROVE  Right(l, w)'
  BY DEF ShownInv
<1>1. Right(l, w) /\ life[l] # "off"
  BY DEF Asked, ShownInv
<1>2. CASE \E i \in Icon, id \in Identities : i.win = v /\ IsOf(i, id) /\ Adds(i)
  <2>1. PICK i \in Icon, id \in Identities : i.win = v /\ IsOf(i, id) /\ Adds(i)
    BY <1>2
  <2>2. Asked(i.win)
    BY <2>1
  <2> QED
    BY <1>1, <2>1, <2>2, AddRight
<1>3. CASE \E k \in 1..Len(icons), i \in Icon : i.win = v /\ Turned(k, i)
  <2>1. PICK k \in 1..Len(icons), i \in Icon : i.win = v /\ Turned(k, i)
    BY <1>3
  <2>2. Asked(i.win)
    BY <2>1
  <2> QED
    BY <1>1, <2>1, <2>2, TurnRight
<1>4. CASE \E k \in 1..Len(icons) : icons[k].win = v /\ Deletes(k)
  <2>1. PICK k \in 1..Len(icons) : icons[k].win = v /\ Deletes(k)
    BY <1>4
  <2>2. Asked(icons[k].win)
    BY <2>1
  <2> QED
    BY <1>1, <2>1, <2>2, DeleteRight
<1> QED
  BY <1>2, <1>3, <1>4 DEF Change

\* A call of notify returns, or SendSystemTray has come to its end.
LEMMA EndsRight ==
  ASSUME TypeInv, SoundInv, ShownInv, stack # <<>>, Top.todo = <<>>,
         UNCHANGED <<window, shown, inbox>>, stack' = Tail(stack), Ends
  PROVE  ShownInv'
<1> SUFFICES ASSUME NEW w \in Windows, NEW l \in Lsn, window'[w] # "dead", life'[l] # "off"
             PROVE  Right(l, w)'
  BY DEF ShownInv
<1>1. /\ Top \in Elems(stack) /\ Elems(stack) = {Top} \cup Elems(stack')
      /\ \A f \in Elems(stack') : f \in Elems(stack) /\ (Top.op # "notify" => f.op = "notify")
  BY Beneath
<1>2. Top.op # "notify" => Top.it \in 1..Len(icons) /\ Top.msg.win = icons[Top.it].win
  BY <1>1, Stacked DEF SoundInv, CallsInv, CallOK
<1>3. icons \in Seq(Icon) /\ Keyed(icons) /\ Len(icons) \in Nat
  BY Lengths DEF TypeInv, Typed, SoundInv, ListsInv
<1>4. Coming(l)' = Coming(l)
  <2>1. ~Due(l) /\ ~Due(l)'
    BY NoneDue, PoppedDue DEF Calm
  <2> QED
    BY <2>1 DEF Coming
<1>5. CASE Top.op = "notify" /\ UNCHANGED <<icons, life>>
  <2>1. Dying(w)' <=> Dying(w)
    BY <1>1, <1>5 DEF Dying
  <2>2. Wanted(w)' = Wanted(w)
    BY <1>5, <2>1 DEF Wanted
  <2>3. Owed(l, w)' => Owed(l, w)
    BY <1>1, <1>5 DEF Owed
  <2>4. Right(l, w)
    BY <1>5 DEF ShownInv
  <2> QED
    BY <1>4, <2>2, <2>3, <2>4, Stays
<1>6. CASE Top.op = "delete" /\ icons' = RemoveAt(icons, Top.it) /\ UNCHANGED life
  <2>1. Right(l, w)
    BY <1>6 DEF ShownInv
  <2>2. Owed(l, w)' => Owed(l, w)
    BY <1>1, <1>6 DEF Owed
  <2>3. Keyed(icons') /\ Puts(icons, icons', Top.msg.win, {})
    BY <1>2, <1>3, <1>6, OfRemove
  <2>4. ~Dying(w)'
    BY <1>1, <1>6 DEF Dying
  <2>5. Wanted(w)' = Wanted(w)
    <3>1. CASE w = Top.msg.win
      <4>1. Dying(w)
        BY <1>1, <1>6, <3>1 DEF Dying
      <4>2. Wants(icons', w) = {}
        BY <2>3, <3>1 DEF Puts, Wants
      <4> QED
        BY <2>4, <4>1, <4>2 DEF Wanted
    <3>2. CASE w # Top.msg.win
      <4>1. ~Dying(w)
        BY <1>1, <1>6, <3>2 DEF Dying
      <4>2. Wants(icons', w) = Wants(icons, w)
        BY <2>3, <3>2 DEF Puts, Wants
      <4> QED
        BY <2>4, <4>1, <4>2 DEF Wanted
    <3> QED
      BY <3>1, <3>2
  <2> QED
    BY <1>4, <2>1, <2>2, <2>5, Stays
<1>7. CASE /\ Top.op = "resend" /\ UNCHANGED icons /\ life' = [life EXCEPT ![Top.for] = "on"]
           /\ \A n \in 1..Len(icons) : Top.it < n => ~Valid(icons[n])
  <2>1. Top.for \in Lsn /\ life[Top.for] = "asking"
    BY <1>1, <1>7 DEF SoundInv, CallsInv, CallOK
  <2>2. life[l] # "off" /\ (l # Top.for => life'[l] = life[l])
    BY <1>7, <2>1 DEF TypeInv, Typed
  <2>3. Right(l, w)
    BY <2>2 DEF ShownInv
  <2>4. ~Dying(w)' /\ ~Dying(w)
    BY <1>1, <1>7 DEF Dying
  <2>5. Wanted(w)' = Wanted(w)
    BY <1>7, <2>4 DEF Wanted
  <2>6. ASSUME Owed(l, w)' PROVE Owed(l, w) \/ Wanted(w) = {}
    <3>1. CASE l # Top.for
      BY <1>1, <1>7, <2>2, <2>6, <3>1 DEF Owed
    <3>2. CASE l = Top.for /\ \E k \in 1..Top.it : icons[k].win = w
      BY <1>1, <1>7, <3>2 DEF Owed
    <3>3. CASE \A k \in 1..Top.it : icons[k].win # w
      <4>1. ASSUME NEW k \in 1..Len(icons), icons[k].win = w PROVE ~Valid(icons[k])
        <5>1. k \notin 1..Top.it
          BY <3>3, <4>1
        <5>2. Top.it < k
          BY <1>2, <1>3, <1>7, <5>1
        <5> QED
          BY <1>7, <5>2
      <4> QED
        BY <2>4, <4>1, WantsNone DEF Wanted
    <3> QED
      BY <3>1, <3>2, <3>3
  <2> QED
    BY <1>4, <2>3, <2>5, <2>6, Stays
<1> QED
  BY <1>5, <1>6, <1>7 DEF Ends

\* SendSystemTray comes to the next icon.
LEMMA FurtherRight ==
  ASSUME TypeInv, SoundInv, ThreadedLast, ShownInv, stack # <<>>, Top.todo = <<>>,
         UNCHANGED <<window, icons, life, shown, inbox>>,
         NEW k \in 1..Len(icons), NEW m \in GoodMsgs, Further(k, m)
  PROVE  ShownInv'
<1> SUFFICES ASSUME NEW w \in Windows, NEW l \in Lsn, window'[w] # "dead", life'[l] # "off"
             PROVE  Right(l, w)'
  BY DEF ShownInv
<1>1. /\ Top \in Elems(stack) /\ Elems(stack) = {Top} \cup Elems(Tail(stack))
      /\ Tail(stack) \in Seq(Frame)
      /\ Top.op = "resend" /\ \A f \in Elems(Tail(stack)) : f.op = "notify"
  BY Beneath DEF Further
<1>2. Top.it \in 1..Len(icons) /\ Top.for \in Lsn /\ life[Top.for] = "asking"
  BY <1>1, Stacked DEF SoundInv, CallsInv, CallOK
<1>3. icons \in Seq(Icon) /\ Keyed(icons) /\ Len(icons) \in Nat /\ k \in Nat
  BY Lengths DEF TypeInv, Typed, SoundInv, ListsInv
<1>4. PICK f : f = Call("resend", k, m, Top.for)
  OBVIOUS
<1>5. /\ f \in Frame /\ f.op = "resend" /\ f.it = k /\ f.msg = m /\ f.for = Top.for
      /\ f.todo = Targets /\ ~f.sent
  BY <1>2, <1>3, <1>4, CallIs DEF Further
<1>6. stack' = <<f>> \o Tail(stack) /\ m.win = icons[k].win
  BY <1>4 DEF Further
<1>7. Elems(stack') = {f} \cup Elems(Tail(stack))
  <2>1. Elems(<<f>> \o Tail(stack)) = {f} \cup Elems(Tail(stack))
    BY <1>1, <1>5, ElemsPushed
  <2> QED
    BY <1>6, <2>1
<1>8. ~Dying(w)' /\ ~Dying(w)
  BY <1>1, <1>5, <1>7 DEF Dying
<1>9. Wanted(w)' = Wanted(w) /\ Wanted(w) = Wants(icons, w)
  BY <1>8 DEF Wanted
<1>10. Right(l, w)
  BY DEF ShownInv
<1>11. Coming(l)' = Handled(Coming(l), m)
  <2>1. Calm
    BY DEF Calm
  <2> QED
    BY <1>1, <1>5, <1>6, <2>1, Begins DEF SoundInv
<1>12. Of(Coming(l)', w) = After(Of(Coming(l), w), m, w)
  BY <1>11, Parts, HandledOf
<1>13. CASE w # m.win
  <2>1. Of(Coming(l)', w) = Of(Coming(l), w)
    BY <1>12, <1>13 DEF After
  <2>2. ASSUME Owed(l, w)' PROVE Owed(l, w) \/ Wanted(w) = {}
    <3>1. CASE life[l] = "on"
      BY <3>1 DEF Owed
    <3>2. CASE life[l] # "on"
      <4>1. l = Top.for /\ \E n \in 1..k : icons[n].win = w
        BY <1>1, <1>5, <1>7, <2>2, <3>2 DEF Owed
      <4>2. PICK n \in 1..k : icons[n].win = w
        BY <4>1
      <4>3. n \in 1..Len(icons) /\ n # k
        BY <1>3, <1>6, <1>13, <4>2
      <4>4. CASE n \in 1..Top.it
        BY <1>1, <4>1, <4>2, <4>4 DEF Owed
      <4>5. CASE n \notin 1..Top.it
        <5>1. Top.it < n /\ n < k
          BY <1>2, <1>3, <4>2, <4>3, <4>5
        <5>2. ~Valid(icons[n])
          BY <1>2, <1>3, <4>3, <5>1 DEF Further
        <5>3. Wants(icons, w) = Seen(icons[n])
          BY <1>3, <4>2, <4>3, WantsOne
        <5> QED
          BY <1>9, <5>2, <5>3 DEF Seen
      <4> QED
        BY <4>4, <4>5
    <3> QED
      BY <3>1, <3>2
  <2> QED
    BY <1>9, <1>10, <2>1, <2>2, Stays
<1>14. CASE w = m.win
  <2> DEFINE c == Of(Coming(l), w)
  <2>1. Of(Coming(l)', w) = Effect(c, m)
    BY <1>12, <1>14 DEF After
  <2>2. Wants(icons, w) = Seen(icons[k])
    BY <1>3, <1>6, <1>14, WantsOne
  <2>3. c \in SUBSET Copy /\ Only(c, Seen(icons[k]))
    BY <1>9, <1>10, <2>2, Parts DEF Right
  <2>4. CASE k = Top.it /\ Turns(m, icons[k], icons[k])
    <3>1. l = Top.for => Owed(l, w)
      BY <1>1, <1>2, <1>6, <1>14, <2>4 DEF Owed
    <3>2. Owed(l, w)' => Owed(l, w)
      BY <1>1, <1>5, <1>7, <3>1 DEF Owed
    <3>3. Owed(l, w) => All(c, Seen(icons[k]))
      BY <1>9, <1>10, <2>2 DEF Right
    <3> HIDE DEF c
    <3>4. /\ Only(Effect(c, m), Seen(icons[k]))
          /\ All(c, Seen(icons[k])) => All(Effect(c, m), Seen(icons[k]))
      BY <2>3, <2>4 DEF Turns
    <3> QED
      BY <1>9, <2>1, <2>2, <3>2, <3>3, <3>4 DEF Right
  <2>5. CASE m = AddOf(icons[k]) /\ Valid(icons[k])
    <3>1. icons[k] \in Icon /\ Seen(icons[k]) = {icons[k]}
      BY <1>3, <2>5, ElementOfSeq DEF Seen
    <3> HIDE DEF c
    <3>2. Only(Effect(c, m), {icons[k]}) /\ All(Effect(c, m), {icons[k]})
      BY <2>3, <2>5, <3>1, AddTurns
    <3> QED
      BY <1>9, <2>1, <2>2, <3>1, <3>2 DEF Right
  <2> QED
    BY <2>4, <2>5 DEF Further
<1> QED
  BY <1>13, <1>14

LEMMA NotifiedRight ==
  ASSUME TypeInv, SoundInv, ThreadedLast, ShownInv, Notified
  PROVE  ShownInv'
<1>1. /\ stack # <<>> /\ Top.todo = <<>> /\ UNCHANGED <<window, registered, shown, inbox>>
      /\ \/ stack' = Tail(stack) /\ Ends
         \/ UNCHANGED <<icons, life>> /\ \E k \in 1..Len(icons), m \in GoodMsgs : Further(k, m)
  BY NotifiedIs DEF SoundInv
<1>2. CASE stack' = Tail(stack) /\ Ends
  BY <1>1, <1>2, EndsRight
<1>3. CASE UNCHANGED <<icons, life>> /\ \E k \in 1..Len(icons), m \in GoodMsgs : Further(k, m)
  <2>1. PICK k \in 1..Len(icons), m \in GoodMsgs : Further(k, m)
    BY <1>3
  <2> QED
    BY <1>1, <1>3, <2>1, FurtherRight
<1> QED
  BY <1>1, <1>2, <1>3

\* SendSystemTray drops what is gone, and begins with the first icon if there is one.
LEMMA TrayRight ==
  ASSUME TypeInv, SoundInv, ThreadedLast, ShownInv, NEW a \in Lsn, SendSystemTray(a)
  PROVE  ShownInv'
<1> SUFFICES ASSUME NEW w \in Windows, NEW l \in Lsn, window'[w] # "dead", life'[l] # "off"
             PROVE  Right(l, w)'
  BY DEF ShownInv
<1>1. /\ life[a] = "starting" /\ Within /\ UNCHANGED <<window, shown, inbox>> /\ Drops
      /\ \/ /\ life' = [life EXCEPT ![a] = "on"] /\ UNCHANGED stack
            /\ \A n \in 1..Len(icons') : ~Valid(icons'[n])
         \/ \E k \in 1..Len(icons') : First(k, a)
  BY TrayIs DEF SoundInv
<1>2. life' = [life EXCEPT ![a] = "on"] \/ life' = [life EXCEPT ![a] = "asking"]
  BY <1>1 DEF First
<1>3. life[l] # "off" /\ (l # a => life'[l] = life[l])
  BY <1>1, <1>2 DEF TypeInv, Typed
<1>4. icons' \in Seq(Icon) /\ Keyed(icons') /\ Len(icons') \in Nat /\ Of(icons', w) = Of(icons, w)
  BY <1>1, LenProperties DEF Drops
<1>5. Right(l, w) /\ Wants(icons', w) = Wants(icons, w)
  BY <1>1, <1>3, <1>4 DEF ShownInv, Wants
<1>6. \A f \in Elems(stack) : f.op = "notify"
  BY <1>1, NoneIterates DEF Within
<1>7. ~Dying(w) /\ Wanted(w) = Wants(icons', w)
  BY <1>5, <1>6 DEF Dying, Wanted
<1>8. CASE /\ life' = [life EXCEPT ![a] = "on"] /\ UNCHANGED stack
           /\ \A n \in 1..Len(icons') : ~Valid(icons'[n])
  <2>1. Coming(l)' = Coming(l)
    BY <1>1, <1>8 DEF Coming, Due, Top
  <2>2. Wanted(w)' = Wanted(w) /\ Wanted(w) = {}
    <3>1. ~Dying(w)'
      BY <1>6, <1>8 DEF Dying
    <3>2. Wants(icons', w) = {}
      BY <1>8, WantsNone
    <3> QED
      BY <1>7, <3>1, <3>2 DEF Wanted
  <2> QED
    BY <1>5, <2>1, <2>2, Stays
<1>9. CASE \E k \in 1..Len(icons') : First(k, a)
  <2>1. PICK k \in 1..Len(icons') : First(k, a)
    BY <1>9
  <2>2. PICK m : m = AddOf(icons'[k])
    OBVIOUS
  <2>3. PICK f : f = Call("resend", k, m, a)
    OBVIOUS
  <2>4. icons'[k] \in Icon /\ k \in Nat
    BY <1>4, ElementOfSeq
  <2>5. m \in GoodMsgs /\ m.win = icons'[k].win
    <3>1. PICK id \in Identities : IsOf(icons'[k], id)
      BY <1>4 DEF Keyed
    <3>2. AddOf(icons'[k]) \in GoodMsgs
      BY <2>4, <3>1, GoodOnes DEF IsOf
    <3> QED
      BY <2>2, <3>2 DEF AddOf
  <2>6. /\ stack' = <<f>> \o stack /\ life' = [life EXCEPT ![a] = "asking"] /\ life'[a] = "asking"
        /\ Valid(icons'[k]) /\ \A n \in 1..Len(icons') : Valid(icons'[n]) => k <= n
    BY <2>1, <2>2, <2>3 DEF First, TypeInv, Typed
  <2>7. /\ f \in Frame /\ f.op = "resend" /\ f.it = k /\ f.msg = m /\ f.for = a
        /\ f.todo = Targets /\ ~f.sent
    BY <2>3, <2>4, <2>5, <2>6, CallIs
  <2>8. Elems(stack') = {f} \cup Elems(stack) /\ stack \in Seq(Frame)
    BY <2>6, <2>7, ElemsPushed DEF TypeInv, Typed
  <2>9. Coming(l)' = Handled(Coming(l), m)
    <3>1. Calm
      BY <1>1 DEF Calm, Within, Waits
    <3> QED
      BY <1>1, <1>3, <2>6, <2>7, <2>8, <3>1, Begins DEF SoundInv
  <2>10. Of(Coming(l)', w) = After(Of(Coming(l), w), m, w)
    BY <2>5, <2>9, Parts, HandledOf
  <2>11. Wanted(w)' = Wanted(w)
    <3>1. ~Dying(w)'
      BY <1>6, <2>7, <2>8 DEF Dying
    <3> QED
      BY <1>7, <3>1 DEF Wanted
  <2>12. CASE w # m.win
    <3>1. Of(Coming(l)', w) = Of(Coming(l), w)
      BY <2>10, <2>12 DEF After
    <3>2. ASSUME Owed(l, w)' PROVE Owed(l, w) \/ Wanted(w) = {}
      <4>1. CASE life[l] = "on"
        BY <4>1 DEF Owed
      <4>2. CASE life[l] # "on"
        <5>1. life'[l] # "on"
          BY <1>3, <2>6, <4>2
        <5>2. \E n \in 1..k : icons'[n].win = w
          BY <1>6, <2>7, <2>8, <3>2, <5>1 DEF Owed
        <5>3. PICK n \in 1..k : icons'[n].win = w
          BY <5>2
        <5>4. n \in 1..Len(icons') /\ n < k
          BY <1>4, <2>4, <2>5, <2>12, <5>3
        <5>5. ~Valid(icons'[n])
          BY <1>4, <2>4, <2>6, <5>4
        <5>6. Wants(icons', w) = Seen(icons'[n])
          BY <1>4, <5>3, <5>4, WantsOne
        <5> QED
          BY <1>7, <5>5, <5>6 DEF Seen
      <4> QED
        BY <4>1, <4>2
    <3> QED
      BY <1>5, <2>11, <3>1, <3>2, Stays
  <2>13. CASE w = m.win
    <3> DEFINE c == Of(Coming(l), w)
               i == icons'[k]
    <3>1. Of(Coming(l)', w) = Effect(c, AddOf(i))
      BY <2>2, <2>10, <2>13 DEF After
    <3>2. Wanted(w) = {i}
      <4>1. Wants(icons', w) = Seen(i)
        BY <1>4, <2>5, <2>13, WantsOne
      <4> QED
        BY <1>7, <2>6, <4>1 DEF Seen
    <3>3. Only(c, {i}) /\ i \in Icon /\ Valid(i)
      BY <1>5, <2>4, <2>6, <3>2 DEF Right
    <3> HIDE DEF c, i
    <3>4. Only(Effect(c, AddOf(i)), {i}) /\ All(Effect(c, AddOf(i)), {i})
      BY <3>3, AddTurns
    <3> QED
      BY <2>11, <3>1, <3>2, <3>4 DEF Right
  <2> QED
    BY <2>12, <2>13
<1> QED
  BY <1>1, <1>8, <1>9

\* A tray comes with nothing, goes with what it had, and drops what is dead.
LEMMA LifeRight ==
  ASSUME TypeInv, SoundInv, ShownInv, NEW a \in Lsn, Register(a) \/ Unregister(a) \/ MouseOverDead(a)
  PROVE  ShownInv'
<1> SUFFICES ASSUME NEW w \in Windows, NEW l \in Lsn, window'[w] # "dead", life'[l] # "off"
             PROVE  Right(l, w)'
  BY DEF ShownInv
<1>1. CASE Register(a)
  <2>1. /\ stack = <<>> /\ life[a] = "off" /\ UNCHANGED <<window, icons, shown, inbox, stack>>
        /\ life' = [life EXCEPT ![a] = "starting"]
    BY <1>1 DEF Register, Free
  <2>2. Coming(l)' = Coming(l) /\ Wanted(w)' = Wanted(w)
    BY <2>1 DEF Coming, Due, Top, Wanted, Dying
  <2>3. Owed(l, w)' => Owed(l, w)
    BY <2>1 DEF Owed, TypeInv, Typed
  <2>4. CASE l # a
    <3>1. Right(l, w)
      BY <2>1, <2>4 DEF ShownInv, TypeInv, Typed
    <3> QED
      BY <2>2, <2>3, <3>1, Stays
  <2>5. CASE l = a
    <3>1. shown[l] = <<>> /\ inbox[l] = <<>> /\ shown[l] \in Lists
      BY <2>1, <2>5 DEF SoundInv, ToldInv, ListsInv
    <3>2. Coming(l) = <<>>
      BY <2>1, <3>1, ResultNone DEF Coming, Due
    <3>3. Of(<<>>, w) = {}
      <4>1. 1..Len(<<>>) = {}
        OBVIOUS
      <4> QED
        BY <4>1 DEF Of
    <3>4. Elems(<<>>) = {}
      <4>1. 1..Len(<<>>) = {}
        OBVIOUS
      <4> QED
        BY <4>1 DEF Elems
    <3>5. ~Owed(l, w)'
      BY <2>1, <2>5, <3>4 DEF Owed, TypeInv, Typed
    <3> QED
      BY <2>2, <3>2, <3>3, <3>5 DEF Right, Only
  <2> QED
    BY <2>4, <2>5
<1>2. CASE Unregister(a)
  <2>1. /\ UNCHANGED <<window, icons, stack>>
        /\ life' = [life EXCEPT ![a] = "off"]
        /\ shown' = [shown EXCEPT ![a] = <<>>] /\ inbox' = [inbox EXCEPT ![a] = <<>>]
    BY <1>2 DEF Unregister
  <2>2. l # a /\ life'[l] = life[l] /\ shown'[l] = shown[l] /\ inbox'[l] = inbox[l]
    BY <2>1 DEF TypeInv, Typed
  <2>3. Coming(l)' = Coming(l) /\ Wanted(w)' = Wanted(w) /\ (Owed(l, w)' => Owed(l, w))
    BY <2>1, <2>2 DEF Coming, Due, Top, Wanted, Dying, Owed
  <2>4. Right(l, w)
    BY <2>1, <2>2 DEF ShownInv
  <2> QED
    BY <2>3, <2>4, Stays
<1>3. CASE MouseOverDead(a)
  <2>1. /\ inbox[a] = <<>> /\ UNCHANGED <<window, icons, life, inbox, stack>>
    BY <1>3, DeadIs
  <2>2. PICK m \in GoodMsgs : window[m.win] = "dead" /\ shown' = [shown EXCEPT ![a] = Handled(@, m)]
    BY <1>3, DeadIs
  <2>3. Right(l, w) /\ w # m.win
    BY <2>1, <2>2 DEF ShownInv
  <2>4. Wanted(w)' = Wanted(w) /\ (Owed(l, w)' => Owed(l, w)) /\ (Due(l)' <=> Due(l)) /\ Top' = Top
    BY <2>1 DEF Wanted, Dying, Owed, Due, Top
  <2>5. CASE l # a
    <3>1. shown'[l] = shown[l]
      BY <2>2, <2>5 DEF TypeInv, Typed
    <3>2. Coming(l)' = Coming(l)
      BY <2>1, <2>4, <3>1 DEF Coming
    <3> QED
      BY <2>3, <2>4, <3>2, Stays
  <2>6. CASE l = a
    <3> DEFINE old == shown[l]
               new == Handled(old, m)
    <3>1. old \in Lists
      BY DEF SoundInv, ListsInv
    <3>2. new \in Lists /\ Of(new, w) = Of(old, w)
      BY <2>3, <3>1, HandledOf DEF After
    <3>3. shown'[l] = new
      BY <2>2, <2>6 DEF TypeInv, Typed
    <3> HIDE DEF old, new
    <3>4. Result(old, <<>>) = old /\ Result(new, <<>>) = new
      BY <3>1, <3>2, ResultNone
    <3>5. /\ Coming(l)  = IF Due(l) THEN Handled(old, Top.msg) ELSE old
          /\ Coming(l)' = IF Due(l) THEN Handled(new, Top.msg) ELSE new
      BY <2>1, <2>4, <2>6, <3>3, <3>4 DEF Coming, old
    <3>6. Of(Coming(l)', w) = Of(Coming(l), w)
      <4>1. CASE ~Due(l)
        BY <3>2, <3>5, <4>1
      <4>2. CASE Due(l)
        <5>1. Top.msg \in GoodMsgs
          BY <4>2, Beneath DEF Due, SoundInv, CallsInv, CallOK
        <5>2. /\ Of(Handled(old, Top.msg), w) = After(Of(old, w), Top.msg, w)
              /\ Of(Handled(new, Top.msg), w) = After(Of(new, w), Top.msg, w)
          BY <3>1, <3>2, <5>1, HandledOf
        <5> QED
          BY <3>2, <3>5, <4>2, <5>2
      <4> QED
        BY <4>1, <4>2
    <3> QED
      BY <2>3, <2>4, <3>6, Stays
  <2> QED
    BY <2>5, <2>6
<1> QED
  BY <1>1, <1>2, <1>3

LEMMA WindowRight ==
  ASSUME TypeInv, ShownInv, NEW v \in Windows, WindowChanges(v)
  PROVE  ShownInv'
<1> SUFFICES ASSUME NEW w \in Windows, NEW l \in Lsn, window'[w] # "dead", life'[l] # "off"
             PROVE  Right(l, w)'
  BY DEF ShownInv
<1>1. UNCHANGED <<icons, life, shown, inbox, stack>>
  BY DEF WindowChanges
<1>2. window[w] # "dead"
  BY DEF WindowChanges, TypeInv, Typed
<1>3. Right(l, w)
  BY <1>1, <1>2 DEF ShownInv
<1>4. Coming(l)' = Coming(l) /\ Wanted(w)' = Wanted(w) /\ (Owed(l, w)' => Owed(l, w))
  BY <1>1 DEF Coming, Due, Top, Wanted, Dying, Owed
<1> QED
  BY <1>3, <1>4, Stays

LEMMA StartTray == Init => TrayInv
<1> SUFFICES ASSUME Init PROVE TrayInv
  OBVIOUS
<1>1. /\ icons = <<>> /\ registered = {} /\ stack = <<>> /\ life = [l \in Lsn |-> "off"]
      /\ shown = [l \in Lsn |-> <<>>] /\ inbox = [l \in Lsn |-> <<>>]
  BY DEF Init
<1>2. 1..Len(<<>>) = {} /\ <<>> \in Seq(Copy) /\ <<>> \in Seq(GoodMsgs)
  OBVIOUS
<1>3. Keyed(<<>>) /\ <<>> \in Lists /\ Elems(<<>>) = {}
  BY <1>2 DEF Keyed, Uniq, Lists, Elems
<1>4. ListsInv
  BY <1>1, <1>2, <1>3 DEF ListsInv
<1>5. ToldInv /\ CallsInv /\ ShownInv
  BY <1>1, <1>3 DEF ToldInv, CallsInv, ShownInv
<1> QED
  BY <1>4, <1>5, StartTypes DEF TrayInv

LEMMA SameTray ==
  ASSUME TrayInv, UNCHANGED <<window, icons, registered, life, shown, inbox, stack>>
  PROVE  SoundInv' /\ ShownInv'
<1>1. UNCHANGED <<window, icons, registered, life, shown, inbox, stack>>
  OBVIOUS
<1>2. ListsInv' /\ ToldInv'
  BY <1>1 DEF TrayInv, ListsInv, ToldInv
<1>3. CallsInv'
  BY <1>1 DEF TrayInv, CallsInv, CallOK
<1>4. ASSUME NEW w, NEW l PROVE Right(l, w)' <=> Right(l, w)
  <2>1. Coming(l)' = Coming(l) /\ Wanted(w)' = Wanted(w) /\ (Owed(l, w)' <=> Owed(l, w))
    BY <1>1 DEF Coming, Due, Top, Wanted, Dying, Owed
  <2> QED
    BY <2>1 DEF Right
<1>5. ShownInv'
  BY <1>1, <1>4 DEF TrayInv, ShownInv
<1> QED
  BY <1>2, <1>3, <1>5 DEF SoundInv

LEMMA StepTray == ThreadedLast => (TrayInv /\ [Next]_vars => TrayInv')
<1> SUFFICES ASSUME ThreadedLast, TrayInv, [Next]_vars PROVE TrayInv'
  OBVIOUS
<1>1. TypeInv /\ SoundInv /\ ShownInv
  BY DEF TrayInv, SoundInv
<1>2. TypeInv'
  BY <1>1, StepTypes
<1>3. CASE HandleNotification
  <2>1. CASE \E w \in Windows : Asked(w) /\ Change(w)
    <3>1. SoundInv' /\ ShownInv'
      BY <1>1, <2>1, AskSound, AskRight
    <3> QED
      BY <1>2, <3>1 DEF TrayInv, SoundInv
  <2>2. CASE UNCHANGED <<window, icons, registered, life, shown, inbox, stack>>
    BY <1>2, <2>2, SameTray DEF TrayInv, SoundInv
  <2> QED
    BY <1>1, <1>3, <2>1, <2>2, NotificationIs DEF SoundInv
<1>4. CASE SendNext \/ Answered \/ Notified
  <2>1. SoundInv'
    BY <1>1, <1>4, SendSound, AnsweredSound, NotifiedSound
  <2>2. ShownInv'
    BY <1>1, <1>4, MovesRight, NotifiedRight
  <2> QED
    BY <1>2, <2>1, <2>2 DEF TrayInv, SoundInv
<1>5. ASSUME NEW l \in Lsn,
             HandleSent(l) \/ Register(l) \/ SendSystemTray(l) \/ Unregister(l) \/ MouseOverDead(l)
      PROVE  TrayInv'
  <2>1. SoundInv'
    BY <1>1, <1>5, HandleSound, TraySound, LifeSound
  <2>2. ShownInv'
    BY <1>1, <1>5, HandleRight, TrayRight, LifeRight
  <2> QED
    BY <1>2, <2>1, <2>2 DEF TrayInv, SoundInv
<1>6. ASSUME NEW w \in Windows, WindowChanges(w) PROVE TrayInv'
  <2>1. SoundInv' /\ ShownInv'
    BY <1>1, <1>6, WindowSound, WindowRight
  <2> QED
    BY <1>2, <2>1 DEF TrayInv, SoundInv
<1>7. CASE UNCHANGED vars
  BY <1>2, <1>7, SameTray DEF TrayInv, SoundInv, vars
<1> QED
  BY <1>3, <1>4, <1>5, <1>6, <1>7 DEF Next

\* When no call is under way, what a tray will have is what it has.
LEMMA AtRest == TrayInv => ShowsWhatIsThere
<1> SUFFICES ASSUME TrayInv, stack = <<>>, NEW l \in Lsn, life[l] = "on"
             PROVE  LET there == {k \in Live(icons) : Valid(icons[k])}
                        here  == Live(shown[l]) IN
                    /\ {Key(icons[k]) : k \in there} = {Key(shown[l][k]) : k \in here}
                    /\ Cardinality(there) = Cardinality(here)
                    /\ \A i \in there, k \in here :
                         icons[i].win = shown[l][k].win => shown[l][k].version \in {0, icons[i].version}
  BY DEF ShowsWhatIsThere, Rest
<1> DEFINE list  == shown[l]
           there == {k \in Live(icons) : Valid(icons[k])}
           here  == Live(list)
           Same(i, k) == icons[i].win = list[k].win /\ Agree(list[k], icons[i])
<1>1. /\ icons \in Seq(Icon) /\ Keyed(icons) /\ DOMAIN icons = 1..Len(icons)
      /\ list \in Seq(Copy) /\ Keyed(list) /\ list \in Lists /\ DOMAIN list = 1..Len(list)
  BY Lengths, LenProperties DEF TrayInv, TypeInv, Typed, ListsInv, Lists
<1>2. Elems(<<>>) = {}
  <2>1. 1..Len(<<>>) = {}
    OBVIOUS
  <2> QED
    BY <2>1 DEF Elems
<1>3. inbox[l] = <<>>
  BY <1>2 DEF TrayInv, ToldInv
<1>4. Coming(l) = list
  BY <1>1, <1>3, ResultNone DEF Coming, Due
<1>5. ASSUME NEW w \in Windows, window[w] # "dead"
      PROVE  Only(Of(list, w), Wants(icons, w)) /\ All(Of(list, w), Wants(icons, w))
  <2>1. Right(l, w)
    BY <1>5 DEF TrayInv, ShownInv
  <2>2. Wanted(w) = Wants(icons, w)
    BY <1>2 DEF Wanted, Dying
  <2> QED
    BY <1>4, <2>1, <2>2 DEF Right, Owed
<1>6. /\ there = {k \in 1..Len(icons) : window[icons[k].win] # "dead" /\ Valid(icons[k])}
      /\ here  = {k \in 1..Len(list) : window[list[k].win] # "dead"}
  BY <1>1 DEF Live
<1>7. /\ \A i, j \in there : icons[i].win = icons[j].win => i = j
      /\ \A i, j \in here  : list[i].win = list[j].win => i = j
  BY <1>1, <1>6 DEF Keyed, Uniq
<1>8. IsFiniteSet(there) /\ IsFiniteSet(here)
  <2>1. Len(icons) \in Nat /\ Len(list) \in Nat
    BY <1>1, LenProperties
  <2>2. IsFiniteSet(1..Len(icons)) /\ IsFiniteSet(1..Len(list))
    BY <2>1, FS_Interval
  <2>3. there \subseteq 1..Len(icons) /\ here \subseteq 1..Len(list)
    BY <1>6
  <2> HIDE DEF there, here
  <2> QED
    BY <2>2, <2>3, FS_Subset
<1>9. ASSUME NEW i \in there PROVE \E k \in here : Same(i, k)
  <2>1. i \in 1..Len(icons) /\ window[icons[i].win] # "dead" /\ Valid(icons[i])
    BY <1>6
  <2>2. icons[i].win \in Windows
    <3>1. icons[i] \in Icon
      BY <1>1, <2>1, ElementOfSeq
    <3> QED
      BY <3>1 DEF Icon
  <2>3. icons[i] \in Wants(icons, icons[i].win)
    BY <2>1 DEF Wants, Of
  <2>4. PICK e \in Of(list, icons[i].win) : Agree(e, icons[i])
    BY <1>5, <2>1, <2>2, <2>3 DEF All
  <2>5. PICK k \in 1..Len(list) : list[k].win = icons[i].win /\ e = list[k]
    BY <2>4 DEF Of
  <2> QED
    BY <1>6, <2>1, <2>4, <2>5
<1>10. ASSUME NEW k \in here PROVE \E i \in there : Same(i, k)
  <2>1. k \in 1..Len(list) /\ window[list[k].win] # "dead"
    BY <1>6
  <2>2. list[k].win \in Windows
    <3>1. list[k] \in Copy
      BY <1>1, <2>1, ElementOfSeq
    <3> QED
      BY <3>1 DEF Copy
  <2>3. list[k] \in Of(list, list[k].win)
    BY <2>1 DEF Of
  <2>4. PICK x \in Wants(icons, list[k].win) : Agree(list[k], x)
    BY <1>5, <2>1, <2>2, <2>3 DEF Only
  <2>5. PICK i \in 1..Len(icons) : icons[i].win = list[k].win /\ x = icons[i] /\ Valid(x)
    BY <2>4 DEF Wants, Of
  <2> QED
    BY <1>6, <2>1, <2>4, <2>5
<1>11. \A i \in there, k \in here : icons[i].win = list[k].win => Same(i, k)
  <2> HIDE DEF there, here
  <2> SUFFICES ASSUME NEW i \in there, NEW k \in here, icons[i].win = list[k].win PROVE Same(i, k)
    OBVIOUS
  <2>1. PICK j \in there : Same(j, k)
    BY <1>10
  <2>2. i = j
    BY <1>7, <2>1
  <2> QED
    BY <2>1, <2>2
<1> HIDE DEF there, here
<1>12. \A i \in there, k \in here : Same(i, k) => Key(icons[i]) = Key(list[k])
  BY DEF Key, Agree
<1>13. {Key(icons[k]) : k \in there} = {Key(list[k]) : k \in here}
  <2> HIDE DEF Same, list
  <2>1. \A i \in there : \E k \in here : Key(icons[i]) = Key(list[k])
    BY <1>9, <1>12
  <2>2. \A k \in here : \E i \in there : Key(icons[i]) = Key(list[k])
    BY <1>10, <1>12
  <2> QED
    BY <2>1, <2>2
<1>14. Cardinality(there) = Cardinality(here)
  <2> DEFINE f == [i \in there |-> CHOOSE k \in here : Same(i, k)]
  <2>1. \A i \in there : f[i] \in here /\ Same(i, f[i])
    BY <1>9
  <2>2. f \in [there -> here]
    BY <2>1
  <2> HIDE DEF f
  <2>3. \A i, j \in there : f[i] = f[j] => i = j
    BY <1>7, <2>1
  <2>4. \A k \in here : \E i \in there : f[i] = k
    <3> SUFFICES ASSUME NEW k \in here PROVE \E i \in there : f[i] = k
      OBVIOUS
    <3>1. PICK i \in there : Same(i, k)
      BY <1>10
    <3>2. f[i] = k
      BY <1>7, <2>1, <3>1
    <3> QED
      BY <3>2
  <2>5. f \in Injection(there, here) /\ f \in Surjection(there, here)
    BY <2>2, <2>3, <2>4 DEF Injection, IsInjective, Surjection
  <2> QED
    BY <1>8, <2>5, FS_Injection
<1>15. \A i \in there, k \in here : icons[i].win = list[k].win => list[k].version \in {0, icons[i].version}
  BY <1>11 DEF Agree
<1> QED
  BY <1>13, <1>14, <1>15 DEF there, here

\* With the listeners in the order MessageManager's set has them, at rest every system tray
\* shows just the icons that are to be seen, each once and with its last image, whatever
\* notifications arrive inside others and whenever trays and programs come and go
\* (TrayService.cpp:1895-1936, 2076-2214, MessageManager.cpp:102-123).
THEOREM ShownAtRest == ThreadedLast => (Spec => []ShowsWhatIsThere)
<1> SUFFICES ASSUME ThreadedLast PROVE Spec => []ShowsWhatIsThere
  OBVIOUS
<1>1. Init => TrayInv
  BY StartTray
<1>2. TrayInv /\ [Next]_vars => TrayInv'
  BY StepTray
<1>3. TrayInv => ShowsWhatIsThere
  BY AtRest
<1> QED
  BY <1>1, <1>2, <1>3, PTL DEF Spec
=============================================================================
