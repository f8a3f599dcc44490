----------------------------- MODULE BangsProofs -----------------------------
(* NoneAfterQuit, HeldExactly and TypeOK for any threads, modules,           *)
(* generations, names and bounds.                                           *)
EXTENDS Bangs, Integers, FiniteSetTheorems, FunctionTheorems, SequenceTheorems, TLAPS

Working    == {"init", "on", "quitting"}
Lives      == Working \cup {"out", "quit", "ended"}
Known      == [name : Names, by : Owners, refs : Int]
Activation == [id : Nat, at : {"found", "calling"}, call : Nat, under : BOOLEAN]
Command    == [name : Names, fate : {"pending", "called", "nobody", "lost"}]

Typed ==
  /\ table \in [Names -> Nat] /\ bang \in Seq(Known) /\ call \in Seq(Command)
  /\ queue \in [Threads -> Seq(Nat)] /\ stack \in [Threads -> Seq(Activation)]
  /\ life \in [Modules -> Lives] /\ names \in [Modules -> SUBSET Names] /\ base \in Nat

\* A frame of thread t runs a callback of t only, and if it may run one of a module there, the
\* module has not been quit, but by a recycle dispatched inside the callback.  (bg, n and lf stand for bang, Len(call) and life.)
Good(f, t, bg, n, lf) ==
  /\ f.id \in 1..Len(bg) /\ f.call \in 1..n
  /\ f.at = "calling" => Home(bg[f.id].by) = t
  /\ bg[f.id].by # Shell /\ Home(bg[f.id].by) = t => lf[bg[f.id].by] \in Working \/ f.under
  /\ f.under => t = UI

FramesGood == \A t \in Threads : \A i \in 1..Len(stack[t]) :
                Good(stack[t][i], t, bang, Len(call), life)

\* Only the innermost frame may be on its way to a callback, and none under a recycle, which
\* has marked the frames beneath it.
Under(t, i) == t = UI /\ i > Len(stack[t]) - base
DepthGood ==
  /\ \A t \in Threads : \A i \in 1..Len(stack[t]) :
       i > 1 \/ Under(t, i) => stack[t][i].at = "calling"
  /\ \A i \in 1..Len(stack[UI]) : Under(UI, i) => stack[UI][i].under
  /\ base <= Len(stack[UI]) /\ (phase = "run" => base = 0)

\* What the table has is LiteStep's own or of a module that will still remove it.
Entered(b, n) ==
  /\ b \in 1..Len(bang)
  /\ bang[b].by # Shell => n \in names[bang[b].by] /\ life[bang[b].by] \in Working
TableGood == \A n \in Names : table[n] # NoBang => Entered(table[n], n)

QueueGood == \A t \in Threads : \A i \in 1..Len(queue[t]) : queue[t][i] \in 0..Len(call)

Inv == Typed /\ FramesGood /\ DepthGood /\ TableGood /\ QueueGood

\* What every step leaves: a Bang keeps its owner, calls are only added.
Grown ==
  /\ bang' \in Seq(Known) /\ Len(bang) <= Len(bang')
  /\ \A b \in 1..Len(bang) : bang'[b].by = bang[b].by
  /\ call' \in Seq(Command) /\ Len(call) <= Len(call')
StillWorking == \A m \in Modules : life[m] \in Working => life'[m] \in Working

LEMMA Lengths == Typed => /\ Len(bang) \in Nat /\ Len(call) \in Nat
                          /\ \A t \in Threads : Len(stack[t]) \in Nat /\ Len(queue[t]) \in Nat
BY LenProperties DEF Typed

LEMMA Homes == UI \in Threads /\ \A by \in Owners : Home(by) \in Threads
BY DEF Home, Owners, Threads, Modules

LEMMA Ownership ==
  ASSUME Typed, NEW b \in 1..Len(bang)
  PROVE  bang[b] \in Known /\ bang[b].by \in Owners
<1>1. bang[b] \in Known
  BY ElementOfSeq DEF Typed
<1>2. QED
  BY <1>1 DEF Known

\* A reference count changes nothing else.
LEMMA Counting ==
  ASSUME Typed, NEW b \in 1..Len(bang), NEW k \in Int
  PROVE  LET new == [bang EXCEPT ![b].refs = k] IN
         /\ new \in Seq(Known) /\ Len(new) = Len(bang)
         /\ \A c \in 1..Len(bang) : new[c].by = bang[c].by
<1> DEFINE r == [bang[b] EXCEPT !.refs = k]
<1>1. r \in Known /\ r.by = bang[b].by
  BY Ownership DEF Known
<1>2. [bang EXCEPT ![b].refs = k] = [bang EXCEPT ![b] = r]
  OBVIOUS
<1>3. QED
  BY <1>1, <1>2, ExceptSeq DEF Typed

LEMMA HeldGrows ==
  ASSUME Typed, NEW b \in 1..Len(bang), NEW new, new \in {Held(b), Release(b)}
  PROVE  /\ new \in Seq(Known) /\ Len(new) = Len(bang)
         /\ \A c \in 1..Len(bang) : new[c].by = bang[c].by
<1>1. bang[b].refs \in Int
  BY Ownership DEF Known
<1>2. bang[b].refs + 1 \in Int /\ bang[b].refs - 1 \in Int
  BY <1>1
<1>3. CASE new = [bang EXCEPT ![b].refs = bang[b].refs + 1]
  <2> DEFINE k == bang[b].refs + 1
  <2>1. new = [bang EXCEPT ![b].refs = k]
    BY <1>3
  <2>2. k \in Int
    BY <1>2
  <2> HIDE DEF k
  <2>3. QED
    BY <2>1, <2>2, Counting
<1>4. CASE new = [bang EXCEPT ![b].refs = bang[b].refs - 1]
  <2> DEFINE k == bang[b].refs - 1
  <2>1. new = [bang EXCEPT ![b].refs = k]
    BY <1>4
  <2>2. k \in Int
    BY <1>2
  <2> HIDE DEF k
  <2>3. QED
    BY <2>1, <2>2, Counting
<1>5. CASE new = bang
  BY <1>5 DEF Typed
<1>6. QED
  BY <1>3, <1>4, <1>5 DEF Held, Release

-----------------------------------------------------------------------------
(* The stacks.                                                              *)

LEMMA GoodKept ==
  ASSUME NEW f, NEW t, NEW bg, NEW new, NEW n \in Nat, NEW m \in Nat, NEW lf, NEW lg,
         Len(bg) \in Nat, Len(new) \in Nat, Len(bg) <= Len(new), n <= m,
         \A b \in 1..Len(bg) : new[b].by = bg[b].by /\ bg[b].by \in Owners,
         \A x \in Modules : lf[x] \in Working => lg[x] \in Working,
         Good(f, t, bg, n, lf)
  PROVE  Good(f, t, new, m, lg)
<1>1. f.id \in 1..Len(bg) /\ f.id \in 1..Len(new) /\ f.call \in 1..m
  BY DEF Good
<1>2. new[f.id].by = bg[f.id].by /\ bg[f.id].by \in Modules \cup {Shell}
  BY <1>1 DEF Owners
<1>3. QED
  BY <1>1, <1>2 DEF Good

\* The same for the frames that are there before a step.
LEMMA FrameKept ==
  ASSUME Inv, Grown, StillWorking, NEW t \in Threads, NEW i \in 1..Len(stack[t])
  PROVE  /\ Good(stack[t][i], t, bang', Len(call'), life')
         /\ bang'[stack[t][i].id].by = bang[stack[t][i].id].by
<1>1. Good(stack[t][i], t, bang, Len(call), life)
  BY DEF Inv, FramesGood
<1>2. Len(bang) \in Nat /\ Len(call) \in Nat /\ Len(bang') \in Nat /\ Len(call') \in Nat
  BY LenProperties DEF Inv, Typed, Grown
<1>3. \A b \in 1..Len(bang) : bang'[b].by = bang[b].by /\ bang[b].by \in Owners
  BY Ownership DEF Inv, Grown
<1>4. Good(stack[t][i], t, bang', Len(call'), life')
  BY <1>1, <1>2, <1>3, GoodKept DEF Grown, StillWorking
<1>5. stack[t][i].id \in 1..Len(bang)
  BY <1>1 DEF Good
<1>6. QED
  BY <1>3, <1>4, <1>5

LEMMA Pushed ==
  ASSUME NEW s \in Seq(Activation), NEW f \in Activation
  PROVE  /\ <<f>> \o s \in Seq(Activation) /\ Len(<<f>> \o s) = Len(s) + 1
         /\ \A i \in 1..Len(s) + 1 : (<<f>> \o s)[i] = IF i = 1 THEN f ELSE s[i - 1]
<1>1. <<f>> \in Seq(Activation) /\ Len(<<f>>) = 1 /\ <<f>>[1] = f
  OBVIOUS
<1>2. Len(s) \in Nat
  BY LenProperties
<1>3. /\ <<f>> \o s \in Seq(Activation) /\ Len(<<f>> \o s) = 1 + Len(s)
      /\ \A i \in 1..1 + Len(s) : (<<f>> \o s)[i] = IF i <= 1 THEN <<f>>[i] ELSE s[i - 1]
  BY <1>1, ConcatProperties
<1>4. QED
  BY <1>1, <1>2, <1>3

LEMMA StacksStay ==
  ASSUME Inv, Grown, StillWorking, UNCHANGED <<stack, base>>, phase' = "run" => base = 0
  PROVE  FramesGood' /\ DepthGood'
<1>1. FramesGood'
  BY FrameKept DEF FramesGood
<1>2. DepthGood'
  BY FrameKept, Homes DEF DepthGood, Under, Inv
<1>3. QED
  BY <1>1, <1>2

LEMMA PushKeeps ==
  ASSUME Inv, Grown, StillWorking, UNCHANGED <<base, phase>>, NEW t \in Threads, InCode(t),
         NEW f \in Activation, Good(f, t, bang', Len(call'), life'),
         stack' = [stack EXCEPT ![t] = <<f>> \o @]
  PROVE  stack' \in [Threads -> Seq(Activation)] /\ FramesGood' /\ DepthGood'
<1>1. /\ stack' \in [Threads -> Seq(Activation)] /\ stack'[t] = <<f>> \o stack[t]
      /\ \A u \in Threads : u # t => stack'[u] = stack[u]
  BY Pushed DEF Inv, Typed
<1>2. Len(stack[t]) \in Nat /\ base \in Nat
  BY Lengths DEF Inv, Typed
<1>3. /\ Len(stack'[t]) = Len(stack[t]) + 1
      /\ \A i \in 1..Len(stack[t]) + 1 : stack'[t][i] = IF i = 1 THEN f ELSE stack[t][i - 1]
  BY <1>1, Pushed DEF Inv, Typed
<1>4. FramesGood'
  <2>1. ASSUME NEW u \in Threads, NEW i \in 1..Len(stack'[u])
        PROVE  Good(stack'[u][i], u, bang', Len(call'), life')
    <3>1. CASE u = t /\ i # 1
      <4>1. i - 1 \in 1..Len(stack[t]) /\ stack'[u][i] = stack[t][i - 1]
        BY <1>2, <1>3, <3>1
      <4>2. QED
        BY <3>1, <4>1, FrameKept
    <3>2. CASE u = t /\ i = 1
      BY <1>2, <1>3, <3>2
    <3>3. CASE u # t
      BY <1>1, <3>3, FrameKept
    <3>4. QED
      BY <3>1, <3>2, <3>3
  <2>2. QED
    BY <2>1 DEF FramesGood
<1>5. \A i \in 1..Len(stack[t]) : stack[t][i].at = "calling"
  <2>1. stack[t] # <<>> => stack[t][1].at = "calling"
    BY DEF InCode, Top, Inv, Typed
  <2>2. QED
    BY <1>2, <2>1, EmptySeq DEF Inv, DepthGood
<1>6. base <= Len(stack[UI]) /\ UI \in Threads
  BY Homes DEF Inv, DepthGood
<1>7. ASSUME NEW u \in Threads, NEW i \in 1..Len(stack'[u])
      PROVE  /\ i > 1 \/ (u = UI /\ i > Len(stack'[u]) - base) => stack'[u][i].at = "calling"
             /\ u = UI /\ i > Len(stack'[u]) - base => stack'[u][i].under
  <2>1. CASE u = t /\ i # 1
    <3>1. i - 1 \in 1..Len(stack[t]) /\ stack'[u][i] = stack[t][i - 1]
      BY <1>2, <1>3, <2>1
    <3>2. u = UI /\ i > Len(stack'[u]) - base => Under(UI, i - 1)
      BY <1>2, <1>3, <2>1, <3>1 DEF Under
    <3>3. stack'[u][i].at = "calling"
      BY <1>5, <3>1
    <3>4. u = UI /\ i > Len(stack'[u]) - base => stack[u][i - 1].under
      BY <2>1, <3>1, <3>2 DEF Inv, DepthGood
    <3>5. bang'[stack[u][i - 1].id].by = bang[stack[u][i - 1].id].by
      BY <2>1, <3>1, FrameKept
    <3>6. QED
      BY <2>1, <3>1, <3>3, <3>4, <3>5
  <2>2. CASE u = t /\ i = 1
    BY <1>2, <1>3, <1>6, <2>2
  <2>3. CASE u # t
    <3>1. stack'[u] = stack[u]
      BY <1>1, <2>3
    <3>2. i \in 1..Len(stack[u]) /\ base' = base
      BY <3>1
    <3>3. i > 1 \/ Under(u, i) => stack[u][i].at = "calling"
      BY <3>2 DEF Inv, DepthGood
    <3>4. u = UI /\ Under(u, i) => stack[u][i].under
      BY <3>2 DEF Inv, DepthGood
    <3>5. bang'[stack[u][i].id].by = bang[stack[u][i].id].by
      BY <3>2, FrameKept
    <3>6. QED
      BY <3>1, <3>3, <3>4, <3>5 DEF Under
  <2>4. QED
    BY <2>1, <2>2, <2>3
<1>8. base' <= Len(stack'[UI]) /\ (phase' = "run" => base' = 0)
  BY <1>1, <1>2, <1>3, <1>6, Lengths DEF Inv, DepthGood
<1>9. DepthGood'
  BY <1>6, <1>7, <1>8 DEF DepthGood, Under
<1>10. QED
  BY <1>1, <1>4, <1>9

LEMMA PopKeeps ==
  ASSUME Inv, Grown, StillWorking, UNCHANGED <<base, phase>>, NEW t \in Threads,
         stack[t] # <<>>, t = UI => Len(stack[UI]) > base,
         stack' = [stack EXCEPT ![t] = Tail(@)]
  PROVE  stack' \in [Threads -> Seq(Activation)] /\ FramesGood' /\ DepthGood'
<1>1. /\ Tail(stack[t]) \in Seq(Activation) /\ Len(Tail(stack[t])) = Len(stack[t]) - 1
      /\ \A i \in 1..Len(Tail(stack[t])) : Tail(stack[t])[i] = stack[t][i + 1]
  BY HeadTailProperties DEF Inv, Typed
<1>2. /\ stack' \in [Threads -> Seq(Activation)] /\ stack'[t] = Tail(stack[t])
      /\ \A u \in Threads : u # t => stack'[u] = stack[u]
  BY <1>1 DEF Inv, Typed
<1>3. Len(stack[t]) \in Nat /\ base \in Nat /\ UI \in Threads
  BY Lengths, Homes DEF Inv, Typed
<1>4. ASSUME NEW u \in Threads, NEW i \in 1..Len(stack'[u])
      PROVE  /\ Good(stack'[u][i], u, bang', Len(call'), life')
             /\ i > 1 \/ (u = UI /\ i > Len(stack'[u]) - base) => stack'[u][i].at = "calling"
             /\ u = UI /\ i > Len(stack'[u]) - base => stack'[u][i].under
  <2>1. CASE u = t
    <3>1. i + 1 \in 1..Len(stack[t]) /\ stack'[u][i] = stack[t][i + 1]
      BY <1>1, <1>2, <1>3, <2>1
    <3>2. u = UI /\ i > Len(stack'[u]) - base => Under(UI, i + 1)
      BY <1>1, <1>2, <1>3, <2>1, <3>1 DEF Under
    <3>3. i + 1 > 1
      BY <1>1, <1>2, <1>3, <2>1
    <3>4. QED
      BY <2>1, <3>1, <3>2, <3>3, FrameKept DEF Inv, DepthGood
  <2>2. CASE u # t
    <3>1. stack'[u] = stack[u]
      BY <1>2, <2>2
    <3>2. i \in 1..Len(stack[u])
      BY <3>1
    <3>3. i > 1 \/ Under(u, i) => stack[u][i].at = "calling"
      BY <3>2 DEF Inv, DepthGood
    <3>4. u = UI /\ Under(u, i) => stack[u][i].under
      BY <3>2 DEF Inv, DepthGood
    <3>5. /\ Good(stack[u][i], u, bang', Len(call'), life')
          /\ bang'[stack[u][i].id].by = bang[stack[u][i].id].by
      BY <3>2, FrameKept
    <3>6. QED
      BY <3>1, <3>3, <3>4, <3>5 DEF Under
  <2>3. QED
    BY <2>1, <2>2
<1>5. base' <= Len(stack'[UI]) /\ (phase' = "run" => base' = 0)
  <2>1. CASE t = UI
    BY <1>1, <1>2, <1>3, <2>1 DEF Inv, DepthGood
  <2>2. CASE t # UI
    BY <1>2, <1>3, <2>2 DEF Inv, DepthGood
  <2>3. QED
    BY <2>1, <2>2
<1>6. FramesGood'
  BY <1>4 DEF FramesGood
<1>7. DepthGood'
  BY <1>3, <1>4, <1>5 DEF DepthGood, Under
<1>8. QED
  BY <1>2, <1>6, <1>7

LEMMA CallKeeps ==
  ASSUME Inv, Grown, StillWorking, UNCHANGED <<base, phase>>, NEW t \in Threads,
         stack[t] # <<>>, Top(t).at = "found", Home(bang[Top(t).id].by) = t,
         stack' = [stack EXCEPT ![t][1].at = "calling"]
  PROVE  stack' \in [Threads -> Seq(Activation)] /\ FramesGood' /\ DepthGood'
<1> DEFINE g == [stack[t][1] EXCEPT !.at = "calling"]
<1>1. /\ Len(stack[t]) \in Nat \ {0} /\ stack[t] \in Seq(Activation) /\ base \in Nat
      /\ UI \in Threads
  BY EmptySeq, Homes DEF Inv, Typed
<1>2. stack[t][1] \in Activation /\ Top(t) = stack[t][1]
  BY <1>1, ElementOfSeq DEF Top
<1>3. /\ g \in Activation /\ g.id = stack[t][1].id /\ g.call = stack[t][1].call
      /\ g.at = "calling" /\ g.under = stack[t][1].under
  BY <1>2 DEF Activation
<1>4. stack' = [stack EXCEPT ![t] = [stack[t] EXCEPT ![1] = g]]
  BY DEF Inv, Typed
<1> HIDE DEF g
<1>5. /\ [stack[t] EXCEPT ![1] = g] \in Seq(Activation)
      /\ Len([stack[t] EXCEPT ![1] = g]) = Len(stack[t])
      /\ \A i \in 1..Len(stack[t]) :
           [stack[t] EXCEPT ![1] = g][i] = IF i = 1 THEN g ELSE stack[t][i]
  BY <1>1, <1>3, ExceptSeq
<1>6. /\ stack' \in [Threads -> Seq(Activation)] /\ Len(stack'[t]) = Len(stack[t])
      /\ \A i \in 1..Len(stack[t]) : stack'[t][i] = IF i = 1 THEN g ELSE stack[t][i]
      /\ \A u \in Threads : u # t => stack'[u] = stack[u]
  BY <1>4, <1>5 DEF Inv, Typed
<1>7. Good(stack[t][1], t, bang', Len(call'), life')
      /\ bang'[stack[t][1].id].by = bang[stack[t][1].id].by
  BY <1>1, FrameKept
<1>8. Good(g, t, bang', Len(call'), life')
  BY <1>2, <1>3, <1>7 DEF Good
<1>9. ~Under(t, 1)
  BY <1>1, <1>2 DEF Inv, DepthGood
<1>10. ASSUME NEW u \in Threads, NEW i \in 1..Len(stack'[u])
       PROVE  /\ Good(stack'[u][i], u, bang', Len(call'), life')
              /\ i > 1 \/ Under(u, i)' => stack'[u][i].at = "calling"
              /\ u = UI /\ Under(u, i)' => stack'[u][i].under
  <2>1. Under(u, i)' <=> Under(u, i)
    BY <1>6 DEF Under
  <2>2. CASE u = t /\ i = 1
    BY <1>1, <1>3, <1>6, <1>8, <1>9, <2>1, <2>2
  <2>3. CASE u # t \/ i # 1
    <3>1. i \in 1..Len(stack[u]) /\ stack'[u][i] = stack[u][i]
      BY <1>6, <2>3
    <3>2. QED
      BY <2>1, <3>1, FrameKept DEF Inv, DepthGood
  <2>4. QED
    BY <2>2, <2>3
<1>11. base' <= Len(stack'[UI]) /\ (phase' = "run" => base' = 0)
  BY <1>1, <1>6 DEF Inv, DepthGood
<1>12. FramesGood'
  BY <1>10 DEF FramesGood
<1>13. DepthGood'
  BY <1>1, <1>10, <1>11 DEF DepthGood
<1>14. QED
  BY <1>6, <1>12, <1>13

-----------------------------------------------------------------------------
(* The table, the calls and the queues.                                     *)

\* An entry stays good while its module keeps the name.
LEMMA EntryKept ==
  ASSUME Inv, Grown, StillWorking, NEW n \in Names, table'[n] = table[n], table[n] # NoBang,
         \A m \in Modules : n \in names[m] => n \in names'[m]
  PROVE  /\ table'[n] \in 1..Len(bang')
         /\ bang'[table'[n]].by # Shell => /\ n \in names'[bang'[table'[n]].by]
                                           /\ life'[bang'[table'[n]].by] \in Working
<1>1. Entered(table[n], n)
  BY DEF Inv, TableGood
<1>2. Len(bang) \in Nat /\ Len(bang') \in Nat
  BY LenProperties DEF Inv, Typed, Grown
<1>3. bang'[table[n]].by = bang[table[n]].by /\ bang[table[n]].by \in Modules \cup {Shell}
  BY <1>1, Ownership DEF Entered, Grown, Inv, Owners
<1>4. QED
  BY <1>1, <1>2, <1>3 DEF Entered, Grown, StillWorking

LEMMA TableStays ==
  ASSUME Inv, Grown, StillWorking, UNCHANGED <<table, names>>
  PROVE  TableGood'
BY EntryKept DEF TableGood, Entered

LEMMA ReleaseGrows ==
  ASSUME Inv, NEW n \in Names
  PROVE  /\ Release(table[n]) \in Seq(Known) /\ Len(Release(table[n])) = Len(bang)
         /\ \A c \in 1..Len(bang) : Release(table[n])[c].by = bang[c].by
<1>1. CASE table[n] = NoBang
  BY <1>1 DEF Release, Inv, Typed
<1>2. CASE table[n] # NoBang
  BY <1>2, HeldGrows DEF Inv, TableGood, Entered
<1>3. QED
  BY <1>1, <1>2

LEMMA InsertKeeps ==
  ASSUME Inv, NEW n \in Names, NEW by \in Owners, Insert(n, by), UNCHANGED <<call, life>>,
         \A m \in Modules : names[m] \subseteq names'[m],
         by # Shell => n \in names'[by] /\ life[by] \in Working
  PROVE  Grown /\ table' \in [Names -> Nat] /\ TableGood'
<1> DEFINE old == Release(table[n])
           new == [name |-> n, by |-> by, refs |-> 1]
<1>1. /\ old \in Seq(Known) /\ Len(old) = Len(bang) /\ Len(bang) \in Nat
      /\ \A c \in 1..Len(bang) : old[c].by = bang[c].by
  BY ReleaseGrows, Lengths DEF Inv
<1>2. new \in Known /\ bang' = Append(old, new) /\ table' = [table EXCEPT ![n] = Len(bang) + 1]
  BY DEF Known, Insert
<1>3. new.by = by
  OBVIOUS
<1> HIDE DEF old, new
<1>4. /\ bang' \in Seq(Known) /\ Len(bang') = Len(bang) + 1 /\ bang'[Len(bang) + 1] = new
      /\ \A c \in 1..Len(bang) : bang'[c] = old[c]
  BY <1>1, <1>2, AppendProperties
<1>5. Grown
  BY <1>1, <1>4, Lengths DEF Grown, Inv, Typed
<1>6. table' \in [Names -> Nat]
  BY <1>1, <1>2 DEF Inv, Typed
<1>7. ASSUME NEW k \in Names, table'[k] # NoBang
      PROVE  Entered(table[k], k)'
  <2>1. CASE k = n
    <3>1. table'[k] = Len(bang) + 1
      BY <1>2, <2>1 DEF Inv, Typed
    <3>2. QED
      BY <1>1, <1>3, <1>4, <2>1, <3>1 DEF Entered
  <2>2. CASE k # n
    <3>1. table'[k] = table[k]
      BY <1>2, <2>2 DEF Inv, Typed
    <3>2. StillWorking
      BY DEF StillWorking
    <3>3. \A m \in Modules : k \in names[m] => k \in names'[m]
      OBVIOUS
    <3>4. QED
      BY <1>5, <1>7, <3>1, <3>2, <3>3, EntryKept DEF Entered
  <2>3. QED
    BY <2>1, <2>2
<1>8. TableGood'
  BY <1>7 DEF TableGood
<1>9. QED
  BY <1>5, <1>6, <1>8

LEMMA SettleKeeps ==
  ASSUME Inv, NEW c \in 1..Len(call), NEW f \in {"called", "nobody", "lost"}, Settle(c, f)
  PROVE  call' \in Seq(Command) /\ Len(call') = Len(call)
<1> DEFINE g == [call[c] EXCEPT !.fate = f]
<1>1. call \in Seq(Command) /\ call[c] \in Command
  BY ElementOfSeq DEF Inv, Typed
<1>2. g \in Command
  BY <1>1 DEF Command
<1>3. call' = [call EXCEPT ![c] = g]
  BY DEF Settle
<1> HIDE DEF g
<1>4. QED
  BY <1>1, <1>2, <1>3, ExceptSeq

LEMMA QueuesStay ==
  ASSUME Inv, Grown, UNCHANGED queue
  PROVE  QueueGood'
<1>1. Len(call) \in Nat /\ Len(call') \in Nat
  BY LenProperties DEF Inv, Typed, Grown
<1>2. QED
  BY <1>1 DEF Inv, QueueGood, Grown

LEMMA QueuePosts ==
  ASSUME Inv, Grown, NEW t \in Threads, NEW c \in 0..Len(call),
         queue' = [queue EXCEPT ![t] = Append(@, c)]
  PROVE  queue' \in [Threads -> Seq(Nat)] /\ QueueGood'
<1>1. Len(call) \in Nat /\ Len(call') \in Nat /\ queue[t] \in Seq(Nat) /\ c \in Nat
  BY LenProperties DEF Inv, Typed, Grown
<1>2. /\ Append(queue[t], c) \in Seq(Nat) /\ Len(Append(queue[t], c)) = Len(queue[t]) + 1
      /\ \A i \in 1..Len(queue[t]) : Append(queue[t], c)[i] = queue[t][i]
      /\ Append(queue[t], c)[Len(queue[t]) + 1] = c /\ Len(queue[t]) \in Nat
  BY <1>1, AppendProperties, LenProperties
<1>3. /\ queue' \in [Threads -> Seq(Nat)] /\ queue'[t] = Append(queue[t], c)
      /\ \A u \in Threads : u # t => queue'[u] = queue[u]
  BY <1>2 DEF Inv, Typed
<1>4. ASSUME NEW u \in Threads, NEW i \in 1..Len(queue'[u])
      PROVE  queue'[u][i] \in 0..Len(call)
  <2>1. CASE u = t /\ i = Len(queue[t]) + 1
    BY <1>2, <1>3, <2>1
  <2>2. CASE u = t /\ i # Len(queue[t]) + 1
    BY <1>2, <1>3, <2>2 DEF Inv, QueueGood
  <2>3. CASE u # t
    BY <1>3, <2>3 DEF Inv, QueueGood
  <2>4. QED
    BY <2>1, <2>2, <2>3
<1>5. 0..Len(call) \subseteq 0..Len(call')
  BY <1>1 DEF Grown
<1>6. QED
  BY <1>3, <1>4, <1>5 DEF QueueGood

LEMMA QueueTakes ==
  ASSUME Inv, Grown, NEW t \in Threads, queue[t] # <<>>,
         queue' = [queue EXCEPT ![t] = Tail(@)]
  PROVE  queue' \in [Threads -> Seq(Nat)] /\ QueueGood' /\ Head(queue[t]) \in 0..Len(call)
<1>1. /\ Len(call) \in Nat /\ Len(call') \in Nat /\ queue[t] \in Seq(Nat)
      /\ Len(queue[t]) \in Nat \ {0}
  BY LenProperties, EmptySeq DEF Inv, Typed, Grown
<1>2. /\ Tail(queue[t]) \in Seq(Nat) /\ Len(Tail(queue[t])) = Len(queue[t]) - 1
      /\ \A i \in 1..Len(Tail(queue[t])) : Tail(queue[t])[i] = queue[t][i + 1]
      /\ Head(queue[t]) = queue[t][1]
  BY <1>1, HeadTailProperties
<1>3. /\ queue' \in [Threads -> Seq(Nat)] /\ queue'[t] = Tail(queue[t])
      /\ \A u \in Threads : u # t => queue'[u] = queue[u]
  BY <1>2 DEF Inv, Typed
<1>4. ASSUME NEW u \in Threads, NEW i \in 1..Len(queue'[u])
      PROVE  queue'[u][i] \in 0..Len(call)
  <2>1. CASE u = t
    <3>1. i + 1 \in 1..Len(queue[t]) /\ queue'[u][i] = queue[t][i + 1]
      BY <1>1, <1>2, <1>3, <2>1
    <3>2. QED
      BY <3>1 DEF Inv, QueueGood
  <2>2. CASE u # t
    BY <1>3, <2>2 DEF Inv, QueueGood
  <2>3. QED
    BY <2>1, <2>2
<1>5. Head(queue[t]) \in 0..Len(call)
  BY <1>1, <1>2 DEF Inv, QueueGood
<1>6. 0..Len(call) \subseteq 0..Len(call')
  BY <1>1 DEF Grown
<1>7. QueueGood'
  BY <1>4, <1>6, Zenon DEF QueueGood
<1>8. QED
  BY <1>3, <1>5, <1>7

LEMMA SameGrows ==
  ASSUME Inv, UNCHANGED <<bang, call>>
  PROVE  Grown
BY Lengths DEF Inv, Typed, Grown

-----------------------------------------------------------------------------
(* The steps.                                                               *)

LEMMA FoundKeeps ==
  ASSUME Inv, NEW t \in Threads, InCode(t), NEW n \in Names, table[n] # NoBang,
         NEW c \in 1..Len(call'), call' \in Seq(Command), Len(call) <= Len(call'),
         bang' = Held(table[n]), Push(t, Found(table[n], c)),
         UNCHANGED <<base, phase, life>>
  PROVE  Grown /\ stack' \in [Threads -> Seq(Activation)] /\ FramesGood' /\ DepthGood'
<1> DEFINE f == Found(table[n], c)
<1>1. Entered(table[n], n) /\ Len(bang) \in Nat
  BY Lengths DEF Inv, TableGood
<1>2. /\ bang' \in Seq(Known) /\ Len(bang') = Len(bang)
      /\ \A b \in 1..Len(bang) : bang'[b].by = bang[b].by
  BY <1>1, HeldGrows DEF Entered, Inv
<1>3. Grown /\ StillWorking
  BY <1>1, <1>2 DEF Grown, StillWorking
<1>4. f.id = table[n] /\ f.at = "found" /\ f.call = c /\ ~f.under /\ f \in Activation
  BY DEF Found, Activation, Inv, Typed
<1>5. stack' = [stack EXCEPT ![t] = <<f>> \o @]
  BY DEF Push
<1> HIDE DEF f
<1>6. Good(f, t, bang', Len(call'), life')
  BY <1>1, <1>2, <1>4 DEF Good, Entered
<1>7. QED
  BY <1>3, <1>4, <1>5, <1>6, PushKeeps

LEMMA AddStep ==
  ASSUME Inv, NEW m \in Modules, NEW n \in Names, AddBangCommand(m, n)
  PROVE  Inv'
<1>1. /\ Insert(n, m) /\ m \in Owners /\ life[m] \in Working
      /\ names' = [names EXCEPT ![m] = names[m] \cup {n}]
      /\ UNCHANGED <<queue, stack, life, call, phase, base>>
  BY DEF AddBangCommand, Active, Working, Owners
<1>2. /\ names' \in [Modules -> SUBSET Names] /\ n \in names'[m]
      /\ \A x \in Modules : names[x] \subseteq names'[x]
  BY <1>1 DEF Inv, Typed
<1>3. Grown /\ table' \in [Names -> Nat] /\ TableGood'
  BY <1>1, <1>2, InsertKeeps
<1>4. FramesGood' /\ DepthGood'
  BY <1>1, <1>3, StacksStay DEF StillWorking, Inv, DepthGood
<1>5. QueueGood'
  BY <1>1, <1>3, QueuesStay
<1>6. Typed'
  BY <1>1, <1>2, <1>3 DEF Inv, Typed, Grown
<1>7. QED
  BY <1>3, <1>4, <1>5, <1>6 DEF Inv

LEMMA RemoveStep ==
  ASSUME Inv, NEW m \in Modules, NEW n \in Names, RemoveBangCommand(m, n)
  PROVE  Inv'
<1>1. /\ names' = [names EXCEPT ![m] = names[m] \ {n}]
      /\ bang' = Release(table[n]) /\ table' = [table EXCEPT ![n] = NoBang]
      /\ UNCHANGED <<queue, stack, life, call, phase, base>>
  BY DEF RemoveBangCommand
<1>2. Grown /\ StillWorking
  BY <1>1, ReleaseGrows, Lengths DEF Grown, StillWorking, Inv, Typed
<1>3. /\ names' \in [Modules -> SUBSET Names] /\ table' \in [Names -> Nat]
      /\ table'[n] = NoBang /\ \A k \in Names : k # n => table'[k] = table[k]
      /\ \A k \in Names : k # n => \A x \in Modules : k \in names[x] => k \in names'[x]
  BY <1>1 DEF Inv, Typed, NoBang
<1>4. TableGood'
  <2>1. ASSUME NEW k \in Names, table'[k] # NoBang
        PROVE  Entered(table[k], k)'
    <3>1. k # n /\ table'[k] = table[k] /\ \A x \in Modules : k \in names[x] => k \in names'[x]
      BY <1>3, <2>1
    <3>2. QED
      BY <1>2, <2>1, <3>1, EntryKept DEF Entered
  <2>2. QED
    BY <2>1 DEF TableGood
<1>5. FramesGood' /\ DepthGood'
  BY <1>1, <1>2, StacksStay DEF Inv, DepthGood
<1>6. QueueGood'
  BY <1>1, <1>2, QueuesStay
<1>7. Typed'
  BY <1>1, <1>2, <1>3 DEF Inv, Typed, Grown
<1>8. QED
  BY <1>4, <1>5, <1>6, <1>7 DEF Inv

LEMMA ParseStep ==
  ASSUME Inv, NEW t \in Threads, NEW n \in Names, ParseBangCommand(t, n)
  PROVE  Inv'
<1>1. /\ InCode(t) /\ Len(call) \in Nat /\ StillWorking
      /\ UNCHANGED <<table, queue, life, names, phase, base>>
  BY Lengths DEF ParseBangCommand, Inv, StillWorking
<1>2. ASSUME NEW f \in {"nobody", "pending"}, call' = Append(call, [name |-> n, fate |-> f])
      PROVE  call' \in Seq(Command) /\ Len(call') = Len(call) + 1
  <2>1. [name |-> n, fate |-> f] \in Command /\ call \in Seq(Command)
    BY DEF Command, Inv, Typed
  <2>2. QED
    BY <1>2, <2>1, AppendProperties
<1>3. CASE table[n] = NoBang
  <2>1. call' = Append(call, [name |-> n, fate |-> "nobody"]) /\ UNCHANGED <<bang, stack>>
    BY <1>3 DEF ParseBangCommand
  <2>2. Grown
    BY <1>1, <1>2, <2>1, Lengths DEF Grown, Inv, Typed
  <2>3. FramesGood' /\ DepthGood'
    BY <1>1, <2>1, <2>2, StacksStay DEF Inv, DepthGood
  <2>4. TableGood' /\ QueueGood'
    BY <1>1, <2>2, TableStays, QueuesStay
  <2>5. Typed'
    BY <1>1, <2>1, <2>2 DEF Inv, Typed, Grown
  <2>6. QED
    BY <2>3, <2>4, <2>5 DEF Inv
<1>4. CASE table[n] # NoBang
  <2>1. /\ call' = Append(call, [name |-> n, fate |-> "pending"]) /\ bang' = Held(table[n])
        /\ Push(t, Found(table[n], Len(call) + 1))
    BY <1>4 DEF ParseBangCommand
  <2>2. call' \in Seq(Command) /\ Len(call') = Len(call) + 1
    BY <1>2, <2>1
  <2>3. Len(call) + 1 \in 1..Len(call') /\ Len(call) <= Len(call')
    BY <1>1, <2>2
  <2>4. Grown /\ stack' \in [Threads -> Seq(Activation)] /\ FramesGood' /\ DepthGood'
    BY <1>1, <1>4, <2>1, <2>2, <2>3, FoundKeeps
  <2>5. TableGood' /\ QueueGood'
    BY <1>1, <2>4, TableStays, QueuesStay
  <2>6. Typed'
    BY <1>1, <2>4 DEF Inv, Typed, Grown
  <2>7. QED
    BY <2>4, <2>5, <2>6 DEF Inv
<1>5. QED
  BY <1>3, <1>4

\* The innermost frame.
LEMMA TopGood ==
  ASSUME Inv, NEW t \in Threads, stack[t] # <<>>
  PROVE  /\ Top(t) = stack[t][1] /\ Good(Top(t), t, bang, Len(call), life)
         /\ Top(t).id \in 1..Len(bang) /\ Top(t).call \in 1..Len(call)
         /\ bang[Top(t).id].by \in Owners /\ Home(bang[Top(t).id].by) \in Threads
         /\ 1 \in 1..Len(stack[t]) /\ (t = UI /\ Top(t).at = "found" => Len(stack[UI]) > base)
<1>1. Len(stack[t]) \in Nat \ {0} /\ base \in Nat
  BY EmptySeq, LenProperties DEF Inv, Typed
<1>2. 1 \in 1..Len(stack[t]) /\ Top(t) = stack[t][1]
  BY <1>1 DEF Top
<1>3. Good(Top(t), t, bang, Len(call), life)
  BY <1>2 DEF Inv, FramesGood
<1>4. Top(t).id \in 1..Len(bang) /\ Top(t).call \in 1..Len(call)
  BY <1>3 DEF Good
<1>5. bang[Top(t).id].by \in Owners /\ Home(bang[Top(t).id].by) \in Threads
  BY <1>4, Ownership, Homes DEF Inv
<1>6. t = UI /\ Top(t).at = "found" => ~Under(UI, 1)
  BY <1>2 DEF Inv, DepthGood
<1>7. QED
  BY <1>1, <1>2, <1>3, <1>4, <1>5, <1>6 DEF Under

LEMMA ExecuteStep ==
  ASSUME Inv, NEW t \in Threads, Execute(t)
  PROVE  Inv'
<1> DEFINE b == Top(t).id
           c == Top(t).call
<1>1. /\ stack[t] # <<>> /\ Top(t).at = "found" /\ StillWorking
      /\ UNCHANGED <<table, life, names, phase, base>>
  BY DEF Execute, StillWorking
<1>2. /\ b \in 1..Len(bang) /\ c \in 1..Len(call) /\ Home(bang[b].by) \in Threads
      /\ t = UI => Len(stack[UI]) > base
  BY <1>1, TopGood
<1>3. ASSUME NEW f \in {"called", "nobody", "lost"}, Settle(c, f)
      PROVE  call' \in Seq(Command) /\ Len(call') = Len(call)
  BY <1>2, <1>3, SettleKeeps
<1>4. CASE /\ RunsHere(b, t) /\ stack' = [stack EXCEPT ![t][1].at = "calling"]
           /\ Settle(c, "called") /\ UNCHANGED <<bang, queue>>
  <2>1. Grown
    BY <1>3, <1>4, Lengths DEF Grown, Inv, Typed
  <2>2. stack' \in [Threads -> Seq(Activation)] /\ FramesGood' /\ DepthGood'
    BY <1>1, <1>4, <2>1, CallKeeps DEF RunsHere
  <2>3. TableGood' /\ QueueGood'
    BY <1>1, <1>4, <2>1, TableStays, QueuesStay
  <2>4. Typed'
    BY <1>1, <1>4, <2>1, <2>2 DEF Inv, Typed, Grown
  <2>5. QED
    BY <2>2, <2>3, <2>4 DEF Inv
<1>5. CASE /\ Pop(t) /\ bang' = Release(b)
           /\ \/ Posted(Home(bang[b].by), c) /\ UNCHANGED call
              \/ Settle(c, "lost") /\ UNCHANGED queue
  <2>1. /\ bang' \in Seq(Known) /\ Len(bang') = Len(bang)
        /\ \A x \in 1..Len(bang) : bang'[x].by = bang[x].by
    BY <1>2, <1>5, HeldGrows DEF Inv
  <2>2. call' \in Seq(Command) /\ Len(call') = Len(call)
    BY <1>3, <1>5 DEF Inv, Typed
  <2>3. Grown
    BY <2>1, <2>2, Lengths DEF Grown, Inv
  <2>4. stack' \in [Threads -> Seq(Activation)] /\ FramesGood' /\ DepthGood'
    BY <1>1, <1>2, <1>5, <2>3, PopKeeps DEF Pop
  <2>5. queue' \in [Threads -> Seq(Nat)] /\ QueueGood'
    <3>1. CASE Posted(Home(bang[b].by), c)
      <4>1. c \in 0..Len(call)
        BY <1>2, Lengths DEF Inv
      <4>2. QED
        BY <1>2, <2>3, <3>1, <4>1, QueuePosts DEF Posted
    <3>2. CASE UNCHANGED queue
      BY <2>3, <3>2, QueuesStay DEF Inv, Typed
    <3>3. QED
      BY <1>5, <3>1, <3>2
  <2>6. TableGood'
    BY <1>1, <2>3, TableStays
  <2>7. Typed'
    BY <1>1, <2>1, <2>2, <2>4, <2>5 DEF Inv, Typed
  <2>8. QED
    BY <2>4, <2>5, <2>6, <2>7 DEF Inv
<1>6. QED
  BY <1>4, <1>5 DEF Execute

LEMMA ReturnStep ==
  ASSUME Inv, NEW t \in Threads, Return(t)
  PROVE  Inv'
<1>1. /\ stack[t] # <<>> /\ Pop(t) /\ bang' = Release(Top(t).id) /\ StillWorking
      /\ t = UI => Len(stack[UI]) > base \/ phase = "run"
      /\ UNCHANGED <<table, queue, life, names, call, phase, base>>
  BY DEF Return, Calling, StillWorking
<1>2. /\ bang' \in Seq(Known) /\ Len(bang') = Len(bang)
      /\ \A x \in 1..Len(bang) : bang'[x].by = bang[x].by
  BY <1>1, TopGood, HeldGrows DEF Inv
<1>3. Grown
  BY <1>1, <1>2, Lengths DEF Grown, Inv, Typed
<1>4. t = UI => Len(stack[UI]) > base
  <2>1. t = UI => 1 \in 1..Len(stack[UI]) /\ Len(stack[UI]) \in Nat
    BY <1>1, TopGood, Lengths DEF Inv
  <2>2. phase = "run" => base = 0
    BY DEF Inv, DepthGood
  <2>3. QED
    BY <1>1, <2>1, <2>2
<1>5. stack' \in [Threads -> Seq(Activation)] /\ FramesGood' /\ DepthGood'
  BY <1>1, <1>3, <1>4, PopKeeps DEF Pop
<1>6. TableGood' /\ QueueGood'
  BY <1>1, <1>3, TableStays, QueuesStay
<1>7. Typed'
  BY <1>1, <1>2, <1>5 DEF Inv, Typed
<1>8. QED
  BY <1>5, <1>6, <1>7 DEF Inv

LEMMA DispatchStep ==
  ASSUME Inv, NEW t \in Threads, Dispatch(t)
  PROVE  Inv'
<1> DEFINE c == Head(queue[t])
<1>1. /\ Loops(t) /\ queue[t] # <<>> /\ c # 0 /\ queue' = [queue EXCEPT ![t] = Tail(@)]
      /\ Lookup(t, c, call[c].name) /\ UNCHANGED <<table, life, names, phase, base>>
      /\ StillWorking
  BY DEF Dispatch, Destroy, StillWorking
<1>2. Len(call) \in Nat /\ Len(stack[t]) \in Nat /\ Len(queue[t]) \in Nat /\ base \in Nat
  BY Lengths DEF Inv, Typed
<1>3. c \in 1..Len(call) /\ call[c].name \in Names
  <2>1. Len(queue[t]) # 0 /\ c = queue[t][1]
    BY <1>1, EmptySeq DEF Inv, Typed
  <2>2. c \in 0..Len(call)
    BY <1>2, <2>1 DEF Inv, QueueGood
  <2>3. c \in 1..Len(call)
    BY <1>1, <1>2, <2>2
  <2>4. call[c] \in Command
    BY <2>3, ElementOfSeq DEF Inv, Typed
  <2>5. QED
    BY <2>3, <2>4 DEF Command
<1>4. InCode(t)
  <2>1. CASE stack[t] = <<>>
    BY <2>1 DEF InCode
  <2>2. CASE stack[t] # <<>>
    <3>1. t = UI /\ Len(stack[UI]) = base
      BY <1>1, <2>2 DEF Loops
    <3>2. 1 \in 1..Len(stack[t]) /\ Top(t) = stack[t][1]
      BY <2>2, TopGood
    <3>3. Under(t, 1)
      BY <1>2, <3>1, <3>2 DEF Under
    <3>4. QED
      BY <3>2, <3>3 DEF Inv, DepthGood, InCode
  <2>3. QED
    BY <2>1, <2>2
<1>5. CASE table[call[c].name] = NoBang
  <2>1. Settle(c, "nobody") /\ UNCHANGED <<bang, stack>>
    BY <1>1, <1>5 DEF Lookup
  <2>2. Grown
    BY <1>2, <1>3, <2>1, SettleKeeps, Lengths DEF Grown, Inv, Typed
  <2>3. FramesGood' /\ DepthGood'
    BY <1>1, <2>1, <2>2, StacksStay DEF Inv, DepthGood
  <2>4. queue' \in [Threads -> Seq(Nat)] /\ QueueGood' /\ TableGood'
    BY <1>1, <2>2, QueueTakes, TableStays
  <2>5. Typed'
    BY <1>1, <2>1, <2>2, <2>4 DEF Inv, Typed, Grown
  <2>6. QED
    BY <2>3, <2>4, <2>5 DEF Inv
<1>6. CASE table[call[c].name] # NoBang
  <2>1. /\ bang' = Held(table[call[c].name]) /\ call' = call
        /\ Push(t, Found(table[call[c].name], c))
    BY <1>1, <1>6 DEF Lookup
  <2>2. c \in 1..Len(call') /\ call' \in Seq(Command) /\ Len(call) <= Len(call')
    BY <1>2, <1>3, <2>1 DEF Inv, Typed
  <2>3. Grown /\ stack' \in [Threads -> Seq(Activation)] /\ FramesGood' /\ DepthGood'
    BY <1>1, <1>3, <1>4, <1>6, <2>1, <2>2, FoundKeeps
  <2>4. queue' \in [Threads -> Seq(Nat)] /\ QueueGood' /\ TableGood'
    BY <1>1, <2>3, QueueTakes, TableStays
  <2>5. Typed'
    BY <1>1, <2>3, <2>4 DEF Inv, Typed, Grown
  <2>6. QED
    BY <2>3, <2>4, <2>5 DEF Inv
<1>7. QED
  BY <1>5, <1>6

LEMMA DropStep ==
  ASSUME Inv, NEW t \in Threads, DropInModal(t)
  PROVE  Inv'
<1>1. /\ Len(call) \in Nat /\ t \in Threads /\ queue[t] # <<>> /\ queue[t] \in Seq(Nat)
      /\ queue' = [queue EXCEPT ![t] = Tail(@)] 
      /\ IF Head(queue[t]) = 0 THEN call' = call ELSE Settle(Head(queue[t]), "lost")
      /\ UNCHANGED <<table, bang, stack, life, names, phase, base>> /\ StillWorking
  BY Lengths, Homes DEF DropInModal, Destroy, Inv, Typed, StillWorking
<1>2. call' \in Seq(Command) /\ Len(call') = Len(call)
  <2>1. Len(queue[t]) \in Nat \ {0} /\ Head(queue[t]) = queue[t][1]
    BY <1>1, EmptySeq, LenProperties
  <2>2. Head(queue[t]) \in 0..Len(call)
    BY <1>1, <2>1 DEF Inv, QueueGood
  <2>3. CASE Head(queue[t]) = 0
    BY <1>1, <2>3 DEF Inv, Typed
  <2>4. CASE Head(queue[t]) # 0
    BY <1>1, <2>2, <2>4, SettleKeeps
  <2>5. QED
    BY <2>3, <2>4
<1>3. Grown
  BY <1>1, <1>2, Lengths DEF Grown, Inv, Typed
<1>4. queue' \in [Threads -> Seq(Nat)] /\ QueueGood' /\ TableGood'
  BY <1>1, <1>3, QueueTakes, TableStays
<1>5. FramesGood' /\ DepthGood'
  BY <1>1, <1>3, StacksStay DEF Inv, DepthGood
<1>6. Typed'
  BY <1>1, <1>2, <1>4 DEF Inv, Typed
<1>7. QED
  BY <1>4, <1>5, <1>6 DEF Inv

\* InitReturns, ThreadEnds: a module that works goes on working.
LEMMA LifeStep ==
  ASSUME Inv, NEW m \in Modules, InitReturns(m) \/ ThreadEnds(m)
  PROVE  Inv'
<1>1. /\ UNCHANGED <<table, bang, queue, stack, names, call, phase, base>>
      /\ life' \in [Modules -> Lives] /\ StillWorking
  BY DEF InitReturns, ThreadEnds, Inv, Typed, Lives, Working, StillWorking
<1>2. Grown
  BY <1>1, SameGrows
<1>3. FramesGood' /\ DepthGood' /\ TableGood' /\ QueueGood'
  BY <1>1, <1>2, StacksStay, TableStays, QueuesStay DEF Inv, DepthGood
<1>4. Typed'
  BY <1>1 DEF Inv, Typed
<1>5. QED
  BY <1>3, <1>4 DEF Inv

LEMMA ThreadQuitsStep ==
  ASSUME Inv, NEW m \in Modules, ThreadQuits(m)
  PROVE  Inv'
<1>1. /\ m \in Threads /\ queue[m] # <<>> /\ queue' = [queue EXCEPT ![m] = Tail(@)]
      /\ UNCHANGED <<table, bang, stack, names, call, phase, base>>
      /\ life' \in [Modules -> Lives] /\ StillWorking
  BY Homes DEF ThreadQuits, Loops, Inv, Typed, Lives, Working, StillWorking, Threads
<1>2. Grown
  BY <1>1, SameGrows
<1>3. FramesGood' /\ DepthGood' /\ TableGood'
  BY <1>1, <1>2, StacksStay, TableStays DEF Inv, DepthGood
<1>4. queue' \in [Threads -> Seq(Nat)] /\ QueueGood'
  BY <1>1, <1>2, QueueTakes
<1>5. Typed'
  BY <1>1, <1>4 DEF Inv, Typed
<1>6. QED
  BY <1>3, <1>4, <1>5 DEF Inv

\* The module's thread has no frame, or the main thread none above the recycle.
LEMMA QuitStep ==
  ASSUME Inv, NEW m \in Modules, QuitReturns(m)
  PROVE  Inv'
<1>1. /\ names[m] = {} /\ life' = [life EXCEPT ![m] = "quit"]
      /\ IF m \in Threaded THEN stack[m] = <<>> ELSE Len(stack[UI]) = base
      /\ UNCHANGED <<table, bang, queue, stack, names, call, phase, base>>
  BY DEF QuitReturns
<1>2. /\ life' \in [Modules -> Lives] /\ \A x \in Modules : x # m => life'[x] = life[x]
      /\ Shell \notin Modules
  BY <1>1, BangsAssumption DEF Inv, Typed, Lives
<1>3. \A b \in 1..Len(bang) : bang[b].by \in Modules \cup {Shell}
  BY Ownership DEF Inv, Owners
<1>4. ASSUME NEW t \in Threads, NEW i \in 1..Len(stack[t])
      PROVE  Good(stack[t][i], t, bang, Len(call), life')
  <2> DEFINE by == bang[stack[t][i].id].by
  <2>1. Good(stack[t][i], t, bang, Len(call), life)
    BY DEF Inv, FramesGood
  <2>2. by = m => Home(m) # t \/ stack[t][i].under
    <3>1. SUFFICES ASSUME by = m, Home(m) = t PROVE stack[t][i].under
      OBVIOUS
    <3>2. CASE m \in Threaded
      <4>1. Len(stack[t]) = 0
        BY <1>1, <3>1, <3>2 DEF Home
      <4>2. QED
        BY <4>1
    <3>3. CASE m \notin Threaded
      <4>1. t = UI /\ Len(stack[UI]) = base /\ base \in Nat
        BY <1>1, <3>1, <3>3 DEF Home, Inv, Typed
      <4>2. Under(UI, i)
        BY <4>1 DEF Under
      <4>3. QED
        BY <3>1, <4>1, <4>2 DEF Inv, DepthGood
    <3>4. QED
      BY <3>2, <3>3
  <2>3. by \in Modules \cup {Shell}
    BY <1>3, <2>1 DEF Good
  <2>4. QED
    BY <1>2, <2>1, <2>2, <2>3 DEF Good
<1>5. FramesGood' /\ DepthGood'
  BY <1>1, <1>4 DEF FramesGood, DepthGood, Under, Inv
<1>6. ASSUME NEW n \in Names, table[n] # NoBang
      PROVE  bang[table[n]].by # Shell => life'[bang[table[n]].by] \in Working
  <2>1. Entered(table[n], n)
    BY <1>6 DEF Inv, TableGood
  <2>2. bang[table[n]].by \in Modules \cup {Shell}
    BY <1>3, <2>1 DEF Entered
  <2>3. QED
    BY <1>1, <1>2, <2>1, <2>2 DEF Entered
<1>7. TableGood'
  BY <1>1, <1>6 DEF TableGood, Entered, Inv
<1>8. QueueGood'
  BY <1>1 DEF QueueGood, Inv
<1>9. Typed'
  BY <1>1, <1>2 DEF Inv, Typed
<1>10. QED
  BY <1>5, <1>7, <1>8, <1>9 DEF Inv

LEMMA SeqOfFunction ==
  ASSUME NEW S, NEW n \in Nat, NEW f \in [1..n -> S]
  PROVE  f \in Seq(S) /\ Len(f) = n
<1>1. f \in Seq(S)
  BY SeqDef
<1>2. DOMAIN f = 1..n /\ DOMAIN f = 1..Len(f) /\ Len(f) \in Nat
  BY <1>1, LenProperties
<1> QED
  BY <1>1, <1>2

LEMMA UnloadStep ==
  ASSUME Inv, UnloadBegins
  PROVE  Inv'
<1> DEFINE st == [i \in DOMAIN stack[UI] |-> [stack[UI][i] EXCEPT !.under = TRUE]]
<1>1. /\ phase' = "unload" /\ base' = Len(stack[UI]) /\ InCode(UI)
      /\ stack' = [stack EXCEPT ![UI] = st] /\ UNCHANGED <<table, bang, names, call>>
  BY DEF UnloadBegins
<1>2. Len(stack[UI]) \in Nat /\ UI \in Threads /\ stack[UI] \in Seq(Activation)
  BY Lengths, Homes DEF Inv, Typed
<1>3. life' \in [Modules -> Lives] /\ StillWorking
  BY DEF UnloadBegins, Inv, Typed, Lives, Working, StillWorking
<1>4. Grown
  BY <1>1, SameGrows
<1>5. DOMAIN stack[UI] = 1..Len(stack[UI]) /\ \A i \in 1..Len(stack[UI]) : stack[UI][i] \in Activation
  BY <1>2, LenProperties, ElementOfSeq
<1>6. /\ st \in Seq(Activation) /\ Len(st) = Len(stack[UI])
      /\ \A i \in 1..Len(stack[UI]) : st[i] = [stack[UI][i] EXCEPT !.under = TRUE]
  <2>1. \A i \in 1..Len(stack[UI]) : [stack[UI][i] EXCEPT !.under = TRUE] \in Activation
    BY <1>5 DEF Activation
  <2>2. st \in [1..Len(stack[UI]) -> Activation]
    BY <1>5, <2>1
  <2>3. st \in Seq(Activation) /\ Len(st) = Len(stack[UI])
    BY <1>2, <2>2, SeqOfFunction
  <2>4. QED
    BY <1>5, <2>3
<1> HIDE DEF st
<1>7. /\ stack' \in [Threads -> Seq(Activation)] /\ stack'[UI] = st
      /\ \A t \in Threads : t # UI => stack'[t] = stack[t]
  BY <1>1, <1>2, <1>6 DEF Inv, Typed
<1>14. ASSUME NEW i \in 1..Len(stack[UI])
       PROVE  /\ st[i].id = stack[UI][i].id /\ st[i].call = stack[UI][i].call
              /\ st[i].at = stack[UI][i].at /\ st[i].under
  BY <1>5, <1>6 DEF Activation
<1>15. ASSUME NEW i \in 1..Len(stack[UI]) PROVE stack[UI][i].at = "calling"
  <2>1. stack[UI] # <<>>
    BY <1>2
  <2>2. stack[UI][1].at = "calling"
    BY <1>1, <2>1 DEF InCode, Top
  <2>3. QED
    BY <1>2, <2>2 DEF Inv, DepthGood
<1>16. ASSUME NEW t \in Threads, NEW i \in 1..Len(stack'[t])
       PROVE  /\ Good(stack'[t][i], t, bang', Len(call'), life')
              /\ i > 1 \/ t = UI => stack'[t][i].at = "calling"
              /\ t = UI => stack'[t][i].under
  <2>1. CASE t = UI
    <3>1. i \in 1..Len(stack[UI]) /\ stack'[t][i] = st[i]
      BY <1>6, <1>7, <2>1
    <3>2. Good(stack[UI][i], UI, bang', Len(call'), life')
      BY <1>2, <1>3, <1>4, <3>1, FrameKept
    <3>3. st[i].at = "calling" /\ st[i].under
      BY <1>14, <1>15, <3>1
    <3>4. Good(st[i], UI, bang', Len(call'), life')
      BY <1>14, <3>1, <3>2 DEF Good
    <3>5. QED
      BY <2>1, <3>1, <3>3, <3>4
  <2>2. CASE t # UI
    <3>1. i \in 1..Len(stack[t]) /\ stack'[t] = stack[t]
      BY <1>7, <2>2
    <3>2. Good(stack[t][i], t, bang', Len(call'), life')
      BY <1>3, <1>4, <3>1, FrameKept
    <3>3. i > 1 => stack[t][i].at = "calling"
      BY <3>1 DEF Inv, DepthGood
    <3>4. QED
      BY <2>2, <3>1, <3>2, <3>3
  <2>3. QED
    BY <2>1, <2>2
<1>17. FramesGood'
  BY <1>16 DEF FramesGood
<1>18. DepthGood'
  <2>1. base' <= Len(stack'[UI])
    BY <1>1, <1>2, <1>6, <1>7
  <2>2. QED
    BY <1>1, <1>2, <1>16, <2>1 DEF DepthGood, Under
<1>8. TableGood'
  BY <1>1, <1>3, <1>4, TableStays
<1>9. ASSUME NEW t \in Threads
      PROVE  /\ queue'[t] \in Seq(Nat)
             /\ \A i \in 1..Len(queue'[t]) : queue'[t][i] \in 0..Len(call)
  <2>1. queue[t] \in Seq(Nat) /\ Len(call) \in Nat
    BY Lengths DEF Inv, Typed
  <2>2. \A i \in 1..Len(queue[t]) : queue[t][i] \in 0..Len(call)
    BY DEF Inv, QueueGood
  <2>3. queue'[t] = queue[t] \/ queue'[t] = Append(queue[t], 0)
    BY DEF UnloadBegins, Destroy
  <2>4. CASE queue'[t] = Append(queue[t], 0)
    <3>1. /\ Len(queue'[t]) = Len(queue[t]) + 1 /\ queue'[t] \in Seq(Nat)
          /\ \A i \in 1..Len(queue[t]) : queue'[t][i] = queue[t][i]
          /\ queue'[t][Len(queue[t]) + 1] = 0 /\ Len(queue[t]) \in Nat
      <4>1. 0 \in Nat /\ Len(queue[t]) \in Nat
        BY <2>1, LenProperties
      <4>2. QED
        BY <2>1, <2>4, <4>1, AppendProperties
    <3>2. ASSUME NEW i \in 1..Len(queue'[t]) PROVE queue'[t][i] \in 0..Len(call)
      <4>1. CASE i = Len(queue[t]) + 1
        BY <2>1, <3>1, <4>1
      <4>2. CASE i # Len(queue[t]) + 1
        <5>1. i \in 1..Len(queue[t])
          BY <3>1, <4>2
        <5>2. QED
          BY <2>2, <3>1, <5>1
      <4>3. QED
        BY <4>1, <4>2
    <3>3. QED
      BY <3>1, <3>2
  <2>5. QED
    BY <2>1, <2>2, <2>3, <2>4
<1>10. queue' \in [Threads -> Seq(Nat)]
  BY <1>9 DEF UnloadBegins
<1>11. QueueGood'
  BY <1>1, <1>9 DEF QueueGood
<1>12. Typed'
  BY <1>1, <1>2, <1>3, <1>7, <1>10 DEF Inv, Typed
<1>13. QED
  BY <1>8, <1>11, <1>12, <1>17, <1>18 DEF Inv

LEMMA ClearStep ==
  ASSUME Inv, ClearBangCommands
  PROVE  Inv'
<1>1. /\ phase' = "setup" /\ table' = [n \in Names |-> NoBang]
      /\ UNCHANGED <<queue, stack, life, names, call, base>> /\ StillWorking
  BY DEF ClearBangCommands, StillWorking
<1>2. DOMAIN bang = 1..Len(bang) /\ Len(bang) \in Nat
  BY LenProperties DEF Inv, Typed
<1>3. ASSUME NEW b \in 1..Len(bang)
      PROVE  bang'[b] \in Known /\ bang'[b].by = bang[b].by
  <2>1. bang[b] \in Known
    BY Ownership DEF Inv
  <2>2. \E k \in {bang[b].refs, bang[b].refs - 1} : bang'[b] = [bang[b] EXCEPT !.refs = k]
    BY <1>2 DEF ClearBangCommands
  <2>3. QED
    BY <2>1, <2>2 DEF Known
<1>4. bang' \in [1..Len(bang) -> Known]
  BY <1>2, <1>3 DEF ClearBangCommands
<1>5. bang' \in Seq(Known) /\ Len(bang') = Len(bang)
  BY <1>2, <1>4
<1>6. Grown
  BY <1>1, <1>2, <1>3, <1>5, Lengths DEF Grown, Inv, Typed
<1>7. FramesGood' /\ DepthGood' /\ QueueGood'
  BY <1>1, <1>6, StacksStay, QueuesStay
<1>8. TableGood'
  BY <1>1 DEF TableGood, NoBang
<1>9. Typed'
  BY <1>1, <1>5 DEF Inv, Typed, NoBang
<1>10. QED
  BY <1>7, <1>8, <1>9 DEF Inv

LEMMA SetupStep ==
  ASSUME Inv, NEW n \in Core, SetupBangs(n)
  PROVE  Inv'
<1>1. /\ n \in Names /\ Shell \in Owners /\ Insert(n, Shell)
      /\ UNCHANGED <<queue, stack, life, names, call, phase, base>> /\ StillWorking
  BY BangsAssumption DEF SetupBangs, Owners, StillWorking
<1>2. Grown /\ table' \in [Names -> Nat] /\ TableGood'
  BY <1>1, InsertKeeps
<1>3. FramesGood' /\ DepthGood' /\ QueueGood'
  BY <1>1, <1>2, StacksStay, QueuesStay DEF Inv, DepthGood
<1>4. Typed'
  BY <1>1, <1>2 DEF Inv, Typed, Grown
<1>5. QED
  BY <1>2, <1>3, <1>4 DEF Inv

LEMMA LoadStep ==
  ASSUME Inv, LoadModules
  PROVE  Inv'
<1>1. /\ phase' = "run" /\ base' = 0 /\ UNCHANGED <<table, bang, queue, stack, names, call>>
      /\ life' \in [Modules -> Lives] /\ StillWorking
  BY DEF LoadModules, Inv, Typed, Lives, Working, StillWorking
<1>2. Grown
  BY <1>1, SameGrows
<1>3. FramesGood'
  BY <1>1, <1>2, FrameKept DEF FramesGood
<1>4. DepthGood'
  BY <1>1, Lengths, Homes DEF DepthGood, Under, Inv
<1>5. TableGood' /\ QueueGood'
  BY <1>1, <1>2, TableStays, QueuesStay
<1>6. Typed'
  BY <1>1 DEF Inv, Typed
<1>7. QED
  BY <1>3, <1>4, <1>5, <1>6 DEF Inv

-----------------------------------------------------------------------------
LEMMA Start == Init => Inv
<1> SUFFICES ASSUME Init PROVE Inv
  OBVIOUS
<1>1. \A t \in Threads : Len(stack[t]) = 0 /\ Len(queue[t]) = 0
  BY DEF Init
<1>2. Typed
  BY DEF Init, Typed, NoBang, Lives
<1>3. FramesGood /\ QueueGood /\ TableGood
  BY <1>1 DEF FramesGood, QueueGood, TableGood, Init
<1>4. DepthGood
  BY <1>1, Homes DEF DepthGood, Init
<1>5. QED
  BY <1>2, <1>3, <1>4 DEF Inv

LEMMA StepPreserves == Inv /\ [Next]_vars => Inv'
<1> SUFFICES ASSUME Inv, [Next]_vars PROVE Inv'
  OBVIOUS
<1>1. CASE \E m \in Modules, n \in Names : AddBangCommand(m, n) \/ RemoveBangCommand(m, n)
  BY <1>1, AddStep, RemoveStep
<1>2. CASE \E t \in Threads, n \in Names : ParseBangCommand(t, n)
  BY <1>2, ParseStep
<1>3. CASE \E t \in Threads : Proceeds(t)
  BY <1>3, ExecuteStep, ReturnStep, DispatchStep DEF Proceeds
<1>4. CASE \E m \in Modules : Quits(m)
  BY <1>4, LifeStep, ThreadQuitsStep, QuitStep DEF Quits
<1>5. CASE \E t \in Threads : DropInModal(t)
  BY <1>5, DropStep
<1>6. CASE UnloadBegins
  BY <1>6, UnloadStep
<1>7. CASE Recycles
  BY <1>7, ClearStep, SetupStep, LoadStep DEF Recycles
<1>8. CASE UNCHANGED vars
  BY <1>8 DEF vars, Inv, Typed, FramesGood, Good, DepthGood, Under, TableGood, Entered,
              QueueGood
<1>9. QED
  BY <1>1, <1>2, <1>3, <1>4, <1>5, <1>6, <1>7, <1>8 DEF Next

\* Whatever threads register, replace, remove and execute, and wherever a recycle is
\* dispatched, no callback of a module begins once its quitModule has returned, and none on a
\* thread of its own is left (BangManager.cpp:39-127, BangCommand.cpp:86-107, Module.cpp:447-471).
\* What is left is beneath a recycle: the main thread's callbacks in whose modal loops
\* LM_RECYCLE was dispatched (litestep.cpp:1789).
THEOREM NoLateCallback == Spec => []NoneAfterQuit
<1>1. Inv => NoneAfterQuit
  <2> SUFFICES ASSUME Inv, NEW t \in Threads, NEW i \in DOMAIN stack[t],
                      stack[t][i].at = "calling", bang[stack[t][i].id].by # Shell,
                      life[bang[stack[t][i].id].by] \in {"quit", "ended"}
               PROVE  t = UI /\ stack[t][i].under
    BY DEF NoneAfterQuit
  <2>1. i \in 1..Len(stack[t])
    BY LenProperties DEF Inv, Typed
  <2>2. life[bang[stack[t][i].id].by] \in Working \/ stack[t][i].under
    BY <2>1 DEF Inv, FramesGood, Good
  <2>3. stack[t][i].under => t = UI
    BY <2>1 DEF Inv, FramesGood, Good
  <2>4. QED
    BY <2>2, <2>3 DEF Working
<1>2. QED
  BY <1>1, Start, StepPreserves, PTL DEF Spec

-----------------------------------------------------------------------------
(* Counting the holders of a Bang.                                          *)

Places(st)   == UNION {{t} \X DOMAIN st[t] : t \in Threads}
Acts(st, b)  == {x \in Places(st) : st[x[1]][x[2]].id = b}
Entries(tb, b) == {n \in Names : tb[n] = b}
Same(x, y)   == IF x = y THEN 1 ELSE 0

LEMMA InPlaces ==
  ASSUME NEW st \in [Threads -> Seq(Activation)], NEW x
  PROVE  x \in Places(st) <=> \E t \in Threads, i \in Nat : i \in DOMAIN st[t] /\ x = <<t, i>>
<1>1. \A t \in Threads : DOMAIN st[t] \subseteq Nat
  BY LenProperties
<1>2. QED
  BY <1>1 DEF Places

LEMMA InActs ==
  ASSUME NEW st \in [Threads -> Seq(Activation)], NEW b, NEW x \in Acts(st, b)
  PROVE  \E t \in Threads, i \in Nat : i \in DOMAIN st[t] /\ x = <<t, i>> /\ st[t][i].id = b
<1>1. x \in Places(st) /\ st[x[1]][x[2]].id = b
  BY DEF Acts
<1>2. PICK t \in Threads, i \in Nat : i \in DOMAIN st[t] /\ x = <<t, i>>
  BY <1>1, InPlaces
<1>3. QED
  BY <1>1, <1>2

LEMMA EntriesFinite ==
  ASSUME NEW tb, NEW b
  PROVE  IsFiniteSet(Entries(tb, b)) /\ Cardinality(Entries(tb, b)) \in Nat
<1>1. IsFiniteSet(Names) /\ Entries(tb, b) \in SUBSET Names
  BY BangsAssumption DEF Entries
<1>2. QED
  BY <1>1, FS_Subset, FS_CardinalityType

LEMMA ActsFinite ==
  ASSUME NEW st \in [Threads -> Seq(Activation)], NEW b
  PROVE  IsFiniteSet(Acts(st, b)) /\ Cardinality(Acts(st, b)) \in Nat
<1> DEFINE row == [t \in Threads |-> {t} \X DOMAIN st[t]]
           rows == {{t} \X DOMAIN st[t] : t \in Threads}
<1>1. ASSUME NEW t \in Threads PROVE IsFiniteSet({t} \X DOMAIN st[t])
  <2>1. DOMAIN st[t] = 1..Len(st[t]) /\ Len(st[t]) \in Nat
    BY LenProperties
  <2>2. IsFiniteSet(DOMAIN st[t])
    BY <2>1, FS_Interval
  <2>3. IsFiniteSet({t})
    BY FS_Singleton
  <2>4. QED
    BY <2>2, <2>3, FS_Product
<1>2. row \in Surjection(Threads, rows)
  BY Fun_IsSurj
<1>3. IsFiniteSet(rows)
  BY <1>2, BangsAssumption, FS_Surjection
<1>4. IsFiniteSet(Places(st))
  BY <1>1, <1>3, FS_UNION DEF Places
<1>5. Acts(st, b) \in SUBSET Places(st)
  BY DEF Acts
<1>6. QED
  BY <1>4, <1>5, FS_Subset, FS_CardinalityType

\* A frame on top of a stack is one more holder of its Bang.
Onto(new, st, t, f) ==
  new[t] = <<f>> \o st[t] /\ \A u \in Threads : u # t => new[u] = st[u]

LEMMA ActsPush ==
  ASSUME NEW st \in [Threads -> Seq(Activation)], NEW t \in Threads, NEW f \in Activation, NEW b,
         NEW new \in [Threads -> Seq(Activation)], Onto(new, st, t, f)
  PROVE  Cardinality(Acts(new, b)) = Cardinality(Acts(st, b)) + Same(f.id, b)
<1> DEFINE S == Acts(st, b)
           up(x) == IF x[1] = t THEN <<t, x[2] + 1>> ELSE x
           g == [x \in S |-> up(x)]
           T == {up(x) : x \in S}
<1>1. /\ Len(st[t]) \in Nat /\ DOMAIN st[t] = 1..Len(st[t])
      /\ new[t] \in Seq(Activation) /\ DOMAIN new[t] = 1..(Len(st[t]) + 1)
      /\ new[t][1] = f /\ \A i \in 1..Len(st[t]) : new[t][i + 1] = st[t][i]
      /\ \A u \in Threads : u # t => new[u] = st[u]
  <2>1. new[t] = <<f>> \o st[t] /\ \A u \in Threads : u # t => new[u] = st[u]
    BY DEF Onto
  <2>2. st[t] \in Seq(Activation) /\ <<f>> \in Seq(Activation) /\ Len(<<f>>) = 1
    OBVIOUS
  <2>3. Len(st[t]) \in Nat /\ DOMAIN st[t] = 1..Len(st[t])
    BY <2>2, LenProperties
  <2>4. /\ new[t] \in Seq(Activation) /\ Len(new[t]) = 1 + Len(st[t])
        /\ \A i \in 1..(1 + Len(st[t])) :
             new[t][i] = IF i <= 1 THEN <<f>>[i] ELSE st[t][i - 1]
    BY <2>1, <2>2, ConcatProperties
  <2>5. DOMAIN new[t] = 1..Len(new[t])
    BY <2>4, LenProperties
  <2>6. ASSUME NEW i \in 1..Len(st[t]) PROVE new[t][i + 1] = st[t][i]
    <3>1. i + 1 \in 1..(1 + Len(st[t])) /\ ~(i + 1 <= 1) /\ (i + 1) - 1 = i
      BY <2>3
    <3>2. QED
      BY <2>4, <3>1
  <2>7. new[t][1] = f
    BY <2>3, <2>4
  <2>8. QED
    BY <2>1, <2>3, <2>4, <2>5, <2>6, <2>7
<1>2. ASSUME NEW x \in S
      PROVE  \E u \in Threads, i \in Nat : i \in DOMAIN st[u] /\ x = <<u, i>> /\ st[u][i].id = b
  BY InActs
<1>3. ASSUME NEW x \in S, NEW y \in S, up(x) = up(y)
      PROVE  x = y
  <2>1. PICK u \in Threads, i \in Nat : i \in DOMAIN st[u] /\ x = <<u, i>>
    BY <1>2
  <2>2. PICK v \in Threads, j \in Nat : j \in DOMAIN st[v] /\ y = <<v, j>>
    BY <1>2
  <2>3. CASE u = t
    <3>1. i \in Nat /\ up(x) = <<t, i + 1>>
      BY <1>1, <2>1, <2>3
    <3>2. CASE v = t
      BY <1>1, <1>3, <2>1, <2>2, <2>3, <3>1, <3>2
    <3>3. CASE v # t
      BY <1>3, <2>2, <3>1, <3>3
    <3>4. QED
      BY <3>2, <3>3
  <2>4. CASE u # t
    <3>1. up(x) = <<u, i>>
      BY <2>1, <2>4
    <3>2. v # t
      BY <1>3, <2>2, <2>4, <3>1
    <3>3. QED
      BY <1>3, <2>1, <2>2, <3>1, <3>2
  <2>5. QED
    BY <2>3, <2>4
<1>4. g \in Bijection(S, T)
  BY <1>3, Fun_IsBij
<1>5. IsFiniteSet(S) /\ Cardinality(S) \in Nat
  BY ActsFinite
<1>6. IsFiniteSet(T) /\ Cardinality(T) = Cardinality(S)
  BY <1>4, <1>5, FS_Bijection DEF ExistsBijection
<1>7. <<t, 1>> \notin T
  <2> SUFFICES ASSUME NEW x \in S, up(x) = <<t, 1>> PROVE FALSE
    OBVIOUS
  <2>1. PICK u \in Threads, i \in Nat : i \in DOMAIN st[u] /\ x = <<u, i>>
    BY <1>2
  <2>2. u = t
    BY <2>1
  <2>3. i \in 1..Len(st[t]) /\ i + 1 = 1
    BY <1>1, <2>1, <2>2
  <2>4. QED
    BY <1>1, <2>3
<1>8. Acts(new, b) = IF f.id = b THEN T \cup {<<t, 1>>} ELSE T
  <2>1. ASSUME NEW x \in T PROVE x \in Acts(new, b)
    <3>1. PICK y \in S : x = up(y)
      OBVIOUS
    <3>2. PICK u \in Threads, i \in Nat : i \in DOMAIN st[u] /\ y = <<u, i>> /\ st[u][i].id = b
      BY <1>2
    <3>3. CASE u = t
      <4>1. x = <<t, i + 1>> /\ i + 1 \in DOMAIN new[t] /\ new[t][i + 1] = st[t][i]
        BY <1>1, <3>1, <3>2, <3>3
      <4>2. QED
        BY <3>2, <3>3, <4>1, InPlaces DEF Acts
    <3>4. CASE u # t
      <4>1. x = <<u, i>> /\ i \in DOMAIN new[u] /\ new[u][i] = st[u][i]
        BY <1>1, <3>1, <3>2, <3>4
      <4>2. QED
        BY <3>2, <4>1, InPlaces DEF Acts
    <3>5. QED
      BY <3>3, <3>4
  <2>2. f.id = b => <<t, 1>> \in Acts(new, b)
    <3>1. 1 \in DOMAIN new[t]
      BY <1>1
    <3>2. QED
      BY <1>1, <3>1, InPlaces DEF Acts
  <2>3. ASSUME NEW x \in Acts(new, b)
        PROVE  x \in T \/ (f.id = b /\ x = <<t, 1>>)
    <3>1. PICK u \in Threads, i \in Nat : i \in DOMAIN new[u] /\ x = <<u, i>> /\ new[u][i].id = b
      BY <1>1, <2>3, InActs
    <3>2. CASE u # t
      <4>1. i \in DOMAIN st[u] /\ st[u][i].id = b
        BY <1>1, <3>1, <3>2
      <4>2. x \in S /\ up(x) = x
        BY <3>1, <3>2, <4>1, InPlaces DEF Acts
      <4>3. QED
        BY <4>2
    <3>3. CASE u = t /\ i = 1
      BY <1>1, <3>1, <3>3
    <3>4. CASE u = t /\ i # 1
      <4>1. i - 1 \in 1..Len(st[t]) /\ (i - 1) + 1 = i
        BY <1>1, <3>1, <3>4
      <4>2. st[t][i - 1].id = b /\ <<t, i - 1>> \in S
        <5>1. PICK k \in 1..Len(st[t]) : k = i - 1 /\ k + 1 = i /\ k \in Nat
          BY <1>1, <4>1
        <5>2. st[t][k].id = b /\ k \in DOMAIN st[t]
          BY <1>1, <3>1, <3>4, <5>1
        <5>3. <<t, k>> \in S
          BY <5>1, <5>2, InPlaces DEF Acts
        <5>4. QED
          BY <5>1, <5>2, <5>3
      <4>3. up(<<t, i - 1>>) = x
        BY <3>1, <3>4, <4>1
      <4>4. QED
        BY <4>2, <4>3
    <3>5. QED
      BY <3>2, <3>3, <3>4
  <2> HIDE DEF T
  <2>4. QED
    BY <2>1, <2>2, <2>3
<1>9. Cardinality(T \cup {<<t, 1>>}) = Cardinality(T) + 1
  BY <1>6, <1>7, FS_AddElement
<1> HIDE DEF S, T
<1>10. Cardinality(Acts(new, b)) = Cardinality(S) + Same(f.id, b)
  BY <1>5, <1>6, <1>8, <1>9 DEF Same
<1>11. QED
  BY <1>10 DEF S

LEMMA ActsPop ==
  ASSUME NEW st \in [Threads -> Seq(Activation)], NEW t \in Threads, st[t] # <<>>
  PROVE  /\ Head(st[t]) \in Activation /\ Tail(st[t]) \in Seq(Activation)
         /\ st[t] = <<Head(st[t])>> \o Tail(st[t])
<1>1. /\ Head(st[t]) \in Activation /\ Tail(st[t]) \in Seq(Activation)
      /\ st[t] = <<Head(st[t])>> \o Tail(st[t])
  <2>1. st[t] \in Seq(Activation) /\ st[t] # <<>>
    OBVIOUS
  <2>2. PICK s \in Seq(Activation) : s = st[t] /\ s # <<>>
    BY <2>1
  <2>3. /\ Head(s) \in Activation /\ Tail(s) \in Seq(Activation) /\ Head(s) = s[1]
        /\ Len(s) \in Nat \ {0} /\ Len(Tail(s)) = Len(s) - 1
        /\ \A i \in 1..(Len(s) - 1) : Tail(s)[i] = s[i + 1]
    BY <2>2, HeadTailProperties, EmptySeq
  <2>4. <<Head(s)>> \in Seq(Activation) /\ Len(<<Head(s)>>) = 1 /\ <<Head(s)>>[1] = Head(s)
    BY <2>3
  <2>5. /\ <<Head(s)>> \o Tail(s) \in Seq(Activation)
        /\ Len(<<Head(s)>> \o Tail(s)) = 1 + (Len(s) - 1)
        /\ \A i \in 1..(1 + (Len(s) - 1)) : (<<Head(s)>> \o Tail(s))[i] =
              IF i <= 1 THEN <<Head(s)>>[i] ELSE Tail(s)[i - 1]
    BY <2>3, <2>4, ConcatProperties
  <2> DEFINE r == <<Head(s)>> \o Tail(s)
  <2>6. ASSUME NEW i \in 1..Len(s) PROVE r[i] = s[i]
    <3>1. CASE i = 1
      BY <2>3, <2>4, <2>5, <3>1
    <3>2. CASE i # 1
      <4>1. i - 1 \in 1..(Len(s) - 1) /\ ~(i <= 1) /\ (i - 1) + 1 = i /\ i \in 1..(1 + (Len(s) - 1))
        BY <2>3, <3>2
      <4>2. QED
        BY <2>3, <2>5, <4>1
    <3>3. QED
      BY <3>1, <3>2
  <2>7. r \in Seq(Activation) /\ Len(r) = Len(s)
    BY <2>3, <2>5
  <2> HIDE DEF r
  <2>8. r = s
    BY <2>2, <2>6, <2>7, SeqEqual
  <2>9. QED
    BY <2>2, <2>3, <2>8 DEF r
<1>2. QED
  BY <1>1

\* The table gives one name another Bang, or none.
Altered(new, tb, n, c) == new[n] = c /\ \A k \in Names : k # n => new[k] = tb[k]

LEMMA EntriesChange ==
  ASSUME NEW tb \in [Names -> Nat], NEW n \in Names, NEW c \in Nat, tb[n] # c, NEW b,
         NEW new, Altered(new, tb, n, c)
  PROVE  Cardinality(Entries(tb, b)) + Same(c, b) = Cardinality(Entries(new, b)) + Same(tb[n], b)
<1> DEFINE E == Entries(tb, b)
<1>1. IsFiniteSet(E) /\ Cardinality(E) \in Nat
  BY EntriesFinite
<1>2. \A k \in Names : new[k] = IF k = n THEN c ELSE tb[k]
  BY DEF Altered
<1>3. CASE c = b
  <2>1. n \notin E /\ Entries(new, b) = E \cup {n}
    BY <1>2, <1>3 DEF Entries
  <2>2. Cardinality(E \cup {n}) = Cardinality(E) + 1
    BY <1>1, <2>1, FS_AddElement
  <2> HIDE DEF E
  <2>3. Cardinality(E) + Same(c, b) = Cardinality(Entries(new, b)) + Same(tb[n], b)
    BY <1>1, <1>3, <2>1, <2>2 DEF Same
  <2>4. QED
    BY <2>3 DEF E
<1>4. CASE c # b /\ tb[n] = b
  <2>1. n \in E /\ Entries(new, b) = E \ {n}
    BY <1>2, <1>4 DEF Entries
  <2>2. Cardinality(E \ {n}) = Cardinality(E) - 1
    BY <1>1, <2>1, FS_RemoveElement
  <2> HIDE DEF E
  <2>3. Cardinality(E) + Same(c, b) = Cardinality(Entries(new, b)) + Same(tb[n], b)
    BY <1>1, <1>4, <2>1, <2>2 DEF Same
  <2>4. QED
    BY <2>3 DEF E
<1>5. CASE c # b /\ tb[n] # b
  <2>1. Entries(new, b) = E
    BY <1>2, <1>5 DEF Entries
  <2> HIDE DEF E
  <2>2. Cardinality(E) + Same(c, b) = Cardinality(Entries(new, b)) + Same(tb[n], b)
    BY <1>1, <1>5, <2>1 DEF Same
  <2>3. QED
    BY <2>2 DEF E
<1>6. QED
  BY <1>3, <1>4, <1>5

\* AddRef and Release, and what they leave alone.
LEMMA RefsOf ==
  ASSUME Typed, NEW b \in 1..Len(bang), NEW c \in 1..Len(bang)
  PROVE  /\ Held(b)[c].refs = bang[c].refs + Same(b, c) /\ Held(b)[c].name = bang[c].name
         /\ b # NoBang /\ Release(b)[c].refs = bang[c].refs - Same(b, c)
         /\ Release(b)[c].name = bang[c].name /\ bang[c].refs \in Int
         /\ DOMAIN Held(b) = 1..Len(bang) /\ DOMAIN Release(b) = 1..Len(bang)
<1>1. /\ bang[c] \in Known /\ bang[b] \in Known /\ DOMAIN bang = 1..Len(bang)
      /\ bang[c].refs \in Int /\ b # NoBang
  BY Ownership, LenProperties DEF Typed, Known, NoBang
<1>2. /\ Held(b)[c] = IF b = c THEN [bang[c] EXCEPT !.refs = bang[c].refs + 1] ELSE bang[c]
      /\ Release(b)[c] = IF b = c THEN [bang[c] EXCEPT !.refs = bang[c].refs - 1] ELSE bang[c]
      /\ DOMAIN Held(b) = 1..Len(bang) /\ DOMAIN Release(b) = 1..Len(bang)
  BY <1>1 DEF Held, Release
<1>3. QED
  BY <1>1, <1>2 DEF Known, Same

-----------------------------------------------------------------------------
(* Reference counts.                                                        *)

\* Each Bang is in the table under its own name only, and its count is that of its holders.
Named    == \A n \in Names : table[n] # NoBang => bang[table[n]].name = n
Counted  == \A b \in DOMAIN bang :
              bang[b].refs = Cardinality(Entries(table, b)) + Cardinality(Acts(stack, b))
CountInv == Named /\ Counted

LEMMA InTable ==
  ASSUME Inv
  PROVE  /\ DOMAIN bang = 1..Len(bang) /\ Len(bang) \in Nat
         /\ table \in [Names -> Nat] /\ stack \in [Threads -> Seq(Activation)]
         /\ \A n \in Names : table[n] # NoBang => table[n] \in 1..Len(bang)
BY LenProperties DEF Inv, Typed, TableGood, Entered

LEMMA SameCounts ==
  ASSUME Inv, CountInv, UNCHANGED <<bang, table>>, \A b : Acts(stack', b) = Acts(stack, b)
  PROVE  CountInv'
BY DEF CountInv, Named, Counted

LEMMA PushCounts ==
  ASSUME Inv, CountInv, NEW t \in Threads, NEW f \in Activation, f.id \in 1..Len(bang),
         Push(t, f), bang' = Held(f.id), table' = table
  PROVE  CountInv'
<1>1. stack' \in [Threads -> Seq(Activation)] /\ Onto(stack', stack, t, f)
  <2>1. stack' = [stack EXCEPT ![t] = <<f>> \o stack[t]] /\ <<f>> \in Seq(Activation)
    BY DEF Push
  <2>2. <<f>> \o stack[t] \in Seq(Activation)
    BY <2>1, InTable, ConcatProperties
  <2>3. QED
    BY <2>1, <2>2, InTable DEF Onto
<1>2. DOMAIN bang' = 1..Len(bang) /\ \A b \in 1..Len(bang) :
        bang'[b].refs = bang[b].refs + Same(f.id, b) /\ bang'[b].name = bang[b].name
  BY RefsOf DEF Inv
<1>3. Named'
  BY <1>2, InTable DEF CountInv, Named
<1>4. ASSUME NEW b \in DOMAIN bang'
      PROVE  bang'[b].refs = Cardinality(Entries(table, b)) + Cardinality(Acts(stack', b))
  <2>1. Cardinality(Acts(stack', b)) = Cardinality(Acts(stack, b)) + Same(f.id, b)
    BY <1>1, ActsPush, InTable
  <2>2. bang[b].refs = Cardinality(Entries(table, b)) + Cardinality(Acts(stack, b))
    BY <1>2, <1>4, InTable DEF CountInv, Counted
  <2>3. Cardinality(Entries(table, b)) \in Nat /\ Cardinality(Acts(stack, b)) \in Nat
    BY EntriesFinite, ActsFinite, InTable
  <2>4. Same(f.id, b) \in Nat
    BY DEF Same
  <2>5. QED
    BY <1>2, <1>4, <2>1, <2>2, <2>3, <2>4
<1>5. QED
  BY <1>3, <1>4 DEF CountInv, Counted

LEMMA PopCounts ==
  ASSUME Inv, CountInv, NEW t \in Threads, stack[t] # <<>>, Pop(t), bang' = Release(Top(t).id),
         table' = table
  PROVE  CountInv'
<1>1. PICK f \in 1..Len(bang) : f = Top(t).id
  BY TopGood
<1>2. DOMAIN bang' = 1..Len(bang) /\ \A b \in 1..Len(bang) :
        /\ bang'[b].refs = bang[b].refs - Same(f, b) /\ bang'[b].name = bang[b].name
        /\ bang[b].refs \in Int
  BY <1>1, RefsOf DEF Inv
<1>3. Named'
  BY <1>2, InTable DEF CountInv, Named
<1>4. ASSUME NEW b \in DOMAIN bang'
      PROVE  bang'[b].refs = Cardinality(Entries(table, b)) + Cardinality(Acts(stack', b))
  <2>1. /\ stack' \in [Threads -> Seq(Activation)]
        /\ Cardinality(Acts(stack, b)) = Cardinality(Acts(stack', b)) + Same(f, b)
    <3>1. PICK h \in Activation : h = Head(stack[t])
      BY ActsPop, InTable
    <3>2. stack' \in [Threads -> Seq(Activation)] /\ Onto(stack, stack', t, h)
      <4>1. Tail(stack[t]) \in Seq(Activation) /\ stack[t] = <<h>> \o Tail(stack[t])
        BY <3>1, ActsPop, InTable
      <4>2. stack' = [stack EXCEPT ![t] = Tail(stack[t])]
        BY DEF Pop
      <4>3. QED
        BY <4>1, <4>2, InTable DEF Onto
    <3>3. Cardinality(Acts(stack, b)) = Cardinality(Acts(stack', b)) + Same(h.id, b)
      BY <3>2, ActsPush, InTable
    <3>4. QED
      BY <1>1, <3>1, <3>2, <3>3 DEF Top
  <2>2. bang[b].refs = Cardinality(Entries(table, b)) + Cardinality(Acts(stack, b))
    BY <1>2, <1>4, InTable DEF CountInv, Counted
  <2>3. Cardinality(Entries(table, b)) \in Nat /\ Cardinality(Acts(stack', b)) \in Nat
    BY <2>1, EntriesFinite, ActsFinite
  <2>4. Same(f, b) \in Nat
    BY DEF Same
  <2>5. QED
    BY <1>2, <1>4, <2>1, <2>2, <2>3, <2>4
<1>5. QED
  BY <1>3, <1>4 DEF CountInv, Counted

LEMMA RemoveCounts ==
  ASSUME Inv, CountInv, NEW n \in Names, bang' = Release(table[n]),
         table' = [table EXCEPT ![n] = NoBang], stack' = stack
  PROVE  CountInv'
<1>1. CASE table[n] = NoBang
  <2>1. table' = table /\ bang' = bang
    BY <1>1, InTable DEF Release
  <2>2. QED
    BY <2>1, SameCounts
<1>2. CASE table[n] # NoBang
  <2>1. PICK f \in 1..Len(bang) : f = table[n]
    BY <1>2, InTable
  <2>2. DOMAIN bang' = 1..Len(bang) /\ \A b \in 1..Len(bang) :
          /\ bang'[b].refs = bang[b].refs - Same(f, b) /\ bang'[b].name = bang[b].name
          /\ bang[b].refs \in Int
    BY <2>1, RefsOf DEF Inv
  <2>3. Named'
    BY <2>2, InTable DEF CountInv, Named
  <2>4. ASSUME NEW b \in DOMAIN bang'
        PROVE  bang'[b].refs = Cardinality(Entries(table', b)) + Cardinality(Acts(stack, b))
    <3>1. Cardinality(Entries(table, b)) + Same(NoBang, b)
            = Cardinality(Entries(table', b)) + Same(f, b)
      <4>1. NoBang \in Nat /\ Altered(table', table, n, NoBang)
        BY InTable DEF NoBang, Altered
      <4>2. QED
        BY <1>2, <2>1, <4>1, EntriesChange, InTable
    <3>2. bang[b].refs = Cardinality(Entries(table, b)) + Cardinality(Acts(stack, b))
      BY <2>2, <2>4, InTable DEF CountInv, Counted
    <3>3. /\ Cardinality(Entries(table, b)) \in Nat /\ Cardinality(Entries(table', b)) \in Nat
          /\ Cardinality(Acts(stack, b)) \in Nat
      BY EntriesFinite, ActsFinite, InTable
    <3>4. Same(f, b) \in Nat /\ Same(NoBang, b) = 0
      BY <2>2, <2>4, InTable DEF Same, NoBang
    <3>5. QED
      <4>1. bang[b].refs \in Int /\ bang'[b].refs = bang[b].refs - Same(f, b)
        BY <2>2, <2>4
      <4>2. Cardinality(Entries(table, b)) = Cardinality(Entries(table', b)) + Same(f, b)
        BY <3>1, <3>3, <3>4
      <4>3. QED
        BY <3>2, <3>3, <3>4, <4>1, <4>2
  <2>5. QED
    BY <2>3, <2>4 DEF CountInv, Counted
<1>3. QED
  BY <1>1, <1>2

LEMMA InsertCounts ==
  ASSUME Inv, CountInv, NEW n \in Names, NEW by \in Owners, Insert(n, by), stack' = stack
  PROVE  CountInv'
<1> DEFINE c == Len(bang) + 1
           r == [name |-> n, by |-> by, refs |-> 1]
           rest == Release(table[n])
<1>1. /\ bang' = Append(rest, r) /\ table' = [table EXCEPT ![n] = c]
      /\ r \in Known /\ r.refs = 1 /\ r.name = n
  BY DEF Insert, Known
<1>2. /\ rest \in Seq(Known) /\ Len(rest) = Len(bang) /\ Len(bang) \in Nat
      /\ \A b \in 1..Len(bang) :
           /\ rest[b].refs = bang[b].refs - Same(table[n], b) /\ rest[b].name = bang[b].name
           /\ bang[b].refs \in Int
  <2>1. CASE table[n] = NoBang
    <3>1. rest = bang /\ bang \in Seq(Known) /\ Len(bang) \in Nat
      BY <2>1, InTable DEF Release, Inv, Typed
    <3>2. ASSUME NEW b \in 1..Len(bang) PROVE Same(table[n], b) = 0 /\ bang[b].refs \in Int
      BY <2>1, <3>2, Ownership DEF Same, NoBang, Inv, Known
    <3>3. QED
      BY <3>1, <3>2
  <2>2. CASE table[n] # NoBang
    <3>1. table[n] \in 1..Len(bang)
      BY <2>2, InTable
    <3>2. QED
      BY <3>1, RefsOf, HeldGrows, InTable DEF Inv
  <2>3. QED
    BY <2>1, <2>2
<1> HIDE DEF rest, r
<1>3. /\ DOMAIN bang' = 1..c /\ bang'[c] = r /\ \A b \in 1..Len(bang) : bang'[b] = rest[b]
      /\ c \in Nat
  <2>1. /\ Append(rest, r) \in Seq(Known) /\ Len(Append(rest, r)) = Len(rest) + 1
        /\ \A b \in 1..Len(rest) : Append(rest, r)[b] = rest[b]
        /\ Append(rest, r)[Len(rest) + 1] = r
    BY <1>1, <1>2, AppendProperties
  <2>2. DOMAIN Append(rest, r) = 1..(Len(rest) + 1)
    BY <2>1, LenProperties
  <2>3. QED
    BY <1>1, <1>2, <2>1, <2>2
<1>4. /\ table[n] # c /\ c \in Nat /\ Altered(table', table, n, c)
      /\ \A k \in Names : table[k] # c /\ (table[k] # NoBang => table[k] \in 1..Len(bang))
  BY <1>1, <1>2, InTable DEF Altered, NoBang
<1> HIDE DEF c
<1>5. Named'
  <2>1. ASSUME NEW k \in Names, table'[k] # NoBang PROVE bang'[table'[k]].name = k
    <3>1. CASE k = n
      BY <1>1, <1>3, <1>4, <3>1 DEF Altered
    <3>2. CASE k # n
      BY <1>2, <1>3, <1>4, <2>1, <3>2 DEF Altered, CountInv, Named
    <3>3. QED
      BY <3>1, <3>2
  <2>2. QED
    BY <2>1 DEF Named
<1>6. ASSUME NEW b \in DOMAIN bang'
      PROVE  bang'[b].refs = Cardinality(Entries(table', b)) + Cardinality(Acts(stack, b))
  <2>1. Cardinality(Entries(table, b)) + Same(c, b)
          = Cardinality(Entries(table', b)) + Same(table[n], b)
    BY <1>4, EntriesChange, InTable
  <2>2. /\ Cardinality(Entries(table, b)) \in Nat /\ Cardinality(Entries(table', b)) \in Nat
        /\ Cardinality(Acts(stack, b)) \in Nat
    BY EntriesFinite, ActsFinite, InTable
  <2>3. CASE b \in 1..Len(bang)
    <3>1. bang[b].refs = Cardinality(Entries(table, b)) + Cardinality(Acts(stack, b))
      BY <2>3, InTable DEF CountInv, Counted
    <3>2. Same(table[n], b) \in Nat /\ Same(c, b) = 0
      BY <1>2, <2>3 DEF Same, c
    <3>3. bang'[b].refs = bang[b].refs - Same(table[n], b) /\ bang[b].refs \in Int
      BY <1>2, <1>3, <2>3
    <3>4. QED
      BY <2>1, <2>2, <3>1, <3>2, <3>3
  <2>4. CASE b = c
    <3>1. Entries(table, b) = {}
      BY <1>4, <2>4 DEF Entries
    <3>2. Acts(stack, b) = {}
      <4> SUFFICES ASSUME NEW x \in Acts(stack, b) PROVE FALSE
        OBVIOUS
      <4>1. PICK t \in Threads, i \in Nat :
              i \in DOMAIN stack[t] /\ x = <<t, i>> /\ stack[t][i].id = b
        BY InActs, InTable
      <4>2. i \in 1..Len(stack[t])
        BY <4>1, LenProperties, InTable
      <4>3. stack[t][i].id \in 1..Len(bang)
        BY <4>2 DEF Inv, FramesGood, Good
      <4>4. QED
        BY <1>2, <2>4, <4>1, <4>3 DEF c
    <3>3. Same(c, b) = 1 /\ Same(table[n], b) = 0
      BY <1>4, <2>4 DEF Same
    <3>4. Cardinality(Entries(table, b)) = 0 /\ Cardinality(Acts(stack, b)) = 0
      BY <3>1, <3>2, FS_EmptySet
    <3>5. QED
      BY <1>1, <1>3, <2>1, <2>2, <2>4, <3>3, <3>4
  <2>5. QED
    BY <1>2, <1>3, <1>6, <2>3, <2>4 DEF c
<1>7. QED
  BY <1>5, <1>6 DEF CountInv, Counted

LEMMA ClearCounts ==
  ASSUME Inv, CountInv, ClearBangCommands
  PROVE  CountInv'
<1> DEFINE used == {table[n] : n \in Names}
<1>1. /\ bang' = [b \in DOMAIN bang |->
                    [bang[b] EXCEPT !.refs = IF b \in used THEN @ - 1 ELSE @]]
      /\ table' = [n \in Names |-> NoBang] /\ stack' = stack
  BY DEF ClearBangCommands
<1>2. Named'
  BY <1>1 DEF Named
<1>3. ASSUME NEW b \in DOMAIN bang'
      PROVE  bang'[b].refs = Cardinality(Entries(table', b)) + Cardinality(Acts(stack, b))
  <2>1. /\ b \in 1..Len(bang) /\ bang[b] \in Known /\ bang[b].refs \in Int /\ b # NoBang
        /\ bang'[b].refs = IF b \in used THEN bang[b].refs - 1 ELSE bang[b].refs
    BY <1>1, <1>3, InTable, Ownership DEF Known, NoBang, Inv
  <2>2. bang[b].refs = Cardinality(Entries(table, b)) + Cardinality(Acts(stack, b))
    BY <2>1, InTable DEF CountInv, Counted
  <2>3. Cardinality(Entries(table', b)) = 0
    <3>1. Entries(table', b) = {}
      BY <1>1, <2>1 DEF Entries
    <3>2. QED
      BY <3>1, FS_EmptySet
  <2>4. Cardinality(Entries(table, b)) = IF b \in used THEN 1 ELSE 0
    <3>1. CASE b \in used
      <4>1. PICK n \in Names : table[n] = b
        BY <3>1
      <4>2. Entries(table, b) = {n}
        BY <2>1, <4>1 DEF Entries, CountInv, Named
      <4>3. QED
        BY <3>1, <4>2, FS_Singleton
    <3>2. CASE b \notin used
      <4>1. Entries(table, b) = {}
        BY <3>2 DEF Entries
      <4>2. QED
        BY <3>2, <4>1, FS_EmptySet
    <3>3. QED
      BY <3>1, <3>2
  <2>5. Cardinality(Acts(stack, b)) \in Nat
    BY ActsFinite, InTable
  <2> HIDE DEF used
  <2>6. QED
    BY <2>1, <2>2, <2>3, <2>4, <2>5
<1>4. QED
  BY <1>1, <1>2, <1>3 DEF CountInv, Counted

\* ExecuteBangCommand on what it found.
LEMMA FoundCounts ==
  ASSUME Inv, CountInv, NEW t \in Threads, NEW n \in Names, NEW c \in Nat, table[n] # NoBang,
         Push(t, Found(table[n], c)), bang' = Held(table[n]),
         table' = table
  PROVE  CountInv'
<1> DEFINE f == Found(table[n], c)
<1>1. f \in Activation /\ f.id = table[n] /\ table[n] \in 1..Len(bang) /\ Push(t, f)
  BY InTable DEF Found, Activation
<1> HIDE DEF f
<1>2. QED
  BY <1>1, PushCounts

\* The frames stay, and what they hold.
LEMMA SameActs ==
  ASSUME Inv,
         \A u \in Threads : /\ DOMAIN stack'[u] = DOMAIN stack[u]
                            /\ \A i \in DOMAIN stack[u] : stack'[u][i].id = stack[u][i].id
  PROVE  \A b : Acts(stack', b) = Acts(stack, b)
<1>1. Places(stack') = Places(stack)
  BY DEF Places
<1>2. ASSUME NEW x \in Places(stack) PROVE stack'[x[1]][x[2]].id = stack[x[1]][x[2]].id
  <2>1. PICK u \in Threads, i \in Nat : i \in DOMAIN stack[u] /\ x = <<u, i>>
    BY InPlaces, InTable
  <2>2. QED
    BY <2>1
<1>3. QED
  BY <1>1, <1>2 DEF Acts

LEMMA UnloadCounts ==
  ASSUME Inv, CountInv, UnloadBegins
  PROVE  CountInv'
<1>1. /\ UNCHANGED <<bang, table>>
      /\ stack' = [stack EXCEPT ![UI] =
                     [i \in DOMAIN stack[UI] |-> [stack[UI][i] EXCEPT !.under = TRUE]]]
  BY DEF UnloadBegins
<1>2. \A i \in DOMAIN stack[UI] : stack[UI][i] \in Activation
  BY ElementOfSeq, LenProperties, InTable, Homes
<1>3. ASSUME NEW u \in Threads
      PROVE  /\ DOMAIN stack'[u] = DOMAIN stack[u]
             /\ \A i \in DOMAIN stack[u] : stack'[u][i].id = stack[u][i].id
  <2>1. CASE u # UI
    BY <1>1, <2>1, InTable
  <2>2. CASE u = UI
    <3>1. stack'[UI] = [i \in DOMAIN stack[UI] |-> [stack[UI][i] EXCEPT !.under = TRUE]]
      BY <1>1, InTable, Homes
    <3>2. QED
      BY <1>2, <2>2, <3>1 DEF Activation
  <2>3. QED
    BY <2>1, <2>2
<1>4. \A b : Acts(stack', b) = Acts(stack, b)
  BY <1>3, SameActs
<1>5. QED
  BY <1>1, <1>4, SameCounts

LEMMA ExecuteCounts ==
  ASSUME Inv, CountInv, NEW t \in Threads, Execute(t)
  PROVE  CountInv'
<1>1. stack[t] # <<>> /\ table' = table
  BY DEF Execute
<1>2. CASE Pop(t) /\ bang' = Release(Top(t).id)
  BY <1>1, <1>2, PopCounts
<1>3. CASE stack' = [stack EXCEPT ![t][1].at = "calling"] /\ bang' = bang
  <2>1. stack[t] \in Seq(Activation) /\ DOMAIN stack[t] = 1..Len(stack[t]) /\ 1 \in DOMAIN stack[t]
    BY <1>1, TopGood, LenProperties, InTable
  <2>2. ASSUME NEW u \in Threads
        PROVE  /\ DOMAIN stack'[u] = DOMAIN stack[u]
               /\ \A i \in DOMAIN stack[u] : stack'[u][i].id = stack[u][i].id
    <3>1. CASE u # t
      BY <1>3, <3>1, InTable
    <3>2. CASE u = t
      <4>1. stack'[t] = [stack[t] EXCEPT ![1].at = "calling"]
        BY <1>3, InTable
      <4>2. \A i \in DOMAIN stack[t] : stack[t][i] \in Activation
        BY <2>1, ElementOfSeq
      <4>3. QED
        BY <2>1, <3>2, <4>1, <4>2 DEF Activation
    <3>3. QED
      BY <3>1, <3>2
  <2>3. \A b : Acts(stack', b) = Acts(stack, b)
    BY <2>2, SameActs
  <2>4. QED
    BY <1>1, <1>3, <2>3, SameCounts
<1>4. QED
  BY <1>2, <1>3 DEF Execute

LEMMA DispatchCounts ==
  ASSUME Inv, CountInv, NEW t \in Threads, Dispatch(t)
  PROVE  CountInv'
<1> DEFINE c == Head(queue[t])
<1>1. Lookup(t, c, call[c].name) /\ table' = table /\ queue[t] # <<>> /\ c # 0
  BY DEF Dispatch, Destroy
<1>2. c \in 1..Len(call) /\ c \in Nat /\ call[c].name \in Names
  <2>1. /\ queue[t] \in Seq(Nat) /\ Len(call) \in Nat
        /\ \A i \in 1..Len(queue[t]) : queue[t][i] \in 0..Len(call)
    BY LenProperties DEF Inv, Typed, QueueGood
  <2>2. 1 \in 1..Len(queue[t]) /\ c = queue[t][1]
    BY <1>1, <2>1, EmptySeq, LenProperties
  <2>3. c \in 1..Len(call)
    BY <1>1, <2>1, <2>2
  <2>4. call[c] \in Command
    BY <2>3, ElementOfSeq DEF Inv, Typed
  <2>5. QED
    BY <2>3, <2>4 DEF Command
<1> HIDE DEF c
<1>3. CASE table[call[c].name] = NoBang
  BY <1>1, <1>3, SameCounts DEF Lookup
<1>4. CASE table[call[c].name] # NoBang
  BY <1>1, <1>2, <1>4, FoundCounts DEF Lookup
<1>5. QED
  BY <1>3, <1>4

LEMMA ParseCounts ==
  ASSUME Inv, CountInv, NEW t \in Threads, NEW n \in Names, ParseBangCommand(t, n)
  PROVE  CountInv'
<1>1. CASE table[n] = NoBang
  BY <1>1, SameCounts DEF ParseBangCommand
<1>2. CASE table[n] # NoBang
  <2>1. /\ Push(t, Found(table[n], Len(call) + 1))
        /\ bang' = Held(table[n]) /\ table' = table
    BY <1>2 DEF ParseBangCommand
  <2>2. Len(call) + 1 \in Nat
    BY Lengths DEF Inv
  <2>3. QED
    BY <1>2, <2>1, <2>2, FoundCounts
<1>3. QED
  BY <1>1, <1>2

LEMMA CountsPreserved == ASSUME Inv, CountInv, [Next]_vars PROVE CountInv'
<1>1. ASSUME NEW m \in Modules, NEW n \in Names, AddBangCommand(m, n)
      PROVE  CountInv'
  BY <1>1, InsertCounts DEF AddBangCommand, Owners
<1>2. ASSUME NEW m \in Modules, NEW n \in Names, RemoveBangCommand(m, n)
      PROVE  CountInv'
  BY <1>2, RemoveCounts DEF RemoveBangCommand
<1>3. ASSUME NEW t \in Threads, NEW n \in Names, ParseBangCommand(t, n)
      PROVE  CountInv'
  BY <1>3, ParseCounts
<1>4. ASSUME NEW t \in Threads, Proceeds(t)
      PROVE  CountInv'
  <2>1. CASE Return(t)
    BY <2>1, PopCounts DEF Return, Calling
  <2>2. QED
    BY <1>4, <2>1, ExecuteCounts, DispatchCounts DEF Proceeds
<1>5. CASE ClearBangCommands
  BY <1>5, ClearCounts
<1>6. ASSUME NEW n \in Core, SetupBangs(n)
      PROVE  CountInv'
  BY <1>6, InsertCounts, BangsAssumption DEF SetupBangs, Owners
<1>7. CASE \/ \E m \in Modules : Quits(m)
           \/ (\E t \in Threads : DropInModal(t)) \/ LoadModules \/ UNCHANGED vars
  <2>1. UNCHANGED <<bang, table, stack>>
    BY <1>7 DEF Quits, InitReturns, ThreadQuits, QuitReturns, ThreadEnds, DropInModal,
                LoadModules, vars
  <2>2. QED
    BY <2>1, SameCounts
<1>8. CASE UnloadBegins
  BY <1>8, UnloadCounts
<1>9. QED
  BY <1>1, <1>2, <1>3, <1>4, <1>5, <1>6, <1>7, <1>8 DEF Next, Recycles

LEMMA StartCounts == ASSUME Init PROVE CountInv
<1>1. Named
  BY DEF Init, Named
<1>2. DOMAIN bang = {}
  BY DEF Init
<1>3. QED
  BY <1>1, <1>2 DEF CountInv, Counted

\* A Bang's reference count is the number of its holders, the table and the threads that are
\* in ExecuteBangCommand with it, whatever is registered again, removed or cleared meanwhile:
\* no callback runs in a deleted Bang, and none is left when all are gone
\* (BangManager.cpp:39-127).
THEOREM CountedByHolders == Spec => []HeldExactly
<1>1. Init => Inv /\ CountInv
  BY Start, StartCounts
<1>2. Inv /\ CountInv /\ [Next]_vars => Inv' /\ CountInv'
  BY StepPreserves, CountsPreserved
<1>3. Inv /\ CountInv => HeldExactly
  <2>1. Activations = Places(stack)
    BY DEF Activations, Places
  <2>2. QED
    BY <2>1 DEF HeldExactly, Holders, CountInv, Counted, Entries, Acts
<1>4. QED
  BY <1>1, <1>2, <1>3, PTL DEF Spec

-----------------------------------------------------------------------------
(* How many Bangs are made.                                                 *)

Foreign(bg) == {b \in DOMAIN bg : bg[b].by # Shell}
Own(bg)     == {b \in DOMAIN bg : bg[b].by = Shell}
Missing(tb) == {n \in Core : tb[n] = NoBang}
\* The bangs that SetupBangs has yet to register.
Awaited     == IF phase = "setup" THEN Cardinality(Missing(table)) ELSE 0

\* A module works only in its generation, and not while the table is set up.
AtRest(m) == life[m] = "out" \/ life[m] = (IF m \in Threaded THEN "ended" ELSE "quit")
RestInv   == \A m \in Modules : AtRest(m) \/ (phase # "setup" /\ m \in Loads[gen])

\* In each generation LiteStep registers its own names once.
MadeInv ==
  /\ Cardinality(Foreign(bang)) <= MaxAdds
  /\ Cardinality(Own(bang)) + Awaited <= gen * Cardinality(Core)
PhaseInv ==
  /\ phase \in {"setup", "run", "unload"} /\ gen \in 1..Len(Loads) /\ Len(call) <= MaxCalls
  /\ phase = "unload" => gen < Len(Loads)
BoundInv == RestInv /\ MadeInv /\ PhaseInv

LEMMA Generations ==
  /\ Len(Loads) \in Nat \ {0} /\ \A g \in 1..Len(Loads) : Loads[g] \subseteq Modules
  /\ IsFiniteSet(Core) /\ Cardinality(Core) \in Nat
<1>1. Len(Loads) \in Nat \ {0}
  BY BangsAssumption, EmptySeq, LenProperties
<1>2. ASSUME NEW g \in 1..Len(Loads) PROVE Loads[g] \subseteq Modules
  <2>1. Loads[g] \in SUBSET Modules
    BY BangsAssumption, ElementOfSeq
  <2> QED
    BY <2>1
<1>3. IsFiniteSet(Core) /\ Cardinality(Core) \in Nat
  BY BangsAssumption, FS_Subset, FS_CardinalityType
<1> QED
  BY <1>1, <1>2, <1>3

LEMMA MissingFinite ==
  ASSUME NEW tb
  PROVE  /\ IsFiniteSet(Missing(tb)) /\ Cardinality(Missing(tb)) \in Nat
         /\ Cardinality(Missing(tb)) <= Cardinality(Core)
<1>1. Missing(tb) \in SUBSET Core
  BY DEF Missing
<1> QED
  BY <1>1, Generations, FS_Subset, FS_CardinalityType

LEMMA MadeFinite ==
  ASSUME NEW bg \in Seq(Known)
  PROVE  /\ IsFiniteSet(Foreign(bg)) /\ IsFiniteSet(Own(bg))
         /\ Cardinality(Foreign(bg)) \in Nat /\ Cardinality(Own(bg)) \in Nat
         /\ Len(bg) = Cardinality(Foreign(bg)) + Cardinality(Own(bg))
<1>1. DOMAIN bg = 1..Len(bg) /\ Len(bg) \in Nat
  BY LenProperties
<1>2. IsFiniteSet(1..Len(bg)) /\ Cardinality(1..Len(bg)) = Len(bg)
  BY <1>1, FS_Interval
<1>3. Foreign(bg) \in SUBSET (1..Len(bg)) /\ Own(bg) \in SUBSET (1..Len(bg))
  BY <1>1 DEF Foreign, Own
<1>4. /\ IsFiniteSet(Foreign(bg)) /\ IsFiniteSet(Own(bg))
      /\ Cardinality(Foreign(bg)) \in Nat /\ Cardinality(Own(bg)) \in Nat
  BY <1>2, <1>3, FS_Subset, FS_CardinalityType
<1>5. Foreign(bg) \cup Own(bg) = 1..Len(bg) /\ Foreign(bg) \cap Own(bg) = {}
  BY <1>1 DEF Foreign, Own
<1>6. Cardinality(Foreign(bg) \cup Own(bg))
        = Cardinality(Foreign(bg)) + Cardinality(Own(bg)) - Cardinality({})
  BY <1>4, <1>5, FS_Union
<1>7. Cardinality({}) = 0
  BY FS_EmptySet
<1>8. Cardinality(Foreign(bg) \cup Own(bg)) = Len(bg)
  BY <1>2, <1>5
<1> QED
  BY <1>4, <1>6, <1>7, <1>8

\* No Bang is made, and no name that is to be registered is.
LEMMA NoneMade ==
  ASSUME Inv, BoundInv, bang' \in Seq(Known), Len(bang') = Len(bang),
         \A b \in 1..Len(bang) : bang'[b].by = bang[b].by,
         gen' = gen, phase = "setup" => table' = table, phase' = "setup" => phase = "setup"
  PROVE  MadeInv'
<1>1. DOMAIN bang = 1..Len(bang) /\ DOMAIN bang' = 1..Len(bang)
  BY LenProperties DEF Inv, Typed
<1>2. Foreign(bang') = Foreign(bang) /\ Own(bang') = Own(bang)
  BY <1>1 DEF Foreign, Own
<1>3. Awaited \in Nat /\ Awaited' \in Nat /\ Awaited' <= Awaited
  BY MissingFinite DEF Awaited
<1>4. Cardinality(Own(bang)) \in Nat /\ gen * Cardinality(Core) \in Nat
  BY MadeFinite, Generations DEF Inv, Typed, BoundInv, PhaseInv
<1>5. Cardinality(Own(bang)) + Awaited <= gen * Cardinality(Core)
  BY DEF BoundInv, MadeInv
<1>6. Cardinality(Own(bang)) + Awaited' <= gen * Cardinality(Core)
  BY <1>3, <1>4, <1>5
<1>7. Cardinality(Foreign(bang)) <= MaxAdds
  BY DEF BoundInv, MadeInv
<1> QED
  BY <1>2, <1>6, <1>7 DEF MadeInv

\* A Bang is made.
LEMMA OneMade ==
  ASSUME Inv, NEW n \in Names, NEW by \in Owners, Insert(n, by)
  PROVE  /\ by # Shell => /\ Cardinality(Foreign(bang')) = Cardinality(Foreign(bang)) + 1
                          /\ Own(bang') = Own(bang)
         /\ by = Shell => /\ Cardinality(Own(bang')) = Cardinality(Own(bang)) + 1
                          /\ Foreign(bang') = Foreign(bang)
         /\ table' = [table EXCEPT ![n] = Len(bang) + 1] /\ Len(bang) \in Nat
<1> DEFINE old == Release(table[n])
           new == [name |-> n, by |-> by, refs |-> 1]
           k   == Len(bang) + 1
<1>1. /\ old \in Seq(Known) /\ Len(old) = Len(bang) /\ Len(bang) \in Nat
      /\ \A c \in 1..Len(bang) : old[c].by = bang[c].by
  BY ReleaseGrows, Lengths DEF Inv
<1>2. new \in Known /\ bang' = Append(old, new) /\ table' = [table EXCEPT ![n] = Len(bang) + 1]
  BY DEF Known, Insert
<1>3. new.by = by
  OBVIOUS
<1> HIDE DEF old, new
<1>4. /\ bang' \in Seq(Known) /\ Len(bang') = k /\ bang'[k] = new
      /\ \A c \in 1..Len(bang) : bang'[c] = old[c]
  BY <1>1, <1>2, AppendProperties
<1>5. DOMAIN bang = 1..Len(bang) /\ DOMAIN bang' = 1..k
  BY <1>4, LenProperties DEF Inv, Typed
<1>6. \A c \in 1..k : c = k \/ (c \in 1..Len(bang) /\ bang'[c].by = bang[c].by)
  BY <1>1, <1>4
<1>7. bang'[k].by = by /\ k \in 1..k /\ \A c \in 1..Len(bang) : c # k /\ c \in 1..k
  BY <1>1, <1>3, <1>4
<1> HIDE DEF k
<1>8. ASSUME by # Shell PROVE Foreign(bang') = Foreign(bang) \cup {k} /\ Own(bang') = Own(bang)
  BY <1>5, <1>6, <1>7, <1>8 DEF Foreign, Own
<1>9. ASSUME by = Shell PROVE Own(bang') = Own(bang) \cup {k} /\ Foreign(bang') = Foreign(bang)
  BY <1>5, <1>6, <1>7, <1>9 DEF Foreign, Own
<1>10. k \notin Foreign(bang) /\ k \notin Own(bang)
  BY <1>5, <1>7 DEF Foreign, Own
<1>11. IsFiniteSet(Foreign(bang)) /\ IsFiniteSet(Own(bang))
  BY MadeFinite DEF Inv, Typed
<1>12. /\ Cardinality(Foreign(bang) \cup {k}) = Cardinality(Foreign(bang)) + 1
       /\ Cardinality(Own(bang) \cup {k}) = Cardinality(Own(bang)) + 1
  BY <1>10, <1>11, FS_AddElement
<1> QED
  BY <1>1, <1>2, <1>8, <1>9, <1>12

\* What leaves the numbers of Bangs as they are.
Numbers == Cardinality(Foreign(bang)) \in Nat /\ Cardinality(Own(bang)) \in Nat
LEMMA NumbersAre == ASSUME Inv PROVE Numbers
BY MadeFinite DEF Inv, Typed, Numbers

LEMMA AddBounds ==
  ASSUME Inv, BoundInv, NEW m \in Modules, NEW n \in Names, AddBangCommand(m, n)
  PROVE  BoundInv'
<1>1. /\ Insert(n, m) /\ m \in Owners /\ m # Shell /\ life[m] \in {"init", "on"}
      /\ UNCHANGED <<life, call, phase, gen>>
      /\ Cardinality({i \in DOMAIN bang : bang[i].by # Shell}) < MaxAdds
  BY BangsAssumption DEF AddBangCommand, Active, Owners
<1>2. phase # "setup"
  BY <1>1 DEF BoundInv, RestInv, AtRest
<1>3. /\ Cardinality(Foreign(bang')) = Cardinality(Foreign(bang)) + 1
      /\ Own(bang') = Own(bang)
  BY <1>1, OneMade
<1>4. Cardinality(Foreign(bang)) < MaxAdds /\ MaxAdds \in Nat
  BY <1>1, BangsAssumption DEF Foreign
<1>5. Cardinality(Foreign(bang')) <= MaxAdds
  BY <1>3, <1>4, NumbersAre DEF Numbers
<1>6. Awaited = 0 /\ Awaited' = 0
  BY <1>1, <1>2 DEF Awaited
<1>7. MadeInv'
  BY <1>1, <1>3, <1>5, <1>6 DEF BoundInv, MadeInv
<1> QED
  BY <1>1, <1>7 DEF BoundInv, RestInv, AtRest, PhaseInv

LEMMA RemoveBounds ==
  ASSUME Inv, BoundInv, NEW m \in Modules, NEW n \in Names, RemoveBangCommand(m, n)
  PROVE  BoundInv'
<1>1. /\ bang' = Release(table[n]) /\ life[m] \in Working
      /\ UNCHANGED <<life, call, phase, gen>>
  BY DEF RemoveBangCommand, Active, Working
<1>2. phase # "setup"
  BY <1>1 DEF BoundInv, RestInv, AtRest, Working
<1>3. MadeInv'
  BY <1>1, <1>2, ReleaseGrows, NoneMade
<1> QED
  BY <1>1, <1>3 DEF BoundInv, RestInv, AtRest, PhaseInv

\* A Bang is held or released, and the rest of the table is left alone.
LEMMA HeldBounds ==
  ASSUME Inv, BoundInv, NEW b \in 1..Len(bang), bang' \in {bang, Held(b), Release(b)},
         UNCHANGED <<table, life, phase, gen>>, Len(call') <= MaxCalls
  PROVE  BoundInv'
<1>1. Inv => Typed
  BY DEF Inv
<1>2. CASE bang' = bang
  BY <1>2, NoneMade DEF Inv, Typed, BoundInv, RestInv, AtRest, PhaseInv
<1>3. CASE bang' # bang
  <2>1. bang' \in {Held(b), Release(b)}
    BY <1>3
  <2>2. MadeInv'
    BY <1>1, <2>1, HeldGrows, NoneMade
  <2> QED
    BY <2>2 DEF BoundInv, RestInv, AtRest, PhaseInv
<1> QED
  BY <1>2, <1>3

LEMMA SettledCalls ==
  ASSUME Inv, NEW c, NEW f, Settle(c, f)
  PROVE  Len(call') = Len(call)
BY LenProperties DEF Settle, Inv, Typed

\* No Bang is touched, and no module leaves its generation.
LEMMA LeftBounds ==
  ASSUME Inv, BoundInv, UNCHANGED <<bang, table, gen>>, phase' \in {"run", "unload"},
         phase = "setup" => phase' = "run",
         phase' = "unload" => phase = "unload" \/ gen < Len(Loads),
         \A m \in Modules : life'[m] = life[m] \/ m \in Loads[gen] \/ AtRest(m)',
         Len(call') <= MaxCalls
  PROVE  BoundInv'
<1>1. MadeInv'
  BY NoneMade DEF Inv, Typed
<1>2. RestInv'
  BY DEF BoundInv, RestInv, AtRest
<1> QED
  BY <1>1, <1>2 DEF BoundInv, PhaseInv

LEMMA CallBounds ==
  ASSUME Inv, BoundInv, NEW t \in Threads, NEW n \in Names, ParseBangCommand(t, n)
  PROVE  BoundInv'
<1>1. /\ Len(call) < MaxCalls /\ Len(call) \in Nat /\ MaxCalls \in Nat /\ call \in Seq(Command)
      /\ UNCHANGED <<table, life, phase, gen>>
  BY BangsAssumption, Lengths DEF ParseBangCommand, Inv, Typed
<1>2. PICK f \in {"nobody", "pending"} : call' = Append(call, [name |-> n, fate |-> f])
  BY DEF ParseBangCommand
<1>3. Len(call') = Len(call) + 1
  BY <1>1, <1>2
<1>4. Len(call') <= MaxCalls
  BY <1>1, <1>3
<1>5. CASE table[n] = NoBang
  BY <1>1, <1>4, <1>5, NoneMade
     DEF ParseBangCommand, Inv, Typed, BoundInv, RestInv, AtRest, PhaseInv
<1>6. CASE table[n] # NoBang
  <2>1. table[n] \in 1..Len(bang) /\ bang' = Held(table[n])
    BY <1>6 DEF ParseBangCommand, Inv, TableGood, Entered
  <2> QED
    BY <1>1, <1>4, <2>1, HeldBounds
<1> QED
  BY <1>5, <1>6

LEMMA ThreadBounds ==
  ASSUME Inv, BoundInv, NEW t \in Threads, Proceeds(t)
  PROVE  BoundInv'
<1>1. Len(call) <= MaxCalls
  BY DEF BoundInv, PhaseInv
<1>2. CASE Execute(t)
  <2>1. stack[t] # <<>> /\ UNCHANGED <<table, life, phase, gen>> /\ bang' \in {bang, Release(Top(t).id)}
    BY <1>2 DEF Execute
  <2>2. Len(call') <= MaxCalls
    <3>1. call' = call \/ \E f \in {"called", "lost"} : Settle(Top(t).call, f)
      BY <1>2 DEF Execute
    <3> QED
      BY <1>1, <3>1, SettledCalls
  <2>3. Top(t).id \in 1..Len(bang)
    BY <2>1, TopGood
  <2> QED
    BY <2>1, <2>2, <2>3, HeldBounds
<1>3. CASE Return(t)
  <2>1. /\ stack[t] # <<>> /\ UNCHANGED <<table, life, call, phase, gen>>
        /\ bang' = Release(Top(t).id)
    BY <1>3 DEF Return, Calling
  <2>2. Top(t).id \in 1..Len(bang)
    BY <2>1, TopGood
  <2> QED
    BY <1>1, <2>1, <2>2, HeldBounds
<1>4. CASE Dispatch(t)
  <2> DEFINE n == call[Head(queue[t])].name
  <2>1. Lookup(t, Head(queue[t]), n) /\ UNCHANGED <<table, life, phase, gen>>
    BY <1>4 DEF Dispatch
  <2>2. CASE table[n] = NoBang
    <3>1. Settle(Head(queue[t]), "nobody") /\ bang' = bang
      BY <2>1, <2>2 DEF Lookup
    <3>2. Len(call') <= MaxCalls
      BY <1>1, <3>1, SettledCalls
    <3> QED
      BY <2>1, <3>1, <3>2, NoneMade DEF Inv, Typed, BoundInv, RestInv, AtRest, PhaseInv
  <2>3. CASE table[n] # NoBang
    <3>1. bang' = Held(table[n]) /\ call' = call
      BY <2>1, <2>3 DEF Lookup
    <3>2. n \in Names
      <4>1. /\ queue[t] \in Seq(Nat) /\ queue[t] # <<>> /\ Head(queue[t]) # Destroy
            /\ Len(call) \in Nat
        BY <1>4, Lengths DEF Dispatch, Inv, Typed
      <4>2. Len(queue[t]) \in Nat \ {0} /\ Head(queue[t]) = queue[t][1]
        BY <4>1, EmptySeq, LenProperties, HeadTailProperties
      <4>3. Head(queue[t]) \in 1..Len(call)
        BY <4>1, <4>2 DEF Inv, QueueGood, Destroy
      <4>4. call[Head(queue[t])] \in Command
        BY <4>3, ElementOfSeq DEF Inv, Typed
      <4> QED
        BY <4>4 DEF Command
    <3>3. table[n] \in 1..Len(bang)
      BY <2>3, <3>2 DEF Inv, TableGood, Entered
    <3> QED
      BY <1>1, <2>1, <3>1, <3>3, HeldBounds
  <2> QED
    BY <2>2, <2>3
<1> QED
  BY <1>2, <1>3, <1>4 DEF Proceeds

\* A module that quits or starts its loop is of this generation, or goes to rest.
LEMMA QuitBounds ==
  ASSUME Inv, BoundInv, NEW m \in Modules, Quits(m)
  PROVE  BoundInv'
<1>1. /\ UNCHANGED <<bang, table, call, phase, gen>>
      /\ \A x \in Modules : x # m => life'[x] = life[x]
  BY DEF Quits, InitReturns, ThreadQuits, QuitReturns, ThreadEnds, Inv, Typed
<1>2. ~AtRest(m)
  <2>1. m # UI
    BY BangsAssumption
  <2>2. life[m] # "out" /\ (life[m] = "ended" => FALSE)
    BY <2>1 DEF Quits, InitReturns, ThreadQuits, QuitReturns, ThreadEnds, Loops
  <2>3. life[m] = "quit" => m \in Threaded
    BY <2>1 DEF Quits, InitReturns, ThreadQuits, QuitReturns, ThreadEnds, Loops
  <2> QED
    BY <2>2, <2>3 DEF AtRest
<1>3. phase # "setup" /\ m \in Loads[gen]
  BY <1>2 DEF BoundInv, RestInv
<1> QED
  BY <1>1, <1>3, LeftBounds DEF BoundInv, PhaseInv

LEMMA UnloadBounds ==
  ASSUME Inv, BoundInv, (\E t \in Threads : DropInModal(t)) \/ UnloadBegins \/ LoadModules
  PROVE  BoundInv'
<1>1. CASE \E t \in Threads : DropInModal(t)
  <2>1. PICK t \in Threads : DropInModal(t)
    BY <1>1
  <2>2. UNCHANGED <<bang, table, life, phase, gen>>
    BY <2>1 DEF DropInModal
  <2>3. call' = call \/ Settle(Head(queue[t]), "lost")
    BY <2>1 DEF DropInModal
  <2>4. Len(call') <= MaxCalls
    BY <2>3, SettledCalls DEF BoundInv, PhaseInv
  <2> QED
    BY <2>2, <2>4, NoneMade DEF Inv, Typed, BoundInv, RestInv, AtRest, PhaseInv
<1>2. CASE UnloadBegins
  <2>1. UNCHANGED <<bang, table, call, gen>> /\ phase' = "unload" /\ gen < Len(Loads) /\ phase = "run"
    BY <1>2 DEF UnloadBegins
  <2>2. \A m \in Modules : life'[m] = life[m] \/ m \in Loads[gen]
    BY <1>2 DEF UnloadBegins
  <2> QED
    BY <2>1, <2>2, LeftBounds DEF BoundInv, PhaseInv
<1>3. CASE LoadModules
  <2>1. UNCHANGED <<bang, table, call, gen>> /\ phase' = "run"
    BY <1>3 DEF LoadModules
  <2>2. \A m \in Modules : life'[m] = life[m] \/ m \in Loads[gen]
    BY <1>3 DEF LoadModules
  <2> QED
    BY <2>1, <2>2, LeftBounds DEF BoundInv, PhaseInv
<1> QED
  BY <1>1, <1>2, <1>3

LEMMA Times ==
  ASSUME NEW a \in Nat, NEW b \in Nat, NEW c \in Nat
  PROVE  /\ a * c \in Nat /\ (a + 1) * c = a * c + c
         /\ a <= b => a * c <= b * c
<1>1. a * c \in Nat /\ (a + 1) * c = a * c + c
  OBVIOUS
<1>2. ASSUME a <= b PROVE a * c <= b * c
  <2>1. b - a \in Nat /\ (b - a) * c \in Nat
    BY <1>2
  <2>2. b * c = a * c + (b - a) * c
    OBVIOUS
  <2> QED
    BY <1>1, <2>1, <2>2
<1> QED
  BY <1>1, <1>2

\* The table is cleared, and all the names are to be registered once more.
LEMMA ClearBounds ==
  ASSUME Inv, BoundInv, ClearBangCommands
  PROVE  BoundInv'
<1>1. /\ phase = "unload" /\ phase' = "setup" /\ gen' = gen + 1 /\ call' = call
      /\ \A m \in Loads[gen] : life[m] = IF m \in Threaded THEN "ended" ELSE "quit"
      /\ life' = life /\ table' = [n \in Names |-> NoBang]
  BY DEF ClearBangCommands
<1>2. DOMAIN bang' = DOMAIN bang /\ \A b \in DOMAIN bang : bang'[b].by = bang[b].by
  <2>1. bang' = [b \in DOMAIN bang |->
                  [bang[b] EXCEPT !.refs = IF b \in {table[n] : n \in Names} THEN @ - 1 ELSE @]]
    BY DEF ClearBangCommands
  <2>2. ASSUME NEW b \in DOMAIN bang PROVE bang'[b].by = bang[b].by
    <3>1. bang[b] \in Known
      BY ElementOfSeq, LenProperties DEF Inv, Typed
    <3> QED
      BY <2>1, <3>1 DEF Known
  <2> QED
    BY <2>1, <2>2
<1>3. Foreign(bang') = Foreign(bang) /\ Own(bang') = Own(bang)
  BY <1>2 DEF Foreign, Own
<1>4. Awaited = 0 /\ Awaited' = Cardinality(Missing(table')) /\ Missing(table') = Core
  <2>1. Missing(table') = Core
    BY <1>1, BangsAssumption DEF Missing
  <2> QED
    BY <1>1, <2>1 DEF Awaited
<1>5. gen \in Nat /\ gen' * Cardinality(Core) = gen * Cardinality(Core) + Cardinality(Core)
  BY <1>1, Generations, Times DEF BoundInv, PhaseInv
<1>6. MadeInv'
  <2>1. Cardinality(Own(bang)) + 0 <= gen * Cardinality(Core)
    BY <1>4 DEF BoundInv, MadeInv
  <2>2. Cardinality(Own(bang)) + Cardinality(Core) <= gen' * Cardinality(Core)
    BY <1>5, <2>1, NumbersAre, Generations, Times DEF Numbers
  <2> QED
    BY <1>3, <1>4, <2>2 DEF BoundInv, MadeInv
<1>7. gen' \in 1..Len(Loads)
  BY <1>1, Generations DEF BoundInv, PhaseInv
<1>8. RestInv'
  BY <1>1 DEF BoundInv, RestInv, AtRest
<1> QED
  BY <1>1, <1>6, <1>7, <1>8 DEF BoundInv, PhaseInv

LEMMA SetupBounds ==
  ASSUME Inv, BoundInv, NEW n \in Core, SetupBangs(n)
  PROVE  BoundInv'
<1>1. /\ phase = "setup" /\ phase' = phase /\ table[n] = NoBang /\ n \in Names
      /\ Insert(n, Shell) /\ Shell \in Owners /\ UNCHANGED <<life, call, gen>>
  BY BangsAssumption DEF SetupBangs, Owners
<1>2. /\ Cardinality(Own(bang')) = Cardinality(Own(bang)) + 1 /\ Foreign(bang') = Foreign(bang)
      /\ table' = [table EXCEPT ![n] = Len(bang) + 1] /\ Len(bang) \in Nat
  BY <1>1, OneMade
<1>3. Missing(table') = Missing(table) \ {n} /\ n \in Missing(table)
  BY <1>1, <1>2, BangsAssumption DEF Missing, NoBang, Inv, Typed
<1>4. Cardinality(Missing(table')) = Cardinality(Missing(table)) - 1
  BY <1>3, MissingFinite, FS_RemoveElement
<1>5. Awaited' = Awaited - 1
  BY <1>1, <1>4 DEF Awaited
<1>6. Awaited \in Nat /\ gen * Cardinality(Core) \in Nat
  BY MissingFinite, Generations, Times DEF Awaited, BoundInv, PhaseInv
<1>7. Cardinality(Own(bang)) + Awaited <= gen * Cardinality(Core)
  BY DEF BoundInv, MadeInv
<1>8. Cardinality(Own(bang')) + Awaited' <= gen' * Cardinality(Core)
  BY <1>1, <1>2, <1>5, <1>6, <1>7, NumbersAre DEF Numbers
<1>9. MadeInv'
  BY <1>2, <1>8 DEF BoundInv, MadeInv
<1> QED
  BY <1>1, <1>9 DEF BoundInv, RestInv, AtRest, PhaseInv

LEMMA StartBounds == ASSUME Init PROVE BoundInv
<1>1. /\ bang = <<>> /\ gen = 1 /\ phase = "setup" /\ call = <<>>
      /\ table = [n \in Names |-> NoBang] /\ \A m \in Modules : life[m] = "out"
  BY DEF Init
<1>2. Foreign(bang) = {} /\ Own(bang) = {} /\ Cardinality({}) = 0
  BY <1>1, FS_EmptySet DEF Foreign, Own
<1>3. Missing(table) = Core
  BY <1>1, BangsAssumption DEF Missing
<1>4. 1 * Cardinality(Core) = Cardinality(Core) /\ Cardinality(Core) \in Nat
  BY Generations
<1>5. MadeInv
  <2>1. Awaited = Cardinality(Core) /\ gen * Cardinality(Core) = Cardinality(Core)
    BY <1>1, <1>3, <1>4 DEF Awaited
  <2>2. Cardinality(Foreign(bang)) = 0 /\ Cardinality(Own(bang)) = 0
    BY <1>2
  <2> QED
    BY <1>4, <2>1, <2>2, BangsAssumption DEF MadeInv
<1>6. RestInv
  BY <1>1 DEF RestInv, AtRest
<1>7. PhaseInv
  BY <1>1, Generations, BangsAssumption DEF PhaseInv
<1> QED
  BY <1>5, <1>6, <1>7 DEF BoundInv

LEMMA BoundsPreserved == ASSUME Inv, BoundInv, [Next]_vars PROVE BoundInv'
<1>1. CASE \E m \in Modules, n \in Names : AddBangCommand(m, n) \/ RemoveBangCommand(m, n)
  BY <1>1, AddBounds, RemoveBounds
<1>2. CASE \E t \in Threads, n \in Names : ParseBangCommand(t, n)
  BY <1>2, CallBounds
<1>3. CASE \E t \in Threads : Proceeds(t)
  BY <1>3, ThreadBounds
<1>4. CASE \E m \in Modules : Quits(m)
  BY <1>4, QuitBounds
<1>5. CASE (\E t \in Threads : DropInModal(t)) \/ UnloadBegins \/ LoadModules
  BY <1>5, UnloadBounds
<1>6. CASE ClearBangCommands
  BY <1>6, ClearBounds
<1>7. CASE \E n \in Core : SetupBangs(n)
  BY <1>7, SetupBounds
<1>8. CASE UNCHANGED vars
  BY <1>8 DEF vars, BoundInv, RestInv, AtRest, MadeInv, Awaited, PhaseInv
<1> QED
  BY <1>1, <1>2, <1>3, <1>4, <1>5, <1>6, <1>7, <1>8 DEF Next, Recycles

\* What the types need of the invariants.
LEMMA TypesFollow == ASSUME Inv, CountInv, BoundInv PROVE TypeOK
<1> DEFINE top == MaxAdds + Len(Loads) * Cardinality(Core)
<1>1. top \in Nat /\ Ids = 1..top
  BY Generations, Times, BangsAssumption DEF Ids
<1>2. Cardinality(Ids) = top
  BY <1>1, FS_Interval
<1>3. Len(bang) <= top
  <2>1. gen * Cardinality(Core) <= Len(Loads) * Cardinality(Core)
    BY Generations, Times DEF BoundInv, PhaseInv
  <2>2. Awaited \in Nat /\ Cardinality(Own(bang)) + Awaited <= gen * Cardinality(Core)
    BY MissingFinite DEF Awaited, BoundInv, MadeInv
  <2>3. /\ gen * Cardinality(Core) \in Nat /\ Len(Loads) * Cardinality(Core) \in Nat
        /\ MaxAdds \in Nat
    BY Generations, Times, BangsAssumption DEF BoundInv, PhaseInv
  <2>4. Cardinality(Foreign(bang)) <= MaxAdds
    BY DEF BoundInv, MadeInv
  <2>5. Len(bang) = Cardinality(Foreign(bang)) + Cardinality(Own(bang))
    BY MadeFinite DEF Inv, Typed
  <2> QED
    BY <2>1, <2>2, <2>3, <2>4, <2>5, NumbersAre DEF Numbers
<1> HIDE DEF top
<1>4. 1..Len(bang) \subseteq Ids /\ Len(bang) \in Nat /\ DOMAIN bang = 1..Len(bang)
  BY <1>1, <1>3, LenProperties DEF Inv, Typed
<1>5. table \in [Names -> Ids \cup {NoBang}]
  <2>1. \A n \in Names : table[n] \in Ids \cup {NoBang}
    BY <1>4 DEF Inv, TableGood, Entered
  <2> QED
    BY <2>1 DEF Inv, Typed
<1>6. bang \in Seq(Bang)
  <2>1. ASSUME NEW b \in 1..Len(bang) PROVE bang[b] \in Bang
    <3>1. bang[b] \in Known
      BY Ownership DEF Inv
    <3>2. bang[b].refs = Cardinality(Entries(table, b)) + Cardinality(Acts(stack, b))
      BY <1>4 DEF CountInv, Counted
    <3>3. bang[b].refs \in Nat
      BY <3>2, EntriesFinite, ActsFinite, InTable
    <3> QED
      BY <3>1, <3>3 DEF Known, Bang
  <2>2. bang = [b \in 1..Len(bang) |-> bang[b]]
    BY <1>4 DEF Inv, Typed
  <2> QED
    BY <1>4, <2>1, <2>2
<1>7. Len(call) \in Nat /\ 0..Len(call) \subseteq 0..MaxCalls /\ 0..MaxCalls = {Destroy} \cup 1..MaxCalls
  BY Lengths, BangsAssumption DEF Inv, BoundInv, PhaseInv, Destroy
<1>8. queue \in [Threads -> Seq({Destroy} \cup 1..MaxCalls)]
  <2>1. ASSUME NEW t \in Threads PROVE queue[t] \in Seq({Destroy} \cup 1..MaxCalls)
    <3>1. queue[t] \in Seq(Nat) /\ \A i \in 1..Len(queue[t]) : queue[t][i] \in {Destroy} \cup 1..MaxCalls
      BY <1>7 DEF Inv, Typed, QueueGood
    <3> QED
      BY <3>1, SeqDef
  <2> QED
    BY <2>1 DEF Inv, Typed
<1>9. stack \in [Threads -> Seq(Frame)]
  <2>1. ASSUME NEW t \in Threads PROVE stack[t] \in Seq(Frame)
    <3>1. ASSUME NEW i \in 1..Len(stack[t]) PROVE stack[t][i] \in Frame
      <4>1. Good(stack[t][i], t, bang, Len(call), life)
        BY DEF Inv, FramesGood
      <4>2. stack[t][i] \in Activation
        BY ElementOfSeq DEF Inv, Typed
      <4>3. stack[t][i].id \in Ids /\ stack[t][i].call \in 1..MaxCalls
        BY <1>4, <1>7, <4>1 DEF Good
      <4> QED
        BY <4>2, <4>3 DEF Activation, Frame
    <3>2. stack[t] \in Seq(Activation)
      BY DEF Inv, Typed
    <3> QED
      BY <3>1, <3>2, SeqDef
  <2> QED
    BY <2>1 DEF Inv, Typed
<1>10. /\ life \in [Modules -> {"out", "init", "on", "quitting", "quit", "ended"}]
       /\ names \in [Modules -> SUBSET Names] /\ base \in Nat
       /\ call \in Seq([name : Names, fate : {"pending", "called", "nobody", "lost"}])
  BY DEF Inv, Typed, Lives, Working, Command
<1>11. phase \in {"setup", "run", "unload"} /\ gen \in 1..Len(Loads)
  BY DEF BoundInv, PhaseInv
<1> QED
  BY <1>2, <1>3, <1>5, <1>6, <1>8, <1>9, <1>10, <1>11 DEF TypeOK

\* Every variable keeps its type: as many Bangs are made as SetupBangs registers in each
\* generation and modules may, reference counts do not go below zero, and whatever is queued
\* or on a stack stands for a call that was made (BangManager.cpp:39-127, bangs.cpp:51-75).
THEOREM Typing == Spec => []TypeOK
<1>1. Init => Inv /\ CountInv /\ BoundInv
  BY Start, StartCounts, StartBounds
<1>2. Inv /\ CountInv /\ BoundInv /\ [Next]_vars => Inv' /\ CountInv' /\ BoundInv'
  BY StepPreserves, CountsPreserved, BoundsPreserved
<1>3. Inv /\ CountInv /\ BoundInv => TypeOK
  BY TypesFollow
<1> QED
  BY <1>1, <1>2, <1>3, PTL DEF Spec
=============================================================================
