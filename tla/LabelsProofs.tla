---------------------------- MODULE LabelsProofs ----------------------------
(***************************************************************************)
(* Proofs about Labels, for price series of any length: which observations *)
(* a label uses, and that the walk over a window finds its extremes.       *)
(***************************************************************************)
EXTENDS Labels, Induction

-----------------------------------------------------------------------------
(* The least and the greatest of a set of numbers *)

Least(x, S) == x \in S /\ \A y \in S : x <= y

Greatest(x, S) == x \in S /\ \A y \in S : y <= x

LEMMA MinIsLeast ==
  ASSUME NEW S, S \subseteq Int, NEW x, Least(x, S)
  PROVE  Min(S) = x
<1>1. Min(S) \in S /\ \A y \in S : Min(S) <= y
  BY DEF Min, Least
<1>2. x \in Int /\ Min(S) \in Int /\ x <= Min(S) /\ Min(S) <= x
  BY <1>1 DEF Least
<1> QED
  BY <1>2

LEMMA MaxIsGreatest ==
  ASSUME NEW S, S \subseteq Int, NEW x, Greatest(x, S)
  PROVE  Max(S) = x
<1>1. Max(S) \in S /\ \A y \in S : Max(S) >= y
  BY DEF Max, Greatest
<1>2. x \in Int /\ Max(S) \in Int /\ x <= Max(S) /\ Max(S) <= x
  BY <1>1 DEF Greatest
<1> QED
  BY <1>2

LEMMA MinOfNats ==
  ASSUME NEW S, S \subseteq Nat, S # {}
  PROVE  Min(S) \in S /\ \A y \in S : Min(S) <= y
<1>1. \E x \in S : \A y \in S : x <= y
  BY LeastOfNats
<1> QED
  BY <1>1 DEF Min

\* A set of integers that is bounded above has a greatest one, also when some
\* are negative.
LEMMA MaxOfBounded ==
  ASSUME NEW S, NEW h \in Int, S \subseteq Int, \A x \in S : x <= h, S # {}
  PROVE  Max(S) \in S /\ \A y \in S : Max(S) >= y
<1>1. PICK low \in S : TRUE
  OBVIOUS
<1> DEFINE T == {h - x : x \in S}
<1>2. T \subseteq Nat /\ T # {}
  <2>1. h - low \in T
    BY <1>1
  <2>2. \A x \in S : h - x \in Nat
    OBVIOUS
  <2> QED
    BY <2>1, <2>2
<1>3. Min(T) \in T /\ \A z \in T : Min(T) <= z
  <2> HIDE DEF T
  <2> QED
    BY <1>2, MinOfNats
<1>4. PICK x \in S : Min(T) = h - x
  BY <1>3
<1>5. \A y \in S : h - x <= h - y
  BY <1>3, <1>4
<1>6. \A y \in S : x >= y
  BY <1>4, <1>5
<1> QED
  BY <1>4, <1>6, MaxIsGreatest DEF Greatest

-----------------------------------------------------------------------------
(* The observations a label uses.                                          *)

LEMMA BaselineIsFirst ==
  ASSUME NEW series, DOMAIN series \subseteq Int, Baseline(series) # None
  PROVE  /\ Baseline(series) \in DOMAIN series /\ 0 <= Baseline(series)
         /\ \A t \in DOMAIN series : 0 <= t => Baseline(series) <= t
<1>1. After(series, 0) \subseteq Nat /\ After(series, 0) # {}
  BY DEF After, Baseline
<1>2. Baseline(series) = Min(After(series, 0))
  BY <1>1 DEF Baseline
<1>3. /\ Baseline(series) \in After(series, 0)
      /\ \A t \in After(series, 0) : Baseline(series) <= t
  BY <1>1, <1>2, MinOfNats
<1> QED
  BY <1>3 DEF After

LEMMA UsedIsLast ==
  ASSUME NEW series, DOMAIN series \subseteq Int, NEW h \in Nat,
         Used(series, h) # None
  PROVE  /\ Used(series, h) \in DOMAIN series
         /\ Used(series, h) <= h
         /\ \A t \in DOMAIN series : t <= h => t <= Used(series, h)
         /\ \E t \in DOMAIN series : t >= h
<1>1. /\ UpTo(series, h) \subseteq Int /\ \A t \in UpTo(series, h) : t <= h
      /\ UpTo(series, h) # {} /\ After(series, h) # {}
  BY DEF UpTo, Used
<1>2. Used(series, h) = Max(UpTo(series, h))
  BY <1>1 DEF Used
<1>3. Used(series, h) \in UpTo(series, h) /\ \A t \in UpTo(series, h) : Used(series, h) >= t
  BY <1>1, <1>2, MaxOfBounded
<1> QED
  BY <1>1, <1>3 DEF UpTo, After

-----------------------------------------------------------------------------
(* The walk over a window *)

Seen(series, t) == {u \in DOMAIN series : 0 <= u /\ u <= t}

Rises(series, t) == {series[u] - series[Baseline(series)] : u \in Seen(series, t)}

Falls(series, t) ==
    {series[p[2]] - series[p[1]] :
        p \in {q \in Seen(series, t) \X Seen(series, t) : q[1] <= q[2]}}

\* What the walk should have found after second t.
Extremes(series, t) ==
    IF Seen(series, t) = {} THEN [peak |-> 0, drawdown |-> 0]
    ELSE [peak |-> Max(Rises(series, t)), drawdown |-> Min(Falls(series, t))]

\* There are extremes to find.
Bounded(series, t) ==
    Seen(series, t) # {} =>
        /\ \E x : Greatest(x, Rises(series, t))
        /\ \E x : Least(x, Falls(series, t))

\* What the loop makes of `before` at an observation.
Stepped(series, before, t) ==
    LET value == series[t] - series[Baseline(series)]
        peak  == Max({before.peak, value})
    IN  [peak |-> peak, drawdown |-> Min({before.drawdown, value - peak})]

LEMMA SeenTypes ==
  ASSUME NEW series, IsSeries(series), NEW t \in Int, Seen(series, t) # {}
  PROVE  /\ Baseline(series) \in Seen(series, t)
         /\ \A u \in Seen(series, t) : series[u] \in Int /\ u \in Nat
         /\ Rises(series, t) \subseteq Int /\ 0 \in Rises(series, t)
         /\ Falls(series, t) \subseteq Int
<1> DEFINE b == Baseline(series)
<1>1. DOMAIN series \subseteq Int /\ \A u \in DOMAIN series : series[u] \in Int
  BY DEF IsSeries
<1>2. PICK u \in Seen(series, t) : TRUE
  OBVIOUS
<1>3. u \in After(series, 0) /\ u \in Int /\ u <= t
  BY <1>1, <1>2 DEF After, Seen
<1>4. After(series, 0) \subseteq Nat
  BY <1>1 DEF After
<1>5. b \in After(series, 0) /\ b <= u
  BY <1>3, <1>4, MinOfNats DEF Baseline
<1>6. b \in Seen(series, t)
  <2>1. b \in DOMAIN series /\ b \in Int /\ 0 <= b
    BY <1>4, <1>5 DEF After
  <2>2. b <= t
    BY <1>3, <1>5, <2>1
  <2> QED
    BY <2>1, <2>2 DEF Seen
<1>7. \A k \in Seen(series, t) : series[k] \in Int /\ k \in Nat
  BY <1>1 DEF Seen
<1>8. series[b] \in Int /\ series[b] - series[b] = 0
  BY <1>6, <1>7
<1>9. Rises(series, t) \subseteq Int /\ 0 \in Rises(series, t)
  <2>1. series[b] - series[b] \in Rises(series, t)
    BY <1>6 DEF Rises
  <2>2. Rises(series, t) \subseteq Int
    BY <1>7, <1>8 DEF Rises
  <2> QED
    BY <1>8, <2>1, <2>2
<1>10. Falls(series, t) \subseteq Int
  BY <1>7 DEF Falls
<1> QED
  BY <1>6, <1>7, <1>9, <1>10

LEMMA ExtremesOf ==
  ASSUME NEW series, IsSeries(series), NEW t \in Int, Seen(series, t) # {},
         NEW x, Greatest(x, Rises(series, t)), NEW y, Least(y, Falls(series, t))
  PROVE  Extremes(series, t) = [peak |-> x, drawdown |-> y]
<1>1. Max(Rises(series, t)) = x
  BY SeenTypes, MaxIsGreatest
<1>2. Min(Falls(series, t)) = y
  BY SeenTypes, MinIsLeast
<1> QED
  BY <1>1, <1>2 DEF Extremes

\* A second without an observation changes nothing.
LEMMA QuietSecond ==
  ASSUME NEW series, IsSeries(series), NEW t \in Nat, t \notin DOMAIN series
  PROVE  Seen(series, t) = Seen(series, t - 1)
<1>1. \A u \in DOMAIN series : u \in Int /\ u # t
  BY DEF IsSeries
<1>2. \A u \in Int : u # t => (u <= t <=> u <= t - 1)
  OBVIOUS
<1> QED
  BY <1>1, <1>2 DEF Seen

\* An observation adds itself.
LEMMA SeenGrows ==
  ASSUME NEW series, IsSeries(series), NEW t \in Nat, t \in DOMAIN series
  PROVE  Seen(series, t) = Seen(series, t - 1) \cup {t}
<1>1. \A u \in DOMAIN series : u \in Int
  BY DEF IsSeries
<1>2. \A u \in Int : u <= t <=> (u <= t - 1 \/ u = t)
  OBVIOUS
<1> QED
  BY <1>1, <1>2 DEF Seen

LEMMA GreaterOfTwo ==
  ASSUME NEW x \in Int, NEW y \in Int
  PROVE  /\ Max({x, y}) \in {x, y}
         /\ x <= Max({x, y}) /\ y <= Max({x, y})
<1>1. CASE x <= y
  <2>1. Greatest(y, {x, y}) /\ {x, y} \subseteq Int
    BY <1>1 DEF Greatest
  <2>2. Max({x, y}) = y
    BY <2>1, MaxIsGreatest
  <2> QED
    BY <1>1, <2>2
<1>2. CASE ~(x <= y)
  <2>1. Greatest(x, {x, y}) /\ {x, y} \subseteq Int
    BY <1>2 DEF Greatest
  <2>2. Max({x, y}) = x
    BY <2>1, MaxIsGreatest
  <2> QED
    BY <1>2, <2>2
<1> QED
  BY <1>1, <1>2

LEMMA LesserOfTwo ==
  ASSUME NEW x \in Int, NEW y \in Int
  PROVE  /\ Min({x, y}) \in {x, y}
         /\ Min({x, y}) <= x /\ Min({x, y}) <= y
<1>1. CASE x <= y
  <2>1. Least(x, {x, y}) /\ {x, y} \subseteq Int
    BY <1>1 DEF Least
  <2>2. Min({x, y}) = x
    BY <2>1, MinIsLeast
  <2> QED
    BY <1>1, <2>2
<1>2. CASE ~(x <= y)
  <2>1. Least(y, {x, y}) /\ {x, y} \subseteq Int
    BY <1>2 DEF Least
  <2>2. Min({x, y}) = y
    BY <2>1, MinIsLeast
  <2> QED
    BY <1>2, <2>2
<1> QED
  BY <1>1, <1>2

\* The first observation of the window is the baseline itself.
LEMMA FirstStep ==
  ASSUME NEW series, IsSeries(series), NEW t \in Nat, t \in DOMAIN series,
         Seen(series, t - 1) = {}
  PROVE  /\ Bounded(series, t)
         /\ Extremes(series, t) = Stepped(series, Extremes(series, t - 1), t)
<1>1. Seen(series, t) = {t}
  BY SeenGrows
<1>2. Baseline(series) = t /\ series[t] \in Int
  BY <1>1, SeenTypes
<1>3. series[t] - series[t] = 0 /\ t <= t
  BY <1>2
<1>4. Rises(series, t) = {0} /\ Falls(series, t) = {0}
  <2>1. Rises(series, t) = {series[t] - series[t]}
    BY <1>1, <1>2 DEF Rises
  <2>2. {q \in Seen(series, t) \X Seen(series, t) : q[1] <= q[2]} = {<<t, t>>}
    BY <1>1, <1>3
  <2>3. Falls(series, t) = {series[p[2]] - series[p[1]] : p \in {<<t, t>>}}
    BY <2>2 DEF Falls
  <2>4. Falls(series, t) = {series[t] - series[t]}
    <3>1. <<t, t>>[1] = t /\ <<t, t>>[2] = t
      OBVIOUS
    <3> QED
      BY <2>3, <3>1, Zenon
  <2> QED
    BY <1>3, <2>1, <2>4
<1>5. Greatest(0, Rises(series, t)) /\ Least(0, Falls(series, t))
  BY <1>4 DEF Greatest, Least
<1>6. Extremes(series, t) = [peak |-> 0, drawdown |-> 0]
  BY <1>1, <1>5, ExtremesOf
<1>7. Extremes(series, t - 1) = [peak |-> 0, drawdown |-> 0]
  BY DEF Extremes
<1>8. Max({0, 0}) = 0 /\ Min({0, 0}) = 0 /\ 0 - 0 = 0
  <2>1. {0, 0} \subseteq Int /\ Greatest(0, {0, 0}) /\ Least(0, {0, 0})
    BY DEF Greatest, Least
  <2> QED
    BY <2>1, MaxIsGreatest, MinIsLeast
<1>9. Stepped(series, [peak |-> 0, drawdown |-> 0], t) = [peak |-> 0, drawdown |-> 0]
  <2>1. series[t] - series[Baseline(series)] = 0
    BY <1>2, <1>3
  <2> QED
    BY <1>8, <2>1 DEF Stepped
<1> QED
  BY <1>5, <1>6, <1>7, <1>9 DEF Bounded

LEMMA Differences ==
  ASSUME NEW a \in Int, NEW b \in Int, NEW c \in Int
  PROVE  /\ (a - c) - (b - c) = a - b
         /\ \A d \in Int : b - c <= d => (a - c) - d <= a - b
OBVIOUS

\* A later one raises the peak if it is above it, and falls deepest from the
\* peak so far.
LEMMA LaterStep ==
  ASSUME NEW series, IsSeries(series), NEW t \in Nat, t \in DOMAIN series,
         Seen(series, t - 1) # {}, Bounded(series, t - 1)
  PROVE  /\ Bounded(series, t)
         /\ Extremes(series, t) = Stepped(series, Extremes(series, t - 1), t)
<1> DEFINE old   == Seen(series, t - 1)
           new   == Seen(series, t)
           base  == series[Baseline(series)]
           value == series[t] - base
<1>1. PICK x : Greatest(x, Rises(series, t - 1))
  BY DEF Bounded
<1>2. PICK y : Least(y, Falls(series, t - 1))
  BY DEF Bounded
<1> DEFINE peak == Max({x, value})
           fall == Min({y, value - peak})
<1>3. new = old \cup {t} /\ t \in new /\ new # {}
  BY SeenGrows
<1>4. /\ Baseline(series) \in new /\ base \in Int
      /\ \A u \in new : series[u] \in Int /\ u \in Nat
      /\ t - 1 \in Int
  BY <1>3, SeenTypes
<1>5. x \in Int /\ y \in Int /\ value \in Int
  <2>1. Rises(series, t - 1) \subseteq Int /\ Falls(series, t - 1) \subseteq Int
    BY <1>4, SeenTypes
  <2> QED
    BY <1>1, <1>2, <1>3, <1>4, <2>1 DEF Greatest, Least
<1>6. Extremes(series, t - 1) = [peak |-> x, drawdown |-> y]
  BY <1>1, <1>2, <1>4, ExtremesOf
<1>7. Rises(series, t) = Rises(series, t - 1) \cup {value}
  BY <1>3 DEF Rises
<1>8. peak \in {x, value} /\ x <= peak /\ value <= peak /\ peak \in Int
  BY <1>5, GreaterOfTwo
<1>9. Greatest(peak, Rises(series, t))
  <2>1. peak \in Rises(series, t)
    BY <1>1, <1>7, <1>8 DEF Greatest
  <2>2. ASSUME NEW r \in Rises(series, t) PROVE r <= peak
    <3>1. CASE r = value
      BY <1>8, <3>1
    <3>2. CASE r # value
      <4>1. r \in Rises(series, t - 1)
        BY <1>7, <3>2
      <4>2. r <= x /\ r \in Int
        BY <1>1, <1>4, <4>1, SeenTypes DEF Greatest
      <4> HIDE DEF peak
      <4> QED
        BY <1>5, <1>8, <4>2
    <3> QED
      BY <3>1, <3>2
  <2> HIDE DEF peak
  <2> QED
    BY <2>1, <2>2 DEF Greatest
<1> HIDE DEF peak
<1>10. value - peak \in Int
  BY <1>5, <1>8
<1>11. fall \in {y, value - peak} /\ fall <= y /\ fall <= value - peak /\ fall \in Int
  BY <1>5, <1>10, LesserOfTwo
<1>12. Falls(series, t) = Falls(series, t - 1) \cup {series[t] - series[u] : u \in new}
  <2>1. \A u \in new : u <= t
    BY DEF Seen
  <2>2. \A u \in old : ~(t <= u)
    <3>1. \A u \in old : u \in Nat /\ u <= t - 1
      BY <1>3, <1>4 DEF Seen
    <3> QED
      BY <3>1
  <2>3. {q \in new \X new : q[1] <= q[2]} =
          {q \in old \X old : q[1] <= q[2]} \cup {<<u, t>> : u \in new}
    <3>1. ASSUME NEW u \in new, NEW v \in new
          PROVE  u <= v <=> \/ u \in old /\ v \in old /\ u <= v
                            \/ v = t
      BY <1>3, <2>1, <2>2
    <3> HIDE DEF old, new
    <3>2. \A q \in new \X new : q = <<q[1], q[2]>> /\ q[1] \in new /\ q[2] \in new
      OBVIOUS
    <3>3. old \subseteq new /\ t \in new
      BY <1>3 DEF old, new
    <3>4. ASSUME NEW q \in new \X new, q[1] <= q[2]
          PROVE  q \in {p \in old \X old : p[1] <= p[2]} \cup {<<u, t>> : u \in new}
      <4>1. q = <<q[1], q[2]>> /\ q[1] \in new /\ q[2] \in new
        BY <3>2
      <4>2. CASE q[2] = t
        BY <4>1, <4>2
      <4>3. CASE q[2] # t
        <5>1. q[1] \in old /\ q[2] \in old
          BY <3>1, <3>4, <4>1, <4>3
        <5> QED
          BY <3>4, <4>1, <5>1
      <4> QED
        BY <4>2, <4>3
    <3>5. ASSUME NEW u \in new PROVE <<u, t>> \in {q \in new \X new : q[1] <= q[2]}
      BY <3>1, <3>3
    <3> QED
      BY <3>3, <3>4, <3>5
  <2> HIDE DEF old, new
  <2>4. {series[p[2]] - series[p[1]] : p \in {<<u, t>> : u \in new}}
          = {series[t] - series[u] : u \in new}
    <3>1. \A u : <<u, t>>[1] = u /\ <<u, t>>[2] = t
      OBVIOUS
    <3> QED
      BY <3>1, Zenon
  <2>5. {series[p[2]] - series[p[1]] : p \in {q \in new \X new : q[1] <= q[2]}}
          = {series[p[2]] - series[p[1]] : p \in {q \in old \X old : q[1] <= q[2]}}
              \cup {series[t] - series[u] : u \in new}
    BY <2>3, <2>4
  <2> QED
    BY <2>5 DEF Falls, old, new
<1>13. Least(fall, Falls(series, t))
  <2>1. PICK u \in new : peak = series[u] - base
    BY <1>9 DEF Greatest, Rises
  <2>2. value - peak = series[t] - series[u]
    BY <1>3, <1>4, <2>1, Differences
  <2>3. fall \in Falls(series, t)
    BY <1>2, <1>11, <1>12, <2>2 DEF Least
  <2>4. ASSUME NEW f \in Falls(series, t) PROVE fall <= f
    <3>1. CASE f \in Falls(series, t - 1)
      <4>1. y <= f /\ f \in Int
        BY <1>2, <1>4, <3>1, SeenTypes DEF Least
      <4> HIDE DEF fall
      <4> QED
        BY <1>5, <1>11, <4>1
    <3>2. CASE f \notin Falls(series, t - 1)
      <4>1. PICK v \in new : f = series[t] - series[v]
        BY <1>12, <3>2
      <4>2. series[v] - base <= peak
        BY <1>9 DEF Greatest, Rises
      <4>3. value - peak <= f /\ f \in Int
        BY <1>3, <1>4, <1>8, <4>1, <4>2, Differences
      <4> HIDE DEF fall, value
      <4> QED
        BY <1>10, <1>11, <4>3
    <3> QED
      BY <3>1, <3>2
  <2> HIDE DEF fall
  <2> QED
    BY <2>3, <2>4 DEF Least
<1>14. Extremes(series, t) = [peak |-> peak, drawdown |-> fall]
  <2> HIDE DEF fall
  <2> QED
    BY <1>3, <1>9, <1>13, ExtremesOf
<1>15. Stepped(series, [peak |-> x, drawdown |-> y], t) = [peak |-> peak, drawdown |-> fall]
  BY DEF Stepped, peak
<1> QED
  BY <1>6, <1>9, <1>13, <1>14, <1>15 DEF Bounded

LEMMA ExtremesExist ==
  ASSUME NEW series, IsSeries(series)
  PROVE  \A t \in Nat : Bounded(series, t - 1)
<1> DEFINE S == {t \in Nat : Bounded(series, t - 1)}
<1>1. 0 \in S
  <2>1. Seen(series, 0 - 1) = {}
    BY DEF Seen, IsSeries
  <2> QED
    BY <2>1 DEF Bounded
<1>2. ASSUME NEW t \in Nat, t \in S PROVE t + 1 \in S
  <2>1. (t + 1) - 1 = t /\ t + 1 \in Nat
    OBVIOUS
  <2>2. CASE t \notin DOMAIN series
    <3>1. Seen(series, t) = Seen(series, t - 1)
      BY <2>2, QuietSecond
    <3>2. Bounded(series, t)
      BY <1>2, <3>1 DEF Bounded, Rises, Falls
    <3> QED
      BY <2>1, <3>2
  <2>3. CASE t \in DOMAIN series
    <3>1. Bounded(series, t)
      BY <1>2, <2>3, FirstStep, LaterStep
    <3> QED
      BY <2>1, <3>1
  <2> QED
    BY <2>2, <2>3
<1>3. \A t \in Nat : t \in S
  <2> HIDE DEF S
  <2> QED
    BY <1>1, <1>2, NumberInduction
<1> QED
  BY <1>3

\* The extremes follow the recursion of the walk.
LEMMA ExtremesStep ==
  ASSUME NEW series, IsSeries(series), NEW t \in Nat
  PROVE  Extremes(series, t) =
           IF t \in DOMAIN series THEN Stepped(series, Extremes(series, t - 1), t)
           ELSE Extremes(series, t - 1)
<1>1. CASE t \in DOMAIN series
  BY <1>1, ExtremesExist, FirstStep, LaterStep
<1>2. CASE t \notin DOMAIN series
  <2>1. Seen(series, t) = Seen(series, t - 1)
    BY <1>2, QuietSecond
  <2> QED
    BY <1>2, <2>1 DEF Extremes, Rises, Falls
<1> QED
  BY <1>1, <1>2

\* A function that obeys the walk's recursion.
Walks(g, series, h) ==
    g = [t \in -1..h |->
            IF t = -1 THEN [peak |-> 0, drawdown |-> 0]
            ELSE LET before == g[t - 1]
                     value  == series[t] - series[Baseline(series)]
                     peak   == Max({before.peak, value})
                 IN  IF t \notin Seen(series, h) THEN before
                     ELSE [peak |-> peak, drawdown |-> Min({before.drawdown, value - peak})]]

LEMMA WalkIsRecursive ==
  ASSUME NEW series, NEW h, Seen(series, h) # {}
  PROVE  Walk(series, h) = (CHOOSE g : Walks(g, series, h))[h]
BY DEF Walk, Walks, Seen

LEMMA WalkUnfolds ==
  ASSUME NEW series, IsSeries(series), NEW h \in Nat, NEW g
  PROVE  Walks(g, series, h) <=>
           g = [t \in -1..h |->
                 IF t = -1 THEN [peak |-> 0, drawdown |-> 0]
                 ELSE IF t \in DOMAIN series THEN Stepped(series, g[t - 1], t) ELSE g[t - 1]]
<1>1. ASSUME NEW t \in -1..h, t # -1
      PROVE  t \in Seen(series, h) <=> t \in DOMAIN series
  BY <1>1 DEF Seen
<1> QED
  BY <1>1 DEF Walks, Stepped

\* A walk arrives at the extremes.
LEMMA WalkArrives ==
  ASSUME NEW series, IsSeries(series), NEW h \in Nat, NEW g, Walks(g, series, h)
  PROVE  g[h] = Extremes(series, h)
<1> DEFINE S == {n \in Nat : n - 1 <= h => g[n - 1] = Extremes(series, n - 1)}
           Step(t) == IF t \in DOMAIN series THEN Stepped(series, g[t - 1], t) ELSE g[t - 1]
<1>1. g = [t \in -1..h |-> IF t = -1 THEN [peak |-> 0, drawdown |-> 0] ELSE Step(t)]
  BY WalkUnfolds
<1>2. 0 \in S
  <2>1. 0 - 1 \in -1..h /\ 0 - 1 = -1
    OBVIOUS
  <2>2. g[0 - 1] = [peak |-> 0, drawdown |-> 0]
    BY <1>1, <2>1
  <2>3. Seen(series, 0 - 1) = {}
    BY DEF Seen, IsSeries
  <2> QED
    BY <2>2, <2>3 DEF Extremes
<1>3. ASSUME NEW n \in Nat, n \in S PROVE n + 1 \in S
  <2> SUFFICES ASSUME n <= h PROVE g[n] = Extremes(series, n)
    <3>1. (n + 1) - 1 = n /\ n + 1 \in Nat
      OBVIOUS
    <3> QED
      BY <3>1
  <2>1. g[n - 1] = Extremes(series, n - 1)
    BY <1>3
  <2>2. n \in -1..h /\ n # -1
    OBVIOUS
  <2>3. g[n] = Step(n)
    BY <1>1, <2>2
  <2> QED
    BY <2>1, <2>3, ExtremesStep
<1>4. \A n \in Nat : n \in S
  <2> HIDE DEF S
  <2> QED
    BY <1>2, <1>3, NumberInduction
<1>5. h + 1 \in Nat /\ (h + 1) - 1 = h
  OBVIOUS
<1> QED
  BY <1>4, <1>5

\* There is a walk.
LEMMA WalkExists ==
  ASSUME NEW series, IsSeries(series), NEW h \in Nat
  PROVE  \E g : Walks(g, series, h)
<1> DEFINE g == [t \in -1..h |-> Extremes(series, t)]
<1>1. ASSUME NEW t \in -1..h
      PROVE  g[t] = IF t = -1 THEN [peak |-> 0, drawdown |-> 0]
                    ELSE IF t \in DOMAIN series THEN Stepped(series, g[t - 1], t) ELSE g[t - 1]
  <2>1. CASE t = -1
    <3>1. Seen(series, t) = {}
      BY <2>1 DEF Seen, IsSeries
    <3> QED
      BY <2>1, <3>1 DEF Extremes
  <2>2. CASE t # -1
    <3>1. t \in Nat /\ t - 1 \in -1..h
      BY <2>2
    <3>2. g[t - 1] = Extremes(series, t - 1) /\ g[t] = Extremes(series, t)
      BY <3>1
    <3> HIDE DEF g
    <3> QED
      BY <2>2, <3>1, <3>2, ExtremesStep
  <2> QED
    BY <2>1, <2>2
<1>2. Walks(g, series, h)
  <2>1. g = [t \in -1..h |-> g[t]]
    OBVIOUS
  <2> HIDE DEF g
  <2> QED
    BY <1>1, <2>1, WalkUnfolds
<1> QED
  BY <1>2

\* The walk over a window finds the highest rise over the baseline and the
\* deepest fall from an earlier observation, in any series.
LEMMA WalkIsExact ==
  ASSUME NEW series, IsSeries(series), NEW h \in Nat, Seen(series, h) # {}
  PROVE  Walk(series, h) = [peak |-> Max(Rises(series, h)), drawdown |-> Min(Falls(series, h))]
<1> DEFINE g == CHOOSE f : Walks(f, series, h)
<1>1. Walks(g, series, h)
  BY WalkExists
<1>2. Walk(series, h) = g[h]
  BY WalkIsRecursive
<1> HIDE DEF g
<1>3. g[h] = Extremes(series, h)
  BY <1>1, WalkArrives
<1> QED
  BY <1>2, <1>3 DEF Extremes

\* What ExtremesAreExact asks of a window.
LEMMA WindowIsExact ==
  ASSUME NEW series, IsSeries(series), NEW h \in Nat, WindowOf(series, h) # None
  PROVE  WindowOf(series, h) =
           [peak |-> Max(Rises(series, h)), drawdown |-> Min(Falls(series, h))]
<1>1. WindowOf(series, h) = Walk(series, h)
  BY DEF WindowOf
<1>2. Seen(series, h) # {}
  BY <1>1 DEF Walk, Seen
<1> QED
  BY <1>1, <1>2, WalkIsExact
=============================================================================
