--------------------------- MODULE ResearchProofs ---------------------------
(***************************************************************************)
(* Proofs about History, Labels and Research, for endpoint lists, pages    *)
(* and price series of any length and any number of commands.              *)
(***************************************************************************)
EXTENDS Research, LabelsProofs, SequenceTheorems

-----------------------------------------------------------------------------
(* The label of a series.                                                  *)

\* What LeaksNeedEarlyPrices asks of one label; e is whether early prices were
\* given.
Explained(l, e) ==
    l # None =>
        \A i \in 1..4 : l.used[i] # None =>
            /\ 0 <= l.base
            /\ l.used[i] <= Horizons[i]
            /\ \/ l.base <= l.used[i]
               \/ /\ e
                  /\ l.used[i] < 0 /\ Horizons[i] < l.base
                  /\ i \in {2, 3} => l.windows[i - 1] = None

LEMMA LabelIsExplained ==
  ASSUME NEW series, DOMAIN series \subseteq Int, NEW e,
         (\E t \in DOMAIN series : t < 0) => e
  PROVE  Explained(Label(series), e)
<1> SUFFICES ASSUME NEW i \in 1..4, Label(series).used[i] # None
             PROVE  /\ 0 <= Label(series).base
                    /\ Label(series).used[i] <= Horizons[i]
                    /\ \/ Label(series).base <= Label(series).used[i]
                       \/ /\ e
                          /\ Label(series).used[i] < 0 /\ Horizons[i] < Label(series).base
                          /\ i \in {2, 3} => Label(series).windows[i - 1] = None
  BY DEF Explained
<1> DEFINE h == Horizons[i]
           b == Baseline(series)
           u == Used(series, h)
<1>1. b # None
  BY DEF Label, Unavailable
<1>2. Label(series).base = b /\ Label(series).used[i] = u
  BY <1>1 DEF Label
<1>3. Label(series).windows = <<WindowOf(series, Horizons[2]), WindowOf(series, Horizons[3])>>
  BY <1>1 DEF Label
<1>4. h \in Nat
  BY ResearchAssumption
<1>5. b \in DOMAIN series /\ 0 <= b /\ \A t \in DOMAIN series : 0 <= t => b <= t
  BY <1>1, BaselineIsFirst
<1>6. /\ u # None /\ u \in DOMAIN series /\ u <= h
      /\ \A t \in DOMAIN series : t <= h => t <= u
  BY <1>2, <1>4, UsedIsLast
<1>7. CASE 0 <= u
  <2>1. b <= u
    BY <1>5, <1>6, <1>7
  <2> QED
    BY <1>2, <1>5, <1>6, <2>1
<1>8. CASE u < 0
  <2>1. h < b
    <3>1. b \in Int /\ u \in Int
      BY <1>5, <1>6
    <3>2. ~(b <= h)
      BY <1>5, <1>6, <1>8, <3>1
    <3> QED
      BY <1>4, <3>1, <3>2
  <2>2. Seen(series, h) = {}
    <3>1. ASSUME NEW t \in DOMAIN series, 0 <= t, t <= h PROVE FALSE
      <4>1. b <= t /\ t \in Int /\ b \in Int
        BY <1>5, <3>1
      <4> QED
        BY <1>4, <2>1, <3>1, <4>1
    <3> QED
      BY <3>1 DEF Seen
  <2>3. WindowOf(series, h) = None
    <3>1. Walk(series, h) = None
      BY <2>2 DEF Walk, Seen
    <3> QED
      BY <3>1 DEF WindowOf
  <2>4. i \in {2, 3} => Label(series).windows[i - 1] = None
    <3>1. CASE i = 2
      BY <1>3, <2>3, <3>1
    <3>2. CASE i = 3
      BY <1>3, <2>3, <3>2
    <3> QED
      BY <3>1, <3>2
  <2>5. e
    BY <1>6, <1>8
  <2> QED
    BY <1>2, <1>5, <1>6, <1>8, <2>1, <2>4, <2>5
<1> QED
  <2>1. u \in Int
    BY <1>6
  <2> QED
    BY <1>7, <1>8, <2>1

\* A complete label of a series within the hour uses its last second.
EndsWithHour(l) == l # None => (l.status = "complete" => l.used[4] = Horizons[4])

LEMMA LabelEndsWithHour ==
  ASSUME NEW series, DOMAIN series \subseteq 0..Window
  PROVE  EndsWithHour(Label(series))
<1> SUFFICES ASSUME Label(series).status = "complete"
             PROVE  Label(series).used[4] = Horizons[4]
  BY DEF EndsWithHour
<1>1. Baseline(series) # None
  BY DEF Label, Unavailable
<1>2. Label(series).used[4] = Used(series, Horizons[4]) /\ Used(series, Horizons[4]) # None
  BY <1>1 DEF Label
<1>3. Horizons[4] = Window /\ Window \in Nat
  BY ResearchAssumption, HistoryAssumption
<1>4. DOMAIN series \subseteq Int
  BY <1>3
<1>5. Window \in DOMAIN series
  BY <1>2, <1>3, <1>4, UsedIsLast
<1> QED
  BY <1>2, <1>3, <1>4, <1>5, UsedIsLast

LEMMA LabelStatus ==
  ASSUME NEW series
  PROVE  Label(series).status \in {"complete", "partial", "missing"}
BY DEF Label, Unavailable

-----------------------------------------------------------------------------
(* Lines that are appended to a file.                                      *)

\* A line that is whole is text.
Lines(S) ==
    {line \in [txs : Seq(S) \ {<<>>}, whole : BOOLEAN, utf8 : BOOLEAN, ended : BOOLEAN] :
        line.whole => line.utf8}

\* A file as the tools leave it: only its last line may lack its end.
WellFormed(f, S) ==
    /\ f \in Seq(Lines(S))
    /\ \A i \in DOMAIN f : f[i].ended \/ i = Len(f)

\* g is f with lines of `txs` appended, one to a line; the first of them may
\* have continued the last line of f, which nobody can read then.
Appended(f, g, txs) ==
    \E m \in {Len(f), Len(f) + 1} :
        /\ m >= 1
        /\ Len(g) = m + Len(txs) - 1
        /\ \A i \in 1 .. m - 1 : g[i] = f[i]
        /\ \A i \in m .. Len(g) : Readable(g[i]) => g[i].txs = <<txs[i - m + 1]>>
        /\ m = Len(f) => m <= Len(g) /\ ~Readable(g[m])

LEMMA LineType ==
  ASSUME NEW S, NEW tx \in S
  PROVE  Line(tx) \in Lines(S) /\ Line(tx).txs = <<tx>> /\ Line(tx).ended = TRUE
<1>1. <<tx>> \in Seq(S) /\ <<tx>> # <<>>
  OBVIOUS
<1> QED
  BY <1>1 DEF Line, Lines

LEMMA AddLineType ==
  ASSUME NEW S, NEW f, WellFormed(f, S),
         NEW tx \in S, NEW line \in Lines(S), line.txs = <<tx>>
  PROVE  LET g == AddLine(f, line)
         IN  /\ WellFormed(g, S)
             /\ g # <<>> /\ g[Len(g)].ended = line.ended
             /\ Appended(f, g, <<tx>>)
             /\ f = <<>> \/ f[Len(f)].ended => Len(g) = Len(f) + 1
<1> DEFINE g == AddLine(f, line)
<1>0. f \in Seq(Lines(S)) /\ Len(f) \in Nat /\ DOMAIN f = 1 .. Len(f)
  BY LenProperties DEF WellFormed
<1>1. CASE f = <<>> \/ f[Len(f)].ended
  <2>1. g = Append(f, line)
    BY <1>1 DEF AddLine, Last
  <2>3. /\ g \in Seq(Lines(S)) /\ g # <<>> /\ Len(g) = Len(f) + 1
        /\ \A i \in 1 .. Len(f) : g[i] = f[i]
        /\ g[Len(f) + 1] = line
    BY <1>0, <2>1, AppendProperties
  <2>4. DOMAIN g = 1 .. Len(f) + 1
    BY <2>3, LenProperties
  <2>5. WellFormed(g, S)
    <3> SUFFICES ASSUME NEW i \in DOMAIN g, i # Len(g) PROVE g[i].ended
      BY <2>3 DEF WellFormed
    <3>1. i \in 1 .. Len(f) /\ g[i] = f[i]
      BY <1>0, <2>3, <2>4
    <3>2. CASE i = Len(f)
      BY <1>1, <1>0, <3>1, <3>2
    <3>3. CASE i # Len(f)
      BY <1>0, <3>1, <3>3 DEF WellFormed
    <3> QED
      BY <3>2, <3>3
  <2>6. Appended(f, g, <<tx>>)
    <3> DEFINE m == Len(f) + 1
    <3>1. m >= 1 /\ Len(g) = m + Len(<<tx>>) - 1
      BY <1>0, <2>3
    <3>2. \A i \in 1 .. m - 1 : g[i] = f[i]
      BY <1>0, <2>3
    <3>3. \A i \in m .. Len(g) : g[i].txs = <<(<<tx>>[i - m + 1])>>
      <4> SUFFICES ASSUME NEW i \in m .. Len(g) PROVE g[i].txs = <<(<<tx>>[i - m + 1])>>
        OBVIOUS
      <4>1. i = m
        BY <1>0, <2>3
      <4>2. i - m + 1 = 1
        BY <1>0, <4>1
      <4> QED
        BY <2>3, <4>1, <4>2
    <3>4. m # Len(f)
      <4>1. \A k \in Nat : k + 1 # k
        OBVIOUS
      <4> QED
        BY <1>0, <4>1
    <3> QED
      BY <3>1, <3>2, <3>3, <3>4 DEF Appended
  <2> QED
    BY <2>3, <2>5, <2>6
<1>2. CASE f # <<>> /\ ~f[Len(f)].ended
  <2> DEFINE old == f[Len(f)]
             both == [txs   |-> old.txs \o line.txs,
                      whole |-> old.whole /\ line.whole,
                      utf8  |-> old.utf8 /\ line.utf8,
                      ended |-> line.ended]
             rest == SubSeq(f, 1, Len(f) - 1)
  <2>1. g = Append(rest, both)
    BY <1>2 DEF AddLine, Last, Front
  <2>2. Len(f) >= 1 /\ Len(f) \in DOMAIN f /\ old \in Lines(S)
    BY <1>0, <1>2, EmptySeq, ElementOfSeq
  <2>3. /\ old.txs \in Seq(S) /\ Len(old.txs) \in Nat /\ Len(old.txs) # 0
        /\ old.whole \in BOOLEAN /\ old.utf8 \in BOOLEAN /\ (old.whole => old.utf8)
    BY <2>2, LenProperties, EmptySeq DEF Lines
  <2>4. /\ old.txs \o line.txs \in Seq(S) /\ old.txs \o line.txs # <<>>
        /\ Len(old.txs \o line.txs) = Len(old.txs) + 1
    <3>1. line.txs \in Seq(S) /\ Len(line.txs) = 1
      OBVIOUS
    <3>2. old.txs \o line.txs \in Seq(S) /\ Len(old.txs \o line.txs) = Len(old.txs) + Len(line.txs)
      BY <2>3, <3>1, ConcatProperties
    <3>3. Len(old.txs \o line.txs) # 0
      BY <2>3, <3>1, <3>2
    <3>4. old.txs \o line.txs # <<>>
      BY <3>3, Len(<<>>) = 0
    <3> QED
      BY <3>1, <3>2, <3>4
  <2>5. both \in Lines(S) /\ ~Readable(both)
    <3>1. /\ line.whole \in BOOLEAN /\ line.utf8 \in BOOLEAN /\ line.ended \in BOOLEAN
          /\ (line.whole => line.utf8)
      BY DEF Lines
    <3>2. both \in Lines(S)
      BY <2>3, <2>4, <3>1 DEF Lines
    <3>3. Len(both.txs) # 1
      BY <2>3, <2>4
    <3> QED
      BY <3>2, <3>3 DEF Readable
  <2>6. /\ rest \in Seq(Lines(S)) /\ Len(rest) = Len(f) - 1
        /\ \A i \in 1 .. Len(f) - 1 : rest[i] = f[i]
    <3>1. \A i \in 1 .. Len(f) - 1 : f[i] \in Lines(S)
      BY <1>0, ElementOfSeq
    <3>2. /\ rest \in Seq(Lines(S))
          /\ Len(rest) = IF 1 <= Len(f) - 1 THEN Len(f) - 1 - 1 + 1 ELSE 0
          /\ \A i \in 1 .. Len(f) - 1 - 1 + 1 : rest[i] = f[1 + i - 1]
      BY <1>0, <3>1, SubSeqProperties
    <3> QED
      BY <1>0, <2>2, <3>2
  <2>7. /\ g \in Seq(Lines(S)) /\ g # <<>> /\ Len(g) = Len(f)
        /\ \A i \in 1 .. Len(f) - 1 : g[i] = f[i]
        /\ g[Len(f)] = both
    <3>1. /\ g \in Seq(Lines(S)) /\ g # <<>> /\ Len(g) = Len(rest) + 1
          /\ \A i \in 1 .. Len(rest) : g[i] = rest[i]
          /\ g[Len(rest) + 1] = both
      BY <2>1, <2>5, <2>6, AppendProperties
    <3> QED
      BY <1>0, <2>2, <2>6, <3>1
  <2>8. WellFormed(g, S)
    <3> SUFFICES ASSUME NEW i \in DOMAIN g, i # Len(g) PROVE g[i].ended
      BY <2>7 DEF WellFormed
    <3>1. DOMAIN g = 1 .. Len(f)
      BY <2>7, LenProperties
    <3>2. i \in 1 .. Len(f) - 1 /\ g[i] = f[i]
      BY <1>0, <2>7, <3>1
    <3> QED
      BY <1>0, <3>2 DEF WellFormed
  <2>9. Appended(f, g, <<tx>>)
    <3> DEFINE m == Len(f)
    <3>1. m >= 1 /\ Len(g) = m + Len(<<tx>>) - 1 /\ m <= Len(g) /\ ~Readable(g[m])
      BY <1>0, <2>2, <2>5, <2>7
    <3>2. \A i \in 1 .. m - 1 : g[i] = f[i]
      BY <2>7
    <3>3. \A i \in m .. Len(g) : ~Readable(g[i])
      BY <1>0, <2>7, <3>1
    <3> QED
      BY <3>1, <3>2, <3>3 DEF Appended
  <2> QED
    BY <1>2, <2>7, <2>8, <2>9
<1> QED
  BY <1>1, <1>2

LEMMA AddLinesType ==
  ASSUME NEW S, NEW f, WellFormed(f, S), NEW txs \in Seq(S)
  PROVE  LET g == AddLines(f, txs)
         IN  /\ WellFormed(g, S)
             /\ Appended(f, g, txs)
             /\ txs # <<>> => g # <<>> /\ g[Len(g)].ended
<1> DEFINE g == AddLines(f, txs)
<1>0. /\ f \in Seq(Lines(S)) /\ Len(f) \in Nat /\ Len(txs) \in Nat
      /\ \A i \in 1 .. Len(txs) : txs[i] \in S
  BY LenProperties, ElementOfSeq DEF WellFormed
<1>1. CASE txs = <<>>
  <2>1. g = f
    BY <1>1 DEF AddLines
  <2>2. Appended(f, f, txs)
    <3> DEFINE m == Len(f) + 1
    <3>1. m >= 1 /\ Len(f) = m + Len(txs) - 1 /\ m # Len(f)
      BY <1>0, <1>1
    <3>2. \A i \in 1 .. m - 1 : f[i] = f[i]
      OBVIOUS
    <3>3. m .. Len(f) = {}
      BY <1>0
    <3> QED
      BY <3>1, <3>2, <3>3 DEF Appended
  <2> QED
    BY <1>1, <2>1, <2>2
<1>2. CASE txs # <<>>
  <2> DEFINE h      == AddLine(f, Line(Head(txs)))
             k      == Len(txs) - 1
             more   == [i \in 1 .. k |-> Line(txs[i + 1])]
  <2>1. g = h \o more
    BY <1>2 DEF AddLines
  <2>2. Len(txs) >= 1 /\ Head(txs) = txs[1] /\ Head(txs) \in S /\ k \in Nat
    <3>1. Len(txs) # 0 /\ Head(txs) \in S
      BY <1>2, EmptySeq, HeadTailProperties
    <3>2. Head(txs) = txs[1]
      OBVIOUS
    <3> QED
      BY <1>0, <3>1, <3>2
  <2>3. /\ WellFormed(h, S) /\ h # <<>> /\ h[Len(h)].ended = TRUE
        /\ Appended(f, h, <<Head(txs)>>)
    <3>1. /\ Line(Head(txs)) \in Lines(S) /\ Line(Head(txs)).txs = <<Head(txs)>>
          /\ Line(Head(txs)).ended = TRUE
      BY <2>2, LineType
    <3> QED
      BY <2>2, <3>1, AddLineType, ZenonT(60)
  <2>4. h \in Seq(Lines(S)) /\ Len(h) \in Nat /\ Len(h) >= 1 /\ DOMAIN h = 1 .. Len(h)
    <3> HIDE DEF g, h
    <3>1. h \in Seq(Lines(S)) /\ h # <<>>
      BY <2>3 DEF WellFormed
    <3>2. Len(h) \in Nat /\ DOMAIN h = 1 .. Len(h)
      BY <3>1, LenProperties
    <3>3. Len(h) # 0
      BY <3>1, EmptySeq
    <3> QED
      BY <3>1, <3>2, <3>3
  <2>5. more \in Seq(Lines(S)) /\ Len(more) = k
    <3>1. \A i \in 1 .. k : Line(txs[i + 1]) \in Lines(S)
      <4> SUFFICES ASSUME NEW i \in 1 .. k
                   PROVE  Line(txs[i + 1]) \in Lines(S)
        OBVIOUS
      <4>1. txs[i + 1] \in S
        BY <1>0, <2>2
      <4> QED
        BY <4>1, LineType
    <3>2. more \in [1 .. k -> Lines(S)]
      BY <3>1
    <3> HIDE DEF more
    <3> QED
      BY <2>2, <3>2
  <2>6. /\ g \in Seq(Lines(S)) /\ Len(g) = Len(h) + k
        /\ \A i \in 1 .. Len(h) + k : g[i] = IF i <= Len(h) THEN h[i] ELSE more[i - Len(h)]
    <3> HIDE DEF g, h, more, k
    <3>1. /\ Len(h \o more) = Len(h) + Len(more)
          /\ h \o more \in Seq(Lines(S))
          /\ \A i \in 1 .. Len(h) + Len(more) :
                (h \o more)[i] = IF i <= Len(h) THEN h[i] ELSE more[i - Len(h)]
      BY <2>4, <2>5, ConcatProperties
    <3> QED
      BY <2>1, <2>5, <3>1
  <2>7. \A i \in Len(h) + 1 .. Len(g) : g[i] = Line(txs[i - Len(h) + 1])
    <3> SUFFICES ASSUME NEW i \in Len(h) + 1 .. Len(g)
                 PROVE  g[i] = Line(txs[i - Len(h) + 1])
      OBVIOUS
    <3> HIDE DEF g, h
    <3>1. i - Len(h) \in 1 .. k
      BY <2>2, <2>4, <2>6
    <3>2. g[i] = more[i - Len(h)]
      <4> HIDE DEF more, k
      <4> QED
        BY <2>2, <2>4, <2>6
    <3> QED
      BY <3>1, <3>2
  <2> HIDE DEF g, h, more
  <2>7a. \A i \in Len(h) + 1 .. Len(g) : g[i].ended /\ g[i].txs = <<txs[i - Len(h) + 1]>>
    <3> SUFFICES ASSUME NEW i \in Len(h) + 1 .. Len(g)
                 PROVE  g[i].ended /\ g[i].txs = <<txs[i - Len(h) + 1]>>
      OBVIOUS
    <3>1. g[i] = Line(txs[i - Len(h) + 1])
      BY <2>7
    <3> QED
      BY <3>1 DEF Line
  <2>8. WellFormed(g, S)
    <3> SUFFICES ASSUME NEW i \in DOMAIN g, i # Len(g) PROVE g[i].ended
      BY <2>6 DEF WellFormed
    <3>1. i \in 1 .. Len(g)
      BY <2>6, LenProperties
    <3>2. CASE i <= Len(h)
      <4>1. i \in DOMAIN h /\ g[i] = h[i]
        BY <2>2, <2>4, <2>6, <3>1, <3>2
      <4> QED
        BY <2>3, <2>4, <4>1 DEF WellFormed
    <3>3. CASE ~(i <= Len(h))
      <4>1. i \in Len(h) + 1 .. Len(g)
        BY <2>4, <3>1, <3>3
      <4> QED
        BY <2>7a, <4>1
    <3> QED
      BY <3>2, <3>3
  <2>9. Appended(f, g, txs)
    <3>1. PICK m \in {Len(f), Len(f) + 1} :
            /\ m >= 1
            /\ Len(h) = m + Len(<<Head(txs)>>) - 1
            /\ \A i \in 1 .. m - 1 : h[i] = f[i]
            /\ \A i \in m .. Len(h) : Readable(h[i]) => h[i].txs = <<(<<Head(txs)>>[i - m + 1])>>
            /\ m = Len(f) => m <= Len(h) /\ ~Readable(h[m])
      BY <2>3 DEF Appended
    <3>2. m \in Nat /\ Len(h) = m
      BY <1>0, <3>1
    <3>3. Len(g) = m + Len(txs) - 1 /\ m <= Len(g)
      BY <1>0, <2>2, <2>6, <3>2
    <3>4. \A i \in 1 .. m : g[i] = h[i]
      BY <2>2, <2>6, <3>2
    <3>5. \A i \in m .. Len(g) : Readable(g[i]) => g[i].txs = <<txs[i - m + 1]>>
      <4> SUFFICES ASSUME NEW i \in m .. Len(g), Readable(g[i])
                   PROVE  g[i].txs = <<txs[i - m + 1]>>
        OBVIOUS
      <4>1. CASE i = m
        <5>1. g[i] = h[m] /\ m - m + 1 = 1
          BY <3>1, <3>2, <3>4, <4>1
        <5>2. h[m].txs = <<(<<Head(txs)>>[m - m + 1])>>
          BY <3>1, <3>2, <4>1, <5>1
        <5>3. <<Head(txs)>>[1] = txs[1]
          BY <2>2
        <5> QED
          BY <4>1, <5>1, <5>2, <5>3
      <4>2. CASE i # m
        <5>1. i \in Len(h) + 1 .. Len(g)
          BY <3>2, <4>2
        <5> QED
          BY <2>7a, <3>2, <5>1
      <4> QED
        BY <4>1, <4>2
    <3>6. \A i \in 1 .. m - 1 : g[i] = f[i]
      BY <3>1, <3>2, <3>4
    <3>7. m = Len(f) => m <= Len(g) /\ ~Readable(g[m])
      BY <3>1, <3>2, <3>3, <3>4
    <3> QED
      BY <3>1, <3>3, <3>5, <3>6, <3>7 DEF Appended
  <2>10. g # <<>> /\ g[Len(g)].ended
    <3>1. Len(g) >= 1
      BY <2>2, <2>4, <2>6
    <3>2. g # <<>>
      BY <3>1
    <3>3. CASE Len(g) = Len(h)
      <4>1. g[Len(g)] = h[Len(h)]
        BY <2>2, <2>4, <2>6, <3>3
      <4> QED
        BY <2>3, <3>2, <4>1
    <3>4. CASE Len(g) # Len(h)
      <4>1. Len(g) \in Len(h) + 1 .. Len(g)
        BY <2>2, <2>4, <2>6, <3>4
      <4> QED
        BY <2>7a, <3>2, <4>1
    <3> QED
      BY <3>3, <3>4
  <2> QED
    BY <2>8, <2>9, <2>10 DEF g
<1> QED
  BY <1>1, <1>2

\* As Appended, when the writing stopped early.
Begun(f, g, txs) ==
    \E m \in {Len(f), Len(f) + 1} :
        /\ Len(g) <= m + Len(txs) - 1
        /\ \A i \in 1 .. m - 1 : g[i] = f[i]
        /\ \A i \in m .. Len(g) : Readable(g[i]) => g[i].txs = <<txs[i - m + 1]>>

\* The length of a file with k - 1 lines more, the first of them in line m of
\* the file, and of a file with one line more.
LEMMA CutLengths ==
  ASSUME NEW m \in Nat, NEW k \in Nat, k >= 1, k - 1 # 0
  PROVE  /\ m + (k - 1) - 1 = m + k - 2
         /\ m + k - 2 + 1 = m + k - 1
         /\ m - 1 <= m + k - 2
         /\ k - 1 >= 1
OBVIOUS

LEMMA NumberOrNext ==
  ASSUME NEW l \in Nat
  PROVE  {l, l + 1} \subseteq Nat
OBVIOUS

LEMMA CutPositions ==
  ASSUME NEW m \in Nat, NEW k \in Nat, NEW lh \in Nat, NEW lg \in Nat, m >= 1,
         m - 1 <= lh, lh = m + k - 2, lg = m + k - 1, k - 1 >= 1
  PROVE  /\ lg - m + 1 = k
         /\ 1 .. m - 1 \subseteq 1 .. lh
         /\ \A i \in m .. lg : i # lg => i \in m .. lh /\ i \in 1 .. lh /\ i - m + 1 \in 1 .. k - 1
         /\ \A l \in Nat : k <= l => lg <= m + l - 1
OBVIOUS

LEMMA CutLineType ==
  ASSUME NEW S, NEW f, WellFormed(f, S), NEW txs \in Seq(S), NEW k \in DOMAIN txs,
         NEW line \in Lines(S), line.txs = <<txs[k]>>
  PROVE  LET g == AddLine(AddLines(f, SubSeq(txs, 1, k - 1)), line)
         IN  WellFormed(g, S) /\ Begun(f, g, txs)
<1> DEFINE part == SubSeq(txs, 1, k - 1)
           h    == AddLines(f, part)
           g    == AddLine(h, line)
<1>1. k \in 1 .. Len(txs) /\ Len(txs) \in Nat /\ txs[k] \in S /\ \A i \in 1 .. Len(txs) : txs[i] \in S
  BY LenProperties, ElementOfSeq
<1>2. /\ part \in Seq(S) /\ Len(part) = k - 1
      /\ \A i \in 1 .. k - 1 : part[i] = txs[i]
  <2>1. k - 1 \in Int /\ \A i \in 1 .. k - 1 : txs[i] \in S
    BY <1>1
  <2>2. /\ part \in Seq(S)
        /\ Len(part) = IF 1 <= k - 1 THEN k - 1 - 1 + 1 ELSE 0
        /\ \A i \in 1 .. k - 1 - 1 + 1 : part[i] = txs[1 + i - 1]
    BY <2>1, SubSeqProperties
  <2> QED
    BY <1>1, <2>2
<1> HIDE DEF part
<1>3. /\ WellFormed(h, S) /\ Appended(f, h, part)
      /\ part # <<>> => h # <<>> /\ h[Len(h)].ended
  BY <1>2, AddLinesType
<1>4. part = <<>> => h = f
  BY DEF AddLines
<1> HIDE DEF h
<1>5. /\ WellFormed(g, S) /\ Appended(h, g, <<txs[k]>>)
      /\ h = <<>> \/ h[Len(h)].ended => Len(g) = Len(h) + 1
  BY <1>1, <1>3, AddLineType
<1> HIDE DEF g
<1>6. Len(f) \in Nat /\ Len(h) \in Nat /\ Len(g) \in Nat
  BY <1>3, <1>5, LenProperties DEF WellFormed
<1>7. Begun(f, g, txs)
  <2>1. PICK n \in {Len(h), Len(h) + 1} :
          /\ n >= 1
          /\ Len(g) = n + Len(<<txs[k]>>) - 1
          /\ \A i \in 1 .. n - 1 : g[i] = h[i]
          /\ \A i \in n .. Len(g) : Readable(g[i]) => g[i].txs = <<(<<txs[k]>>[i - n + 1])>>
    BY <1>5 DEF Appended
  <2>2. n \in Nat /\ Len(g) = n
    BY <1>6, <2>1
  <2>3. Readable(g[n]) => g[n].txs = <<txs[k]>>
    <3>1. n \in n .. Len(g) /\ n - n + 1 = 1
      BY <2>2
    <3>2. Readable(g[n]) => g[n].txs = <<(<<txs[k]>>[n - n + 1])>>
      BY <2>1, <3>1
    <3>3. <<txs[k]>>[1] = txs[k]
      OBVIOUS
    <3> QED
      BY <3>1, <3>2, <3>3
  <2>4. CASE part = <<>>
    <3>1. h = f /\ k = 1
      BY <1>1, <1>2, <1>4, <2>4
    <3>2. Len(g) <= n + Len(txs) - 1
      BY <1>1, <2>2
    <3>3. \A i \in n .. Len(g) : Readable(g[i]) => g[i].txs = <<txs[i - n + 1]>>
      <4> SUFFICES ASSUME NEW i \in n .. Len(g), Readable(g[i])
                   PROVE  g[i].txs = <<txs[i - n + 1]>>
        OBVIOUS
      <4>1. i = n /\ i - n + 1 = 1
        BY <2>2
      <4> QED
        BY <2>3, <3>1, <4>1
    <3> QED
      BY <2>1, <3>1, <3>2, <3>3 DEF Begun
  <2>5. CASE part # <<>>
    <3>1. n = Len(h) + 1
      BY <1>3, <1>5, <2>2, <2>5
    <3>2. PICK m \in {Len(f), Len(f) + 1} :
            /\ m >= 1
            /\ Len(h) = m + Len(part) - 1
            /\ \A i \in 1 .. m - 1 : h[i] = f[i]
            /\ \A i \in m .. Len(h) : Readable(h[i]) => h[i].txs = <<part[i - m + 1]>>
      BY <1>3 DEF Appended
    <3>3. /\ m \in Nat /\ m >= 1 /\ m - 1 <= Len(h)
          /\ Len(h) = m + k - 2 /\ Len(g) = m + k - 1 /\ k - 1 >= 1
      <4>1. Len(part) # 0 /\ Len(part) = k - 1
        BY <1>2, <2>5, EmptySeq
      <4>2. k \in Nat /\ k >= 1
        BY <1>1
      <4>3. Len(g) = Len(h) + 1
        BY <2>2, <3>1, Zenon
      <4>4. m \in {Len(f), Len(f) + 1} /\ m >= 1 /\ Len(h) = m + Len(part) - 1
        BY <3>2, Zenon
      <4>5. m \in Nat
        BY <1>6, <4>4, NumberOrNext, Zenon
      <4>6. k - 1 # 0
        BY <4>1, Zenon
      <4>7. /\ m + (k - 1) - 1 = m + k - 2 /\ m + k - 2 + 1 = m + k - 1
            /\ m - 1 <= m + k - 2 /\ k - 1 >= 1
        BY <4>2, <4>5, <4>6, CutLengths, Zenon
      <4>8. Len(h) = m + k - 2
        BY <4>1, <4>4, <4>7, Zenon
      <4>9. Len(g) = m + k - 1
        BY <4>3, <4>7, <4>8, Zenon
      <4> QED
        BY <4>4, <4>5, <4>7, <4>8, <4>9, Zenon
    <3>3a. k \in Nat /\ k <= Len(txs) /\ n - 1 = Len(h)
      BY <1>1, <1>6, <3>1
    <3>3b. /\ Len(g) - m + 1 = k
           /\ 1 .. m - 1 \subseteq 1 .. Len(h)
           /\ \A i \in m .. Len(g) : i # Len(g) =>
                i \in m .. Len(h) /\ i \in 1 .. Len(h) /\ i - m + 1 \in 1 .. k - 1
           /\ \A l \in Nat : k <= l => Len(g) <= m + l - 1
      BY <1>6, <3>3, <3>3a, CutPositions, Zenon
    <3>3c. \A i \in 1 .. Len(h) : g[i] = h[i]
      BY <2>1, <3>3a, Zenon
    <3>4. Len(g) <= m + Len(txs) - 1
      BY <1>1, <3>3a, <3>3b, Zenon
    <3>5. \A i \in 1 .. m - 1 : g[i] = f[i]
      BY <3>2, <3>3b, <3>3c, Zenon
    <3>6. \A i \in m .. Len(g) : Readable(g[i]) => g[i].txs = <<txs[i - m + 1]>>
      <4> SUFFICES ASSUME NEW i \in m .. Len(g), Readable(g[i])
                   PROVE  g[i].txs = <<txs[i - m + 1]>>
        OBVIOUS
      <4>1. CASE i = Len(g)
        <5>1. i - m + 1 = k
          BY <3>3b, <4>1, Zenon
        <5> QED
          BY <2>2, <2>3, <4>1, <5>1
      <4>2. CASE i # Len(g)
        <5>1. i \in m .. Len(h) /\ i \in 1 .. Len(h) /\ i - m + 1 \in 1 .. k - 1
          BY <3>3b, <4>2, Zenon
        <5>2. g[i] = h[i]
          BY <3>3c, <5>1, Zenon
        <5> QED
          BY <1>2, <3>2, <5>1, <5>2
      <4> QED
        BY <4>1, <4>2
    <3> QED
      BY <3>4, <3>5, <3>6 DEF Begun
  <2> QED
    BY <2>4, <2>5
<1> QED
  BY <1>5, <1>7 DEF g, h, part

LEMMA AppendedIsBegun ==
  ASSUME NEW f, NEW g, NEW txs, Appended(f, g, txs), Len(f) \in Nat, Len(txs) \in Nat
  PROVE  Begun(f, g, txs)
<1>1. PICK m \in {Len(f), Len(f) + 1} :
        /\ Len(g) = m + Len(txs) - 1
        /\ \A i \in 1 .. m - 1 : g[i] = f[i]
        /\ \A i \in m .. Len(g) : Readable(g[i]) => g[i].txs = <<txs[i - m + 1]>>
  BY DEF Appended
<1>2. Len(g) <= m + Len(txs) - 1
  BY <1>1
<1> QED
  BY <1>1, <1>2 DEF Begun

\* The transactions that a run finds in f, and that two lines that can be read
\* hold the same one only behind a line that is not text.
In(f) == {f[i].txs[1] : i \in {j \in Reached(f) : Readable(f[j])}}

Single(f) ==
    \A i, j \in DOMAIN f :
        i < j /\ Readable(f[i]) /\ Readable(f[j]) /\ f[i].txs = f[j].txs
            => \E k \in 1..i : ~f[k].utf8

\* Transactions of which none is in f or comes twice.
Fresh(txs, f) ==
    /\ \A i, j \in DOMAIN txs : txs[i] = txs[j] => i = j
    /\ \A i \in DOMAIN txs : txs[i] \notin In(f)

LEMMA PositionBefore ==
  ASSUME NEW lf \in Nat, NEW m \in Nat, m - 1 <= lf, NEW i \in Int, 1 <= i, i < m
  PROVE  i \in 1 .. m - 1 /\ i \in 1 .. lf
OBVIOUS

LEMMA PositionBehind ==
  ASSUME NEW lg \in Nat, NEW lt \in Nat, NEW m \in Nat, lg <= m + lt - 1,
         NEW i \in Int, i <= lg, m <= i
  PROVE  i \in m .. lg /\ i - m + 1 \in 1 .. lt
OBVIOUS

LEMMA PositionsEqual ==
  ASSUME NEW m \in Nat, NEW i \in Int, NEW j \in Int, i - m + 1 = j - m + 1
  PROVE  i = j
OBVIOUS

LEMMA SingleIsKept ==
  ASSUME NEW S, NEW f, NEW g, NEW txs \in Seq(S),
         WellFormed(f, S), WellFormed(g, S), Begun(f, g, txs), Single(f),
         Fresh(txs, f)
  PROVE  Single(g)
<1> SUFFICES ASSUME NEW i \in DOMAIN g, NEW j \in DOMAIN g, i < j,
                    Readable(g[i]), Readable(g[j]), g[i].txs = g[j].txs
             PROVE  \E k \in 1..i : ~g[k].utf8
  BY DEF Single
<1>0. /\ Len(f) \in Nat /\ Len(g) \in Nat /\ Len(txs) \in Nat
      /\ DOMAIN f = 1 .. Len(f) /\ DOMAIN g = 1 .. Len(g) /\ DOMAIN txs = 1 .. Len(txs)
  BY LenProperties DEF WellFormed
<1>1. PICK m \in {Len(f), Len(f) + 1} :
        /\ Len(g) <= m + Len(txs) - 1
        /\ \A x \in 1 .. m - 1 : g[x] = f[x]
        /\ \A x \in m .. Len(g) : Readable(g[x]) => g[x].txs = <<txs[x - m + 1]>>
  BY DEF Begun
<1>2a. m \in {Len(f), Len(f) + 1} /\ Len(g) <= m + Len(txs) - 1
  BY <1>1, Zenon
<1>2b. \A l \in Nat : \A k \in {l, l + 1} : k \in Nat /\ k - 1 <= l
  OBVIOUS
<1>2c. \A l \in Nat : \A k \in 1 .. l : k \in Int /\ 1 <= k /\ k <= l
  OBVIOUS
<1>2. /\ m \in Nat /\ m - 1 <= Len(f) /\ Len(g) <= m + Len(txs) - 1
      /\ i \in Int /\ 1 <= i /\ i <= Len(g)
      /\ j \in Int /\ 1 <= j /\ j <= Len(g)
  BY <1>0, <1>2a, <1>2b, <1>2c, Zenon
<1>3. CASE i < m /\ j < m
  <2>1. /\ i \in 1 .. m - 1 /\ j \in 1 .. m - 1
        /\ i \in DOMAIN f /\ j \in DOMAIN f
    BY <1>0, <1>2, <1>3, PositionBefore, Zenon
  <2>2. g[i] = f[i] /\ g[j] = f[j]
    BY <1>1, <2>1
  <2>3. PICK k \in 1..i : ~f[k].utf8
    BY <2>1, <2>2 DEF Single
  <2>4. k \in 1 .. m - 1
    BY <1>2, <1>3
  <2>5. g[k] = f[k]
    BY <1>1, <2>4
  <2> QED
    BY <2>3, <2>5
<1>4. CASE i < m /\ m <= j
  <2>1. i \in 1 .. m - 1 /\ i \in DOMAIN f /\ j \in m .. Len(g) /\ j - m + 1 \in DOMAIN txs
    BY <1>0, <1>2, <1>4, PositionBefore, PositionBehind, Zenon
  <2>2. g[i] = f[i] /\ g[j].txs = <<txs[j - m + 1]>>
    BY <1>1, <2>1
  <2> SUFFICES ASSUME \A k \in 1..i : g[k].utf8 PROVE FALSE
    OBVIOUS
  <2>3. \A k \in 1..i : f[k].utf8
    <3> SUFFICES ASSUME NEW k \in 1..i PROVE f[k].utf8
      OBVIOUS
    <3>1. k \in 1 .. m - 1
      BY <1>2, <1>4
    <3> QED
      BY <1>1, <3>1
  <2>4. f[i].txs[1] \in In(f)
    BY <2>1, <2>2, <2>3 DEF In, Reached
  <2>5. f[i].txs[1] = txs[j - m + 1]
    BY <2>2
  <2> QED
    BY <2>1, <2>4, <2>5 DEF Fresh
<1>5. CASE m <= i /\ m <= j
  <2>1. /\ i \in m .. Len(g) /\ i - m + 1 \in DOMAIN txs
        /\ j \in m .. Len(g) /\ j - m + 1 \in DOMAIN txs
    BY <1>0, <1>2, <1>5, PositionBehind, Zenon
  <2>2. g[i].txs = <<txs[i - m + 1]>> /\ g[j].txs = <<txs[j - m + 1]>>
    BY <1>1, <2>1
  <2>3. txs[i - m + 1] = txs[j - m + 1]
    <3>1. \A x, y : <<x>> = <<y>> => x = y
      OBVIOUS
    <3>2. <<txs[i - m + 1]>> = <<txs[j - m + 1]>>
      BY <2>2, Zenon
    <3> QED
      BY <3>1, <3>2, Zenon
  <2>4. i - m + 1 = j - m + 1
    <3>1. \A x, y \in DOMAIN txs : txs[x] = txs[y] => x = y
      BY DEF Fresh
    <3> DEFINE x == i - m + 1
               y == j - m + 1
    <3>2. x \in DOMAIN txs /\ y \in DOMAIN txs /\ txs[x] = txs[y]
      BY <2>1, <2>3, Zenon
    <3> HIDE DEF x, y
    <3>3. x = y
      BY <3>1, <3>2, Zenon
    <3> QED
      BY <3>3 DEF x, y
  <2>5. i = j
    BY <1>2, <2>4, PositionsEqual, Zenon
  <2>6. \A x \in Int : ~(x < x)
    OBVIOUS
  <2> QED
    BY <1>2, <2>5, <2>6, Zenon
<1>6. \/ i < m /\ j < m
      \/ i < m /\ m <= j
      \/ m <= i /\ m <= j
  BY <1>2
<1> QED
  BY <1>3, <1>4, <1>5, <1>6

LEMMA AllIsKept ==
  ASSUME NEW S, NEW f, NEW g, NEW txs \in Seq(S),
         WellFormed(f, S), WellFormed(g, S), Appended(f, g, txs),
         \A i \in DOMAIN g : Readable(g[i])
  PROVE  /\ In(f) \subseteq In(g)
         /\ \A i \in DOMAIN txs : txs[i] \in In(g)
<1>0. /\ Len(f) \in Nat /\ Len(g) \in Nat /\ Len(txs) \in Nat
      /\ DOMAIN f = 1 .. Len(f) /\ DOMAIN g = 1 .. Len(g) /\ DOMAIN txs = 1 .. Len(txs)
  BY LenProperties DEF WellFormed
<1>1. PICK m \in {Len(f), Len(f) + 1} :
        /\ m >= 1
        /\ Len(g) = m + Len(txs) - 1
        /\ \A x \in 1 .. m - 1 : g[x] = f[x]
        /\ \A x \in m .. Len(g) : Readable(g[x]) => g[x].txs = <<txs[x - m + 1]>>
        /\ m = Len(f) => m <= Len(g) /\ ~Readable(g[m])
  BY DEF Appended
<1>2. m = Len(f) + 1 /\ Len(g) = Len(f) + Len(txs)
  BY <1>0, <1>1
<1>2a. Reached(g) = DOMAIN g
  <2> SUFFICES ASSUME NEW i \in DOMAIN g, NEW k \in 1..i PROVE g[k].utf8
    BY DEF Reached
  <2>1. k \in DOMAIN g
    BY <1>0
  <2>2. g[k] \in Lines(S) /\ g[k].whole
    BY <2>1, ElementOfSeq, LenProperties DEF WellFormed, Readable
  <2> QED
    BY <2>2 DEF Lines
<1>3. In(f) \subseteq In(g)
  <2> SUFFICES ASSUME NEW i \in Reached(f), Readable(f[i])
               PROVE  f[i].txs[1] \in In(g)
    BY DEF In
  <2>1. i \in 1 .. m - 1 /\ i \in DOMAIN g
    BY <1>0, <1>2 DEF Reached
  <2>2. g[i] = f[i]
    BY <1>1, <2>1
  <2> QED
    BY <1>2a, <2>1, <2>2 DEF In
<1>4. ASSUME NEW i \in DOMAIN txs PROVE txs[i] \in In(g)
  <2> DEFINE j == m + i - 1
  <2>1. j \in m .. Len(g) /\ j \in DOMAIN g /\ j - m + 1 = i
    BY <1>0, <1>2
  <2> HIDE DEF j
  <2>2. Readable(g[j]) /\ g[j].txs = <<txs[i]>>
    BY <1>1, <2>1
  <2>3. g[j].txs[1] = txs[i]
    BY <2>2
  <2> QED
    BY <1>2a, <2>1, <2>2, <2>3 DEF In
<1> QED
  BY <1>3, <1>4
-----------------------------------------------------------------------------
(* The inductive invariant.                                                *)

\* The positions of the list that belong to the hour, and their signatures.
InHour == {i \in DOMAIN history : InWindow(history[i])}

HourSigs == {history[i].sig : i \in InHour}

RunTypes ==
    /\ history \in Histories
    /\ pc \in {"idle", "paging", "fetching"}
    /\ exit \in {"none", "success", "failure", "died"}
    /\ run \in [pages : 0..MaxPages, listed : 0..Len(history), selected : SUBSET InHour,
                todo : SUBSET InHour, lines : Seq(HourSigs), boundary : BOOLEAN,
                failures : Nat, missing : SUBSET HourSigs]
    /\ run.todo \subseteq run.selected
    /\ pc = "paging" => run.pages < MaxPages /\ run.lines = <<>> /\ run.todo = {}
    /\ WellFormed(file, HourSigs)

\* What was selected, and that a run at the boundary has listed all that is due.
Listing ==
    /\ run.selected = {i \in InHour : i <= run.listed}
    /\ run.boundary => \A i \in InHour : Time(i) > 0 => i <= run.listed

\* Where the transactions are that were dealt with.
Fetching ==
    pc = "fetching" =>
        /\ Fresh(run.lines, file)
        /\ \A k \in DOMAIN run.lines :
            \E i \in run.selected \ run.todo : run.lines[k] = history[i].sig
        /\ run.failures = 0 =>
            \A i \in run.selected \ run.todo :
                history[i].sig \in In(file) \cup ToSet(run.lines) \cup run.missing

Succeeded ==
    exit = "success" =>
        /\ pc = "idle" /\ run.boundary
        /\ Accepted => \A i \in run.selected : history[i].sig \in In(file) \cup run.missing

HistInv == RunTypes /\ Listing /\ Fetching /\ Succeeded /\ Single(file)

\* The cache, and the label that was made of it.
CacheInv ==
    /\ torn \in BOOLEAN /\ fetched \in BOOLEAN
    /\ IsSeries(cache)
    /\ label # None => label.status \in {"complete", "partial", "missing"}
    /\ fetched => DOMAIN cache \subseteq 0..Window /\ EndsWithHour(label)

RunRecord == [pages : 0..MaxPages, listed : 0..Len(history), selected : SUBSET InHour,
              todo : SUBSET InHour, lines : Seq(HourSigs), boundary : BOOLEAN,
              failures : Nat, missing : SUBSET HourSigs]

\* The endpoint's list.
LEMMA ListFacts ==
  ASSUME history \in Histories
  PROVE  /\ Len(history) \in Nat /\ DOMAIN history = 1 .. Len(history)
         /\ InHour \subseteq Nat
         /\ \A i \in DOMAIN history : history[i].sig \in Sig
         /\ HourSigs \subseteq Sig
         /\ \A i \in InHour : Time(i) \in 0..Window
         /\ \A i, j \in DOMAIN history : history[i].sig = history[j].sig => i = j
         /\ \A i, j \in DOMAIN history :
                i < j /\ Time(i) # NoTime /\ Time(j) # NoTime => Time(i) >= Time(j)
         /\ \A i \in DOMAIN history : Time(i) # NoTime => Time(i) \in Int
<1>1. /\ history \in Seq([sig : Sig, time : Int \cup {NoTime}])
      /\ \A i, j \in DOMAIN history : i < j =>
            /\ history[i].sig # history[j].sig
            /\ NoTime \notin {history[i].time, history[j].time} =>
                    history[i].time >= history[j].time
  BY HistoryAssumption
<1>2. Len(history) \in Nat /\ DOMAIN history = 1 .. Len(history)
  BY <1>1, LenProperties
<1>3. \A i \in DOMAIN history : history[i].sig \in Sig /\ history[i].time \in Int \cup {NoTime}
  <2> DEFINE T == Int \cup {NoTime}
             Row == [sig : Sig, time : T]
  <2>1. \A row \in Row : row.sig \in Sig /\ row.time \in T
    OBVIOUS
  <2>2. \A i \in DOMAIN history : history[i] \in Row
    <3> HIDE DEF Row
    <3>1. history \in Seq(Row)
      BY <1>1 DEF Row, T
    <3> QED
      BY <1>2, <3>1, ElementOfSeq, Zenon
  <2> HIDE DEF Row
  <2> QED
    BY <2>1, <2>2, Zenon DEF T
<1>4. InHour \subseteq DOMAIN history /\ InHour \subseteq Nat
  BY <1>2 DEF InHour
<1>5. \A i \in DOMAIN history : Time(i) # NoTime => Time(i) \in Int
  BY <1>3 DEF Time
<1>6. \A i \in InHour : Time(i) \in 0..Window
  <2>1. Window \in Nat
    BY HistoryAssumption
  <2> QED
    BY <1>5, <2>1 DEF InHour, InWindow, Time
<1>7. \A i, j \in DOMAIN history : history[i].sig = history[j].sig => i = j
  <2> SUFFICES ASSUME NEW i \in DOMAIN history, NEW j \in DOMAIN history,
                      history[i].sig = history[j].sig
               PROVE  i = j
    OBVIOUS
  <2>1. ~(i < j) /\ ~(j < i)
    BY <1>1
  <2> QED
    BY <1>2, <2>1
<1>8. \A i, j \in DOMAIN history :
        i < j /\ Time(i) # NoTime /\ Time(j) # NoTime => Time(i) >= Time(j)
  BY <1>1 DEF Time
<1>9. HourSigs \subseteq Sig
  BY <1>3, <1>4 DEF HourSigs
<1> QED
  BY <1>2, <1>3, <1>4, <1>5, <1>6, <1>7, <1>8, <1>9

LEMMA NewRunType ==
  ASSUME history \in Histories
  PROVE  NewRun \in RunRecord
<1>1. Len(history) \in Nat /\ MaxPages \in Nat
  BY ListFacts, HistoryAssumption
<1>2. <<>> \in Seq(HourSigs)
  BY EmptySeq
<1>3. 0 \in 0 .. MaxPages /\ 0 \in 0 .. Len(history)
  BY <1>1
<1> QED
  BY <1>2, <1>3 DEF NewRun, RunRecord

LEMMA HistInvInit == HistInit => HistInv
<1> SUFFICES ASSUME HistInit PROVE HistInv
  OBVIOUS
<1>1. history \in Histories /\ file = <<>> /\ pc = "idle" /\ run = NewRun /\ exit = "none"
  BY DEF HistInit
<1>2. WellFormed(file, HourSigs)
  <2>1. <<>> \in Seq(Lines(HourSigs))
    BY EmptySeq
  <2> QED
    BY <1>1, <2>1 DEF WellFormed
<1>3. run \in RunRecord /\ run.todo = {} /\ run.selected = {} /\ run.boundary = FALSE /\ run.listed = 0
  BY <1>1, NewRunType DEF NewRun
<1>4. RunTypes
  BY <1>1, <1>2, <1>3 DEF RunTypes, RunRecord
<1>5. Listing
  <2>1. \A i \in InHour : i >= 1
    BY <1>1, ListFacts DEF InHour
  <2> QED
    BY <1>3, <2>1, <1>1, ListFacts DEF Listing
<1>6. Single(file)
  BY <1>1 DEF Single
<1> QED
  BY <1>1, <1>4, <1>5, <1>6 DEF HistInv, Fetching, Succeeded

-----------------------------------------------------------------------------
(* The steps of a run.                                                     *)

\* What the other commands do to a run: nothing.
LEMMA HistInvStutter ==
  ASSUME HistInv, UNCHANGED <<history, file, pc, run, exit>>
  PROVE  HistInv'
BY DEF HistInv, RunTypes, Listing, Fetching, Succeeded, Accepted, InHour, HourSigs, Time

\* The list does not change, nor does what is derived from it.
LEMMA SameList ==
  ASSUME UNCHANGED history
  PROVE  /\ InHour' = InHour /\ HourSigs' = HourSigs
         /\ \A i : Time(i)' = Time(i)
         /\ \A i : (history[i])' = history[i]
         /\ RunRecord' = RunRecord
BY DEF InHour, HourSigs, Time, RunRecord

LEMMA HistInvStart ==
  ASSUME HistInv, Start
  PROVE  HistInv'
<1>1. /\ history' = history /\ file' = file /\ pc' = "paging" /\ run' = NewRun /\ exit' = "none"
      /\ history \in Histories
  BY DEF Start, HistInv, RunTypes
<1>2. /\ run' \in RunRecord
      /\ run'.todo = {} /\ run'.selected = {} /\ run'.boundary = FALSE /\ run'.listed = 0
      /\ run'.pages = 0 /\ run'.lines = <<>>
  BY <1>1, NewRunType DEF NewRun
<1>3. InHour' = InHour /\ HourSigs' = HourSigs
  BY <1>1, SameList
<1>4. MaxPages > 0
  BY HistoryAssumption
<1>5. RunTypes'
  BY <1>1, <1>2, <1>3, <1>4 DEF RunTypes, RunRecord, HistInv
<1>6. Listing'
  <2>1. \A i \in InHour : i >= 1
    BY <1>1, ListFacts DEF InHour
  <2> QED
    BY <1>1, <1>2, <1>3, <2>1, ListFacts DEF Listing
<1> QED
  BY <1>1, <1>5, <1>6 DEF HistInv, Fetching, Succeeded

\* The positions of a page, between the cursor before it and the one after.
LEMMA PageRange ==
  ASSUME NEW n \in Nat, NEW l \in 0..n, NEW u \in Nat, l <= u, u <= n
  PROVE  /\ l + 1 .. u \subseteq 1 .. n
         /\ \A i \in 1 .. n : i <= u <=> i <= l \/ i \in l + 1 .. u
         /\ \A i \in l + 1 .. u : i \in Nat /\ i <= u
         /\ l + 1 .. u = {} => u = l
OBVIOUS

LEMMA FirstPosition ==
  ASSUME NEW n \in Nat, NEW p \in Nat, p > 0, NEW l \in 0..n, NEW u \in Nat,
         u = l + p \/ u = n, u = l
  PROVE  u = n
OBVIOUS

LEMMA HistInvPage ==
  ASSUME HistInv, Page
  PROVE  HistInv'
<1> DEFINE upto == Min({run.listed + PageSize, Len(history)})
           page == run.listed + 1 .. upto
           all  == run.selected \cup {i \in page : InWindow(history[i])}
<1>1. /\ pc = "paging" /\ history' = history /\ file' = file /\ exit' = exit
      /\ run' = [run EXCEPT !.pages = @ + 1, !.listed = upto, !.selected = all,
                            !.boundary = AtBoundary(page),
                            !.todo = IF PagingOver(page) THEN all ELSE {}]
      /\ pc' = IF PagingOver(page) THEN "fetching" ELSE "paging"
  BY DEF Page
<1>2. /\ history \in Histories /\ run \in RunRecord /\ WellFormed(file, HourSigs)
      /\ run.pages < MaxPages /\ run.lines = <<>> /\ Single(file) /\ exit # "success"
      /\ exit \in {"none", "success", "failure", "died"}
      /\ run.selected = {i \in InHour : i <= run.listed}
  BY <1>1 DEF HistInv, RunTypes, RunRecord, Listing, Succeeded
<1>3. Len(history) \in Nat /\ DOMAIN history = 1 .. Len(history) /\ InHour \subseteq Nat
  BY <1>2, ListFacts
<1>4. /\ run.listed \in 0 .. Len(history) /\ run.pages \in 0 .. MaxPages
      /\ PageSize \in Nat /\ PageSize > 0 /\ MaxPages \in Nat
  BY <1>2, HistoryAssumption DEF RunRecord
<1>5. /\ upto \in Nat /\ run.listed <= upto /\ upto <= Len(history)
      /\ upto = run.listed + PageSize \/ upto = Len(history)
  <2> DEFINE both == {run.listed + PageSize, Len(history)}
  <2>1. both \subseteq Nat /\ both # {}
    BY <1>3, <1>4
  <2>2. Min(both) \in both /\ \A y \in both : Min(both) <= y
    <3> HIDE DEF both
    <3> QED
      BY <2>1, MinOfNats
  <2> QED
    BY <1>3, <1>4, <2>2
<1> HIDE DEF upto
<1>6. /\ page \subseteq DOMAIN history
      /\ \A i \in DOMAIN history : i <= upto <=> i <= run.listed \/ i \in page
      /\ \A i \in page : i \in Nat /\ i <= upto
      /\ page = {} => upto = Len(history)
  <2>1. /\ page \subseteq 1 .. Len(history)
        /\ \A i \in 1 .. Len(history) : i <= upto <=> i <= run.listed \/ i \in page
        /\ \A i \in page : i \in Nat /\ i <= upto
        /\ page = {} => upto = run.listed
    BY <1>3, <1>4, <1>5, PageRange, Zenon
  <2>2. upto = run.listed => upto = Len(history)
    BY <1>3, <1>4, <1>5, FirstPosition, Zenon
  <2> QED
    BY <1>3, <2>1, <2>2, Zenon
<1>7. all = {i \in InHour : i <= upto}
  <2> HIDE DEF page
  <2> QED
    BY <1>2, <1>6, Zenon DEF InHour
<1>8. all \subseteq InHour
  BY <1>7
<1> HIDE DEF page, all
<1>9. AtBoundary(page) \in BOOLEAN
  BY DEF AtBoundary
<1>10. /\ run' \in RunRecord
       /\ run'.listed = upto /\ run'.selected = all /\ run'.boundary = AtBoundary(page)
       /\ run'.todo = (IF PagingOver(page) THEN all ELSE {})
       /\ run'.pages = run.pages + 1 /\ run'.lines = <<>>
  <2>1. run.pages + 1 \in 0 .. MaxPages /\ upto \in 0 .. Len(history)
    <3>1. \A m \in Nat : \A k \in 0 .. m : k < m => k + 1 \in 0 .. m
      OBVIOUS
    <3>2. \A m, k \in Nat : k <= m => k \in 0 .. m
      OBVIOUS
    <3> QED
      BY <1>2, <1>3, <1>4, <1>5, <3>1, <3>2, Zenon
  <2>2. (IF PagingOver(page) THEN all ELSE {}) \in SUBSET InHour
    BY <1>8
  <2> QED
    BY <1>1, <1>2, <1>8, <1>9, <2>1, <2>2 DEF RunRecord
<1>11. InHour' = InHour /\ HourSigs' = HourSigs /\ \A i : Time(i)' = Time(i)
  BY <1>1, SameList
<1>12. RunTypes'
  <2>1. pc' = "paging" => run'.pages < MaxPages /\ run'.lines = <<>> /\ run'.todo = {}
    <3> SUFFICES ASSUME ~PagingOver(page)
                 PROVE  run'.pages < MaxPages /\ run'.lines = <<>> /\ run'.todo = {}
      BY <1>1
    <3>1. run.pages + 1 # MaxPages
      BY DEF PagingOver
    <3> QED
      BY <1>2, <1>4, <1>10, <3>1
  <2>2. pc' \in {"idle", "paging", "fetching"} /\ run'.todo \subseteq run'.selected
    BY <1>1, <1>10
  <2> QED
    BY <1>1, <1>2, <1>10, <1>11, <2>1, <2>2 DEF RunTypes, RunRecord
<1>13. Listing'
  <2>1. ASSUME AtBoundary(page), NEW j \in InHour, Time(j) > 0
        PROVE  j <= upto
    <3>1. j \in DOMAIN history /\ Time(j) # NoTime /\ Time(j) \in Int /\ j \in Nat
      BY <1>2, <1>3, ListFacts, HistoryAssumption DEF InHour, InWindow, Time
    <3>2. CASE page = {}
      BY <1>3, <1>6, <3>1, <3>2
    <3>3. CASE page # {}
      <4>1. PICK i \in page : Time(i) # NoTime /\ Time(i) <= 0
        BY <2>1, <3>3 DEF AtBoundary
      <4>2. i \in DOMAIN history /\ i <= upto /\ i \in Nat
        BY <1>6, <4>1
      <4>3. Time(i) \in Int
        BY <1>2, <4>1, <4>2, ListFacts
      <4>4. ~(i < j)
        <5>1. i < j => Time(i) >= Time(j)
          BY <1>2, <3>1, <4>1, <4>2, ListFacts
        <5> QED
          BY <2>1, <3>1, <4>1, <4>3, <5>1
      <4> QED
        BY <1>5, <3>1, <4>2, <4>4
    <3> QED
      BY <3>2, <3>3
  <2> QED
    BY <1>7, <1>10, <1>11, <2>1 DEF Listing
<1>14. Fetching'
  <2> SUFFICES ASSUME pc' = "fetching"
               PROVE  /\ Fresh(run.lines, file)'
                      /\ run'.lines = <<>>
                      /\ run'.selected \ run'.todo = {}
    BY DEF Fetching
  <2>1. run'.todo = run'.selected
    BY <1>1, <1>10
  <2>2. Fresh(run.lines, file)'
    <3>1. DOMAIN run'.lines = {}
      BY <1>10
    <3> QED
      BY <3>1 DEF Fresh
  <2> QED
    BY <1>10, <2>1, <2>2
<1> QED
  BY <1>1, <1>2, <1>12, <1>13, <1>14 DEF HistInv, Succeeded
LEMMA HistInvPageFails ==
  ASSUME HistInv, PageFails
  PROVE  HistInv'
<1>1. /\ history' = history /\ file' = file /\ pc' = "idle" /\ exit' = "failure"
      /\ run' = [run EXCEPT !.failures = @ + 1]
      /\ history \in Histories /\ run \in RunRecord /\ run.todo \subseteq run.selected
      /\ WellFormed(file, HourSigs) /\ Single(file) /\ Listing
  BY DEF PageFails, HistInv, RunTypes, RunRecord
<1>2. /\ run' \in RunRecord
      /\ run'.todo = run.todo /\ run'.selected = run.selected
      /\ run'.listed = run.listed /\ run'.boundary = run.boundary
  <2>1. run.failures + 1 \in Nat
    BY <1>1 DEF RunRecord
  <2> QED
    BY <1>1, <2>1 DEF RunRecord
<1>3. InHour' = InHour /\ HourSigs' = HourSigs /\ \A i : Time(i)' = Time(i)
  BY <1>1, SameList
<1>4. RunTypes'
  BY <1>1, <1>2, <1>3 DEF RunTypes, RunRecord
<1>5. Listing'
  BY <1>1, <1>2, <1>3, Zenon DEF Listing
<1> QED
  BY <1>1, <1>4, <1>5 DEF HistInv, Fetching, Succeeded

LEMMA FreshAppend ==
  ASSUME NEW S, NEW txs \in Seq(S), NEW tx \in S, NEW f, Fresh(txs, f),
         tx \notin In(f), \A k \in DOMAIN txs : txs[k] # tx
  PROVE  /\ Fresh(Append(txs, tx), f)
         /\ ToSet(Append(txs, tx)) = ToSet(txs) \cup {tx}
<1>1. /\ Len(txs) \in Nat /\ DOMAIN txs = 1 .. Len(txs)
      /\ DOMAIN Append(txs, tx) = DOMAIN txs \cup {Len(txs) + 1}
      /\ Len(txs) + 1 \notin DOMAIN txs
      /\ \A k \in DOMAIN txs : Append(txs, tx)[k] = txs[k]
      /\ Append(txs, tx)[Len(txs) + 1] = tx
  OBVIOUS
<1> DEFINE more == Append(txs, tx)
           last == Len(txs) + 1
<1>2. /\ DOMAIN more = DOMAIN txs \cup {last} /\ last \notin DOMAIN txs
      /\ \A k \in DOMAIN txs : more[k] = txs[k]
      /\ more[last] = tx
  BY <1>1
<1> HIDE DEF more, last
<1>3. Fresh(more, f)
  BY <1>2, Zenon DEF Fresh
<1>4. ToSet(more) = ToSet(txs) \cup {tx}
  BY <1>2 DEF ToSet
<1> QED
  BY <1>3, <1>4 DEF more

LEMMA HistInvFetch ==
  ASSUME HistInv, FetchTransaction
  PROVE  HistInv'
<1> DEFINE i    == Min(run.todo)
           sig  == history[i].sig
           next == [run EXCEPT !.todo = @ \ {i}]
<1>1. /\ pc = "fetching" /\ run.todo # {}
      /\ history' = history /\ file' = file /\ pc' = pc /\ exit' = exit
      /\ \/ Reusable(sig) /\ run' = next
         \/ ~Reusable(sig) /\ \/ run' = [next EXCEPT !.lines = Append(@, sig)]
                              \/ run' = [next EXCEPT !.missing = @ \cup {sig}]
                              \/ run' = [next EXCEPT !.failures = @ + 1]
  BY DEF FetchTransaction
<1>2. /\ history \in Histories /\ run \in RunRecord /\ run.todo \subseteq run.selected
      /\ run.todo \subseteq InHour
      /\ WellFormed(file, HourSigs) /\ Single(file) /\ Listing /\ exit # "success"
      /\ exit \in {"none", "success", "failure", "died"}
  BY <1>1 DEF HistInv, RunTypes, RunRecord, Succeeded
<1>3. /\ Fresh(run.lines, file)
      /\ \A k \in DOMAIN run.lines :
            \E j \in run.selected \ run.todo : run.lines[k] = history[j].sig
      /\ run.failures = 0 =>
            \A j \in run.selected \ run.todo :
                history[j].sig \in In(file) \cup ToSet(run.lines) \cup run.missing
  BY <1>1 DEF HistInv, Fetching
<1>4. i \in run.todo /\ i \in run.selected /\ sig \in HourSigs
  <2>1. run.todo \subseteq Nat
    BY <1>2, ListFacts
  <2>2. i \in run.todo
    BY <1>1, <2>1, MinOfNats
  <2> QED
    BY <1>2, <2>2 DEF HourSigs
<1>5. Reusable(sig) <=> sig \in In(file)
  BY DEF Reusable, Existing, In
<1>6. \A k \in DOMAIN run.lines : run.lines[k] # sig
  <2> SUFFICES ASSUME NEW k \in DOMAIN run.lines, run.lines[k] = sig
               PROVE  FALSE
    OBVIOUS
  <2>1. PICK j \in run.selected \ run.todo : run.lines[k] = history[j].sig
    BY <1>3
  <2>2. j \in DOMAIN history /\ i \in DOMAIN history
    BY <1>2, <1>4, <2>1 DEF RunRecord, InHour
  <2>3. j = i
    BY <1>2, <2>1, <2>2, ListFacts
  <2> QED
    BY <1>4, <2>1, <2>3
<1> HIDE DEF i
<1> HIDE DEF sig
<1>7. /\ run' \in RunRecord
      /\ run'.todo = run.todo \ {i} /\ run'.selected = run.selected
      /\ run'.listed = run.listed /\ run'.boundary = run.boundary
      /\ \/ sig \in In(file) /\ run'.lines = run.lines /\ run'.missing = run.missing
            /\ run'.failures = run.failures
         \/ sig \notin In(file) /\ run'.lines = Append(run.lines, sig)
            /\ run'.missing = run.missing /\ run'.failures = run.failures
         \/ run'.lines = run.lines /\ run'.missing = run.missing \cup {sig}
            /\ run'.failures = run.failures
         \/ run'.lines = run.lines /\ run'.missing = run.missing
            /\ run'.failures = run.failures + 1
  <2>1. /\ run.lines \in Seq(HourSigs) /\ run.missing \in SUBSET HourSigs
        /\ run.failures \in Nat /\ run.todo \ {i} \in SUBSET InHour
    BY <1>2 DEF RunRecord
  <2>2. /\ Append(run.lines, sig) \in Seq(HourSigs)
        /\ run.missing \cup {sig} \in SUBSET HourSigs /\ run.failures + 1 \in Nat
    BY <1>4, <2>1, AppendProperties
  <2>3. /\ next \in RunRecord
        /\ next.todo = run.todo \ {i} /\ next.selected = run.selected
        /\ next.listed = run.listed /\ next.boundary = run.boundary
        /\ next.lines = run.lines /\ next.missing = run.missing
        /\ next.failures = run.failures
    BY <1>2, <2>1 DEF RunRecord
  <2> HIDE DEF next
  <2>4. CASE Reusable(sig) /\ run' = next
    BY <1>5, <2>3, <2>4
  <2>5. CASE ~Reusable(sig) /\ run' = [next EXCEPT !.lines = Append(@, sig)]
    BY <1>5, <2>2, <2>3, <2>5 DEF RunRecord
  <2>6. CASE run' = [next EXCEPT !.missing = @ \cup {sig}]
    BY <2>2, <2>3, <2>6 DEF RunRecord
  <2>7. CASE run' = [next EXCEPT !.failures = @ + 1]
    BY <2>2, <2>3, <2>7 DEF RunRecord
  <2> QED
    BY <1>1, <2>4, <2>5, <2>6, <2>7
<1>8. /\ InHour' = InHour /\ HourSigs' = HourSigs /\ \A j : Time(j)' = Time(j)
      /\ \A j : (history[j])' = history[j]
  BY <1>1, SameList
<1>9. RunTypes'
  <2>1. run'.todo \subseteq run'.selected
    BY <1>2, <1>7
  <2> QED
    BY <1>1, <1>2, <1>7, <1>8, <2>1 DEF RunTypes, RunRecord
<1>10. Listing'
  BY <1>2, <1>7, <1>8, Zenon DEF Listing
<1>11. Fetching'
  <2>0. run'.selected \ run'.todo = (run.selected \ run.todo) \cup {i}
    BY <1>4, <1>7
  <2>0a. run.lines \in Seq(HourSigs) /\ run.failures \in Nat
    BY <1>2 DEF RunRecord
  <2>0b. history[i].sig = sig
    BY DEF sig
  <2> SUFFICES /\ Fresh(run'.lines, file)
               /\ \A k \in DOMAIN run'.lines :
                    \E j \in run'.selected \ run'.todo : run'.lines[k] = history[j].sig
               /\ run'.failures = 0 =>
                    \A j \in run'.selected \ run'.todo :
                        history[j].sig \in In(file) \cup ToSet(run'.lines) \cup run'.missing
    BY <1>1 DEF Fetching, Fresh, In, Readable, Reached
  <2>1. CASE sig \in In(file) /\ run'.lines = run.lines /\ run'.missing = run.missing
             /\ run'.failures = run.failures
    BY <1>3, <2>0, <2>0b, <2>1, Zenon
  <2>2. CASE sig \notin In(file) /\ run'.lines = Append(run.lines, sig)
             /\ run'.missing = run.missing /\ run'.failures = run.failures
    <3>1. Fresh(run'.lines, file) /\ ToSet(run'.lines) = ToSet(run.lines) \cup {sig}
      BY <1>3, <1>4, <1>6, <2>0a, <2>2, FreshAppend
    <3>2. ASSUME NEW k \in DOMAIN run'.lines
          PROVE  \E j \in run'.selected \ run'.todo : run'.lines[k] = history[j].sig
      <4>1. run'.lines[k] \in ToSet(run.lines) \cup {sig}
        BY <3>1, Zenon DEF ToSet
      <4>2. CASE run'.lines[k] = sig
        BY <2>0, <2>0b, <4>2
      <4>3. CASE run'.lines[k] \in ToSet(run.lines)
        BY <1>3, <2>0, <4>3 DEF ToSet
      <4> QED
        BY <4>1, <4>2, <4>3
    <3>3. ASSUME run'.failures = 0, NEW j \in run'.selected \ run'.todo
          PROVE  history[j].sig \in In(file) \cup ToSet(run'.lines) \cup run'.missing
      BY <1>3, <2>0, <2>0b, <2>2, <3>1, <3>3, Zenon
    <3> QED
      BY <3>1, <3>2, <3>3
  <2>3. CASE run'.lines = run.lines /\ run'.missing = run.missing \cup {sig}
             /\ run'.failures = run.failures
    BY <1>3, <2>0, <2>0b, <2>3, Zenon
  <2>4. CASE run'.lines = run.lines /\ run'.missing = run.missing
             /\ run'.failures = run.failures + 1
    <3>1. run'.failures # 0
      BY <2>0a, <2>4
    <3> QED
      BY <1>3, <2>0, <2>4, <3>1, Zenon
  <2> QED
    BY <1>7, <2>1, <2>2, <2>3, <2>4
<1> QED
  BY <1>1, <1>2, <1>9, <1>10, <1>11 DEF HistInv, Succeeded

\* A run that ends leaves what it listed as it is.
LEMMA RunEnds ==
  ASSUME HistInv, pc' = "idle", UNCHANGED <<history, run>>,
         exit' \in {"none", "success", "failure", "died"},
         WellFormed(file', HourSigs), Single(file'), Succeeded'
  PROVE  HistInv'
<1>1. InHour' = InHour /\ HourSigs' = HourSigs /\ \A i : Time(i)' = Time(i)
  BY SameList
<1>2. RunTypes'
  BY <1>1 DEF HistInv, RunTypes
<1>3. Listing'
  BY <1>1, Zenon DEF HistInv, Listing
<1> QED
  BY <1>2, <1>3 DEF HistInv, Fetching, Single, Readable

LEMMA HistInvFinish ==
  ASSUME HistInv, Finish
  PROVE  HistInv'
<1>1. /\ pc = "fetching" /\ run.todo = {} /\ file' = AddLines(file, run.lines)
      /\ pc' = "idle" /\ exit' = (IF WindowComplete THEN "success" ELSE "failure")
      /\ UNCHANGED <<history, run>>
  BY DEF Finish
<1>2. /\ run.lines \in Seq(HourSigs) /\ WellFormed(file, HourSigs) /\ Single(file)
      /\ Fresh(run.lines, file)
      /\ run.failures = 0 =>
            \A i \in run.selected \ run.todo :
                history[i].sig \in In(file) \cup ToSet(run.lines) \cup run.missing
  BY <1>1 DEF HistInv, RunTypes, Fetching
<1>3. WellFormed(file', HourSigs) /\ Appended(file, file', run.lines)
  BY <1>1, <1>2, AddLinesType
<1>4. Single(file')
  <2>1. Len(file) \in Nat /\ Len(run.lines) \in Nat
    BY <1>2, LenProperties DEF WellFormed
  <2>2. Begun(file, file', run.lines)
    BY <1>3, <2>1, AppendedIsBegun
  <2> QED
    BY <1>2, <1>3, <2>2, SingleIsKept
<1>5. Succeeded'
  <2> SUFFICES ASSUME exit' = "success"
               PROVE  /\ run.boundary
                      /\ (\A k \in DOMAIN file' : Readable(file'[k])) =>
                            \A i \in run.selected : history[i].sig \in In(file') \cup run.missing
    BY <1>1 DEF Succeeded, Accepted, Readable, In, Reached
  <2>1. run.boundary /\ run.failures = 0
    BY <1>1 DEF WindowComplete
  <2>2. ASSUME \A k \in DOMAIN file' : Readable(file'[k]), NEW i \in run.selected
        PROVE  history[i].sig \in In(file') \cup run.missing
    <3>1. /\ In(file) \subseteq In(file')
          /\ \A k \in DOMAIN run.lines : run.lines[k] \in In(file')
      BY <1>2, <1>3, <2>2, AllIsKept
    <3>2. history[i].sig \in In(file) \cup ToSet(run.lines) \cup run.missing
      BY <1>1, <1>2, <2>1, <2>2
    <3>3. ToSet(run.lines) \subseteq In(file')
      BY <3>1 DEF ToSet
    <3> QED
      BY <3>1, <3>2, <3>3
  <2> QED
    BY <2>1, <2>2
<1>6. exit' \in {"none", "success", "failure", "died"}
  BY <1>1
<1> QED
  BY <1>1, <1>3, <1>4, <1>5, <1>6, RunEnds

LEMMA HistInvDie ==
  ASSUME HistInv, Die
  PROVE  HistInv'
<1>1. /\ pc' = "idle" /\ exit' = "died" /\ UNCHANGED <<history, run>>
      /\ WellFormed(file, HourSigs) /\ Single(file)
  BY DEF Die, HistInv, RunTypes
<1>2. WellFormed(file', HourSigs) /\ Single(file')
  <2>1. CASE file' = file
    BY <1>1, <2>1
  <2>2. CASE /\ pc = "fetching" /\ run.todo = {}
             /\ \E k \in DOMAIN run.lines, whole, utf8, end \in BOOLEAN :
                   /\ end => whole
                   /\ whole => utf8
                   /\ file' = AddLine(AddLines(file, SubSeq(run.lines, 1, k - 1)),
                                      [Line(run.lines[k]) EXCEPT !.whole = whole, !.utf8 = utf8,
                                                                 !.ended = end])
    <3>1. run.lines \in Seq(HourSigs) /\ Fresh(run.lines, file)
      BY <2>2 DEF HistInv, RunTypes, Fetching
    <3>2. PICK k \in DOMAIN run.lines, whole, utf8, end \in BOOLEAN :
                /\ whole => utf8
                /\ file' = AddLine(AddLines(file, SubSeq(run.lines, 1, k - 1)),
                                   [Line(run.lines[k]) EXCEPT !.whole = whole, !.utf8 = utf8,
                                                              !.ended = end])
      BY <2>2
    <3> DEFINE line == [Line(run.lines[k]) EXCEPT !.whole = whole, !.utf8 = utf8, !.ended = end]
    <3>2a. line \in Lines(HourSigs) /\ line.txs = <<run.lines[k]>>
      <4>1. run.lines[k] \in HourSigs
        BY <3>1, ElementOfSeq, LenProperties
      <4>2. <<run.lines[k]>> \in Seq(HourSigs) /\ <<run.lines[k]>> # <<>>
        BY <4>1
      <4> QED
        BY <3>2, <4>2 DEF Line, Lines
    <3>3. WellFormed(file', HourSigs) /\ Begun(file, file', run.lines)
      <4>1. file' = AddLine(AddLines(file, SubSeq(run.lines, 1, k - 1)), line)
        BY <3>2
      <4> HIDE DEF line
      <4> QED
        BY <1>1, <3>1, <3>2a, <4>1, CutLineType
    <3> QED
      BY <1>1, <3>1, <3>3, SingleIsKept
  <2> QED
    BY <2>1, <2>2 DEF Die
<1> QED
  BY <1>1, <1>2, RunEnds DEF Succeeded

LEMMA HistInvNext ==
  ASSUME HistInv, HistNext
  PROVE  HistInv'
BY HistInvStart, HistInvPage, HistInvPageFails, HistInvFetch, HistInvFinish, HistInvDie
   DEF HistNext
-----------------------------------------------------------------------------
(* The commands over the cache.                                            *)

\* The prices of an accepted export are of the hour after creation.
LEMMA DerivedInHour ==
  ASSUME HistInv, Accepted
  PROVE  DOMAIN Derived \subseteq 0..Window
<1>1. history \in Histories /\ WellFormed(file, HourSigs)
  BY DEF HistInv, RunTypes
<1>2. ASSUME NEW sig \in Existing PROVE TimeOf(sig) \in 0..Window
  <2>1. PICK k \in DOMAIN file : Readable(file[k]) /\ sig = file[k].txs[1]
    BY <1>2 DEF Existing, Reached
  <2>2. sig \in HourSigs
    <3>1. file[k] \in Lines(HourSigs)
      <4>1. file \in Seq(Lines(HourSigs))
        BY <1>1 DEF WellFormed
      <4> QED
        BY <2>1, <4>1, ElementOfSeq
    <3>2. file[k].txs \in Seq(HourSigs) /\ Len(file[k].txs) = 1
      BY <2>1, <3>1 DEF Lines, Readable
    <3> QED
      BY <2>1, <3>2
  <2>3. PICK i \in InHour : sig = history[i].sig
    BY <2>2 DEF HourSigs
  <2>4. i \in DOMAIN history /\ Time(i) \in 0..Window
    BY <1>1, <2>3, ListFacts DEF InHour
  <2>5. \A row \in ToSet(history) : row.sig = sig => row = history[i]
    BY <1>1, <2>3, <2>4, ListFacts DEF ToSet
  <2>6. history[i] \in ToSet(history)
    BY <2>4 DEF ToSet
  <2>7. (CHOOSE row \in ToSet(history) : row.sig = sig) = history[i]
    BY <2>3, <2>5, <2>6
  <2> QED
    BY <2>4, <2>7 DEF TimeOf, Time
<1>3. DOMAIN Derived = {TimeOf(sig) : sig \in Existing}
  BY DEF Derived
<1> QED
  BY <1>2, <1>3

LEMMA DerivedIsSeries ==
  ASSUME HistInv, Accepted
  PROVE  IsSeries(Derived)
<1>1. DOMAIN Derived \subseteq Int /\ IsFiniteSet(DOMAIN Derived)
  <2>1. Window \in Nat /\ IsFiniteSet(0..Window) /\ 0..Window \subseteq Int
    BY HistoryAssumption, FS_Interval
  <2> QED
    BY <2>1, DerivedInHour, FS_Subset
<1>2. ASSUME NEW i \in DOMAIN file PROVE i \in Nat /\ PriceOf[file[i].txs[1]] \in Int
  <2>1. file \in Seq(Lines(HourSigs)) /\ history \in Histories
    BY DEF HistInv, RunTypes, WellFormed
  <2>2. i \in Nat
    BY <2>1, LenProperties
  <2>3. file[i].txs \in Seq(HourSigs) \ {<<>>}
    <3>1. file[i] \in Lines(HourSigs)
      BY <2>1, ElementOfSeq, LenProperties
    <3> QED
      BY <3>1 DEF Lines
  <2>4. file[i].txs[1] \in HourSigs
    <3>1. Len(file[i].txs) \in Nat /\ Len(file[i].txs) # 0
      BY <2>3, EmptySeq, LenProperties
    <3> QED
      BY <2>3, <3>1, ElementOfSeq
  <2>5. HourSigs \subseteq Sig
    <3>1. \A k \in DOMAIN history : history[k].sig \in Sig
      BY <2>1, ListFacts
    <3> QED
      BY <3>1 DEF HourSigs, InHour
  <2> QED
    BY <2>2, <2>4, <2>5, ResearchAssumption
<1>3. ASSUME NEW t \in DOMAIN Derived PROVE Derived[t] \in Int
  <2> DEFINE lines == {i \in DOMAIN file : TimeOf(file[i].txs[1]) = t}
  <2>1. /\ t \in {TimeOf(sig) : sig \in Existing}
        /\ Derived[t] = PriceOf[file[Min(lines)].txs[1]]
    BY DEF Derived
  <2>2. lines # {}
    <3>1. PICK k \in DOMAIN file : t = TimeOf(file[k].txs[1])
      BY <2>1 DEF Existing, Reached
    <3> QED
      BY <3>1
  <2>3. lines \subseteq Nat /\ lines \subseteq DOMAIN file
    BY <1>2
  <2>4. Min(lines) \in DOMAIN file
    <3> HIDE DEF lines
    <3> QED
      BY <2>2, <2>3, MinOfNats
  <2> QED
    BY <1>2, <2>1, <2>4
<1> QED
  BY <1>1, <1>3 DEF IsSeries

\* What is written: the series or a prefix of it, and its label or none.
LEMMA WriteFacts ==
  ASSUME NEW series, Write(series)
  PROVE  /\ torn' \in BOOLEAN
         /\ DOMAIN cache' \subseteq DOMAIN series
         /\ label' \in {Label(series), None} \/ label' = label
<1>1. CASE cache' = series /\ torn' = FALSE /\ label' \in {Label(series), None}
  BY <1>1
<1>2. CASE \E n \in 0..Cardinality(DOMAIN series), cut \in BOOLEAN :
                /\ cut => n < Cardinality(DOMAIN series)
                /\ cache' = Prefix(series, n) /\ torn' = cut
                /\ UNCHANGED label
  <2>1. PICK n, cut : cut \in BOOLEAN /\ cache' = Prefix(series, n) /\ torn' = cut /\ label' = label
    BY <1>2
  <2>2. DOMAIN Prefix(series, n) \subseteq DOMAIN series
    BY DEF Prefix
  <2> QED
    BY <2>1, <2>2
<1> QED
  BY <1>1, <1>2 DEF Write

LEMMA MergeDomain ==
  ASSUME NEW s, NEW u
  PROVE  DOMAIN Merge(s, u) = DOMAIN s \cup DOMAIN u
BY DEF Merge

LEMMA MergeIsSeries ==
  ASSUME NEW s, NEW u, IsSeries(s), IsSeries(u)
  PROVE  IsSeries(Merge(s, u))
<1>1. IsFiniteSet(DOMAIN s \cup DOMAIN u)
  BY FS_Union DEF IsSeries
<1>2. \A t \in DOMAIN s \cup DOMAIN u : Merge(s, u)[t] \in Int
  BY DEF IsSeries, Merge
<1> QED
  BY <1>1, <1>2, MergeDomain DEF IsSeries

LEMMA WriteKeepsTypes ==
  ASSUME NEW series, Write(series), IsSeries(series),
         label # None => label.status \in {"complete", "partial", "missing"}
  PROVE  /\ torn' \in BOOLEAN
         /\ IsSeries(cache)'
         /\ label' # None => label'.status \in {"complete", "partial", "missing"}
<1>1. IsSeries(cache)'
  <2>1. IsFiniteSet(DOMAIN cache') /\ DOMAIN cache' \subseteq Int
    BY WriteFacts, FS_Subset DEF IsSeries
  <2>2. cache' = series \/ \E n : cache' = Prefix(series, n)
    BY DEF Write
  <2>3. \A t \in DOMAIN cache' : cache'[t] \in Int
    BY <2>2 DEF Prefix, IsSeries
  <2> QED
    BY <2>1, <2>3 DEF IsSeries
<1>2. label' # None => label'.status \in {"complete", "partial", "missing"}
  BY WriteFacts, LabelStatus
<1> QED
  BY <1>1, <1>2, WriteFacts

LEMMA CacheInvFetched ==
  ASSUME HistInv, CacheInv, BackfillFetched
  PROVE  CacheInv'
<1> DEFINE series == Merge(cache, Derived)
<1>1. Accepted /\ Write(series) /\ fetched' = fetched
  BY DEF BackfillFetched, Command, Backfill
<1>2. DOMAIN Derived \subseteq 0..Window /\ Window \in Nat
  BY <1>1, DerivedInHour, HistoryAssumption
<1>3. IsSeries(series)
  BY <1>1, DerivedIsSeries, MergeIsSeries DEF CacheInv
<1>4. DOMAIN series = DOMAIN cache \cup DOMAIN Derived
  BY MergeDomain
<1> HIDE DEF series
<1>6. fetched' => DOMAIN cache' \subseteq 0..Window /\ EndsWithHour(label')
  <2> SUFFICES ASSUME fetched' PROVE DOMAIN cache' \subseteq 0..Window /\ EndsWithHour(label')
    OBVIOUS
  <2>1. DOMAIN cache \subseteq 0..Window /\ EndsWithHour(label)
    BY <1>1 DEF CacheInv
  <2>2. DOMAIN series \subseteq 0..Window
    BY <1>2, <1>4, <2>1
  <2> QED
    BY <1>1, <2>1, <2>2, WriteFacts, LabelEndsWithHour DEF EndsWithHour
<1>7. label # None => label.status \in {"complete", "partial", "missing"}
  BY DEF CacheInv
<1>8. /\ torn' \in BOOLEAN
      /\ IsSeries(cache)'
      /\ label' # None => label'.status \in {"complete", "partial", "missing"}
  BY <1>1, <1>3, <1>7, WriteKeepsTypes
<1> QED
  BY <1>1, <1>6, <1>8 DEF CacheInv, EndsWithHour

LEMMA NormalIsSeries ==
  ASSUME NEW series, IsSeries(series)
  PROVE  DOMAIN Normal(series) \subseteq DOMAIN series /\ IsSeries(Normal(series))
<1>1. DOMAIN Normal(series) \subseteq DOMAIN series
  BY DEF Normal
<1>2. IsFiniteSet(DOMAIN Normal(series))
  BY <1>1, FS_Subset DEF IsSeries
<1>3. \A t \in DOMAIN Normal(series) : Normal(series)[t] \in Int
  BY DEF Normal, IsSeries
<1> QED
  BY <1>1, <1>2, <1>3 DEF IsSeries

\* What is imported, as it is or made normal, is a valid series.
LEMMA ImportFacts ==
  ASSUME BackfillImport
  PROVE  \E imported : /\ IsSeries(imported) /\ Valid(imported)
                       /\ Write(Merge(cache, imported))
<1>1. PICK series \in Imports : Backfill(series) \/ Backfill(Normal(series))
  BY DEF BackfillImport, Command
<1>2. IsSeries(series) /\ IsSeries(Normal(series))
  BY NormalIsSeries, ResearchAssumption
<1> QED
  BY <1>1, <1>2 DEF Backfill

LEMMA CacheInvImport ==
  ASSUME CacheInv, BackfillImport
  PROVE  CacheInv'
<1>1. PICK imported : IsSeries(imported) /\ Write(Merge(cache, imported))
  BY ImportFacts
<1> DEFINE series == Merge(cache, imported)
<1>2. IsSeries(imported)
  BY <1>1
<1>3. IsSeries(series)
  BY <1>2, MergeIsSeries DEF CacheInv
<1>4. Write(series) /\ fetched' = FALSE
  BY <1>1 DEF BackfillImport
<1> HIDE DEF series
<1>6. label # None => label.status \in {"complete", "partial", "missing"}
  BY DEF CacheInv
<1>7. /\ torn' \in BOOLEAN
      /\ IsSeries(cache)'
      /\ label' # None => label'.status \in {"complete", "partial", "missing"}
  BY <1>3, <1>4, <1>6, WriteKeepsTypes
<1> QED
  BY <1>4, <1>7 DEF CacheInv

LEMMA NoSeriesIsEmpty ==
  DOMAIN NoSeries = {} /\ IsSeries(NoSeries)
<1>1. DOMAIN NoSeries = {}
  BY DEF NoSeries
<1> QED
  BY <1>1, FS_EmptySet DEF IsSeries

\* The command without a name takes any series, and remembers early prices.
LEMMA UnnamedFacts ==
  ASSUME Unnamed
  PROVE  \E series : /\ IsSeries(series) /\ Write(series)
                     /\ early' = (early \/ \E t \in DOMAIN series : t < 0)
<1>1. PICK series \in Replacements \cup {NoSeries} :
        /\ Write(Normal(series))
        /\ early' = (early \/ \E t \in DOMAIN Normal(series) : t < 0)
  BY DEF Unnamed, Command
<1>2. IsSeries(Normal(series))
  BY NormalIsSeries, NoSeriesIsEmpty, ResearchAssumption
<1> QED
  BY <1>1, <1>2

LEMMA CacheInvUnnamed ==
  ASSUME CacheInv, Unnamed
  PROVE  CacheInv'
<1>1. PICK series : IsSeries(series) /\ Write(series)
  BY UnnamedFacts
<1>2. IsSeries(series)
  BY <1>1
<1>3. label # None => label.status \in {"complete", "partial", "missing"}
  BY DEF CacheInv
<1>4. /\ torn' \in BOOLEAN
      /\ IsSeries(cache)'
      /\ label' # None => label'.status \in {"complete", "partial", "missing"}
  BY <1>1, <1>2, <1>3, WriteKeepsTypes
<1>5. fetched' = FALSE
  BY DEF Unnamed
<1> QED
  BY <1>4, <1>5 DEF CacheInv

LEMMA IInvInit ==
  Init => HistInv /\ CacheInv
<1> SUFFICES ASSUME Init PROVE HistInv /\ CacheInv
  OBVIOUS
<1>1. HistInit /\ cache = NoSeries /\ torn = FALSE /\ label = None /\ fetched = TRUE
  BY DEF Init
<1>2. CacheInv
  BY <1>1, NoSeriesIsEmpty DEF CacheInv, EndsWithHour
<1> QED
  BY <1>1, <1>2, HistInvInit

LEMMA IInvNext ==
  ASSUME HistInv, CacheInv, [Next]_vars
  PROVE  HistInv' /\ CacheInv'
<1>1. CASE HistNext /\ UNCHANGED fileVars
  <2>1. CacheInv'
    BY <1>1 DEF CacheInv, fileVars, EndsWithHour, IsSeries
  <2> QED
    BY <1>1, <2>1, HistInvNext
<1>2. CASE BackfillFetched
  <2>1. HistInv'
    BY <1>2, HistInvStutter DEF BackfillFetched
  <2> QED
    BY <1>2, <2>1, CacheInvFetched
<1>3. CASE BackfillImport
  <2>1. HistInv'
    BY <1>3, HistInvStutter DEF BackfillImport
  <2> QED
    BY <1>3, <2>1, CacheInvImport
<1>4. CASE Unnamed
  <2>1. HistInv'
    BY <1>4, HistInvStutter DEF Unnamed
  <2> QED
    BY <1>4, <2>1, CacheInvUnnamed
<1>5. CASE UNCHANGED vars
  <2>1. HistInv'
    BY <1>5, HistInvStutter DEF vars
  <2>2. CacheInv'
    BY <1>5 DEF CacheInv, vars, EndsWithHour, IsSeries
  <2> QED
    BY <2>1, <2>2
<1> QED
  BY <1>1, <1>2, <1>3, <1>4, <1>5 DEF Next

LEMMA IInvAlways ==
  Spec => [](HistInv /\ CacheInv)
<1>1. HistInv /\ CacheInv /\ [Next]_vars => (HistInv /\ CacheInv)'
  BY IInvNext
<1> QED
  BY <1>1, IInvInit, PTL DEF Spec

-----------------------------------------------------------------------------
(* Where the observations of a label come from.                            *)

\* Early prices in the cache were given to the command without a name, and so
\* were those of the label, which may be of an older cache.
LabelInv ==
    /\ early \in BOOLEAN
    /\ (\E t \in DOMAIN cache : t < 0) => early
    /\ Explained(label, early)

LEMMA ExplainedStays ==
  ASSUME NEW l, NEW e, NEW f, Explained(l, e), e => f
  PROVE  Explained(l, f)
BY DEF Explained

LEMMA WriteExplained ==
  ASSUME LabelInv, NEW series, DOMAIN series \subseteq Int, Write(series),
         early' \in BOOLEAN, early => early',
         (\E t \in DOMAIN series : t < 0) => early'
  PROVE  LabelInv'
<1>1. (\E t \in DOMAIN cache' : t < 0) => early'
  BY WriteFacts
<1>2. Explained(label', early')
  <2>1. CASE label' = Label(series)
    BY <2>1, LabelIsExplained
  <2>2. CASE label' = None
    BY <2>2 DEF Explained
  <2>3. CASE label' = label
    <3>1. Explained(label, early)
      BY DEF LabelInv
    <3> QED
      BY <2>3, <3>1, ExplainedStays
  <2> QED
    BY <2>1, <2>2, <2>3, WriteFacts
<1> QED
  BY <1>1, <1>2 DEF LabelInv, Explained

\* Observations that are not early add none.
LEMMA MergeEarly ==
  ASSUME NEW old, NEW new, IsSeries(old), DOMAIN new \subseteq Nat
  PROVE  /\ DOMAIN Merge(old, new) \subseteq Int
         /\ (\E t \in DOMAIN Merge(old, new) : t < 0) => \E t \in DOMAIN old : t < 0
<1>1. DOMAIN Merge(old, new) = DOMAIN old \cup DOMAIN new
  BY MergeDomain
<1>2. DOMAIN old \subseteq Int
  BY DEF IsSeries
<1>3. \A t \in DOMAIN new : ~(t < 0)
  OBVIOUS
<1> QED
  BY <1>1, <1>2, <1>3

LEMMA LabelInvNext ==
  ASSUME HistInv, CacheInv, LabelInv, [Next]_vars
  PROVE  LabelInv'
<1>0. /\ early \in BOOLEAN /\ ((\E t \in DOMAIN cache : t < 0) => early)
      /\ IsSeries(cache)
  BY DEF LabelInv, CacheInv
<1>1. CASE UNCHANGED fileVars
  BY <1>1 DEF fileVars, LabelInv, Explained
<1>2. CASE BackfillFetched
  <2>1. Accepted /\ Write(Merge(cache, Derived)) /\ early' = early
    BY <1>2 DEF BackfillFetched, Command, Backfill
  <2>2. DOMAIN Derived \subseteq Nat
    BY <2>1, DerivedInHour
  <2>3. /\ DOMAIN Merge(cache, Derived) \subseteq Int
        /\ (\E t \in DOMAIN Merge(cache, Derived) : t < 0) => early
    BY <1>0, <2>2, MergeEarly
  <2> QED
    BY <1>0, <2>1, <2>3, WriteExplained
<1>3. CASE BackfillImport
  <2>1. PICK imported : /\ IsSeries(imported) /\ Valid(imported)
                        /\ Write(Merge(cache, imported))
    BY <1>3, ImportFacts
  <2>2. DOMAIN imported \subseteq Nat
    BY <2>1 DEF IsSeries, Valid
  <2>3. /\ DOMAIN Merge(cache, imported) \subseteq Int
        /\ (\E t \in DOMAIN Merge(cache, imported) : t < 0) => early
    BY <1>0, <2>2, MergeEarly
  <2>4. early' = early
    BY <1>3 DEF BackfillImport
  <2> QED
    BY <1>0, <2>1, <2>3, <2>4, WriteExplained
<1>4. CASE Unnamed
  <2>1. PICK series : /\ IsSeries(series) /\ Write(series)
                      /\ early' = (early \/ \E t \in DOMAIN series : t < 0)
    BY <1>4, UnnamedFacts
  <2>2. DOMAIN series \subseteq Int
    BY <2>1 DEF IsSeries
  <2> QED
    BY <1>0, <2>1, <2>2, WriteExplained
<1> QED
  BY <1>1, <1>2, <1>3, <1>4 DEF Next, vars, fileVars

LEMMA LabelInvAlways ==
  Spec => []LabelInv
<1>1. Init => LabelInv
  BY NoSeriesIsEmpty DEF Init, LabelInv, Explained
<1>2. HistInv /\ CacheInv /\ LabelInv /\ [Next]_vars => LabelInv'
  BY LabelInvNext
<1> QED
  BY <1>1, <1>2, IInvAlways, PTL DEF Spec

-----------------------------------------------------------------------------
(* The theorems.                                                           *)

\* Every command leaves its files and its state well formed: only the last
\* line of the export may lack its end, and no line is empty.
THEOREM TypeSafe == Spec => []TypeOK
<1>1. HistInv /\ CacheInv /\ LabelInv => TypeOK
  <2> SUFFICES ASSUME HistInv, CacheInv, LabelInv PROVE TypeOK
    OBVIOUS
  <2>1. /\ history \in Histories /\ run \in RunRecord
        /\ pc \in {"idle", "paging", "fetching"}
        /\ exit \in {"none", "success", "failure", "died"}
        /\ WellFormed(file, HourSigs)
    BY DEF HistInv, RunTypes, RunRecord
  <2>2. run.pages \in 0..MaxPages /\ run.listed \in 0..Len(history)
    BY <2>1 DEF RunRecord
  <2>3. ASSUME NEW i \in DOMAIN file
        PROVE  /\ file[i].txs # <<>> /\ ToSet(file[i].txs) \subseteq Sig
               /\ file[i].ended \/ i = Len(file)
               /\ file[i].whole => file[i].utf8
    <3>1. file \in Seq(Lines(HourSigs)) /\ (file[i].ended \/ i = Len(file))
      BY <2>1 DEF WellFormed
    <3>2. file[i] \in Lines(HourSigs)
      BY <3>1, ElementOfSeq
    <3>3. /\ file[i].txs \in Seq(HourSigs) /\ file[i].txs # <<>>
          /\ file[i].whole => file[i].utf8
      BY <3>2 DEF Lines
    <3>4. ToSet(file[i].txs) \subseteq HourSigs
      BY <3>3 DEF ToSet
    <3> QED
      BY <2>1, <3>1, <3>3, <3>4, ListFacts
  <2> QED
    BY <2>1, <2>2, <2>3 DEF TypeOK, CacheInv, LabelInv
<1> QED
  BY <1>1, IInvAlways, LabelInvAlways, PTL

\* A run that reports a complete window has selected every signature that is
\* due: the cursor passed all of them, on whatever page they were.
THEOREM PagingIsComplete == Spec => []CompleteWindowIsSelected
<1>1. HistInv => CompleteWindowIsSelected
  <2> SUFFICES ASSUME HistInv, pc = "fetching", run.boundary, NEW sig \in Due
               PROVE  sig \in {history[i].sig : i \in run.selected}
    BY DEF CompleteWindowIsSelected
  <2>1. PICK i \in InHour : Time(i) > 0 /\ sig = history[i].sig
    BY DEF Due, InHour
  <2>2. i \in run.selected
    BY <2>1 DEF HistInv, Listing
  <2> QED
    BY <2>1, <2>2
<1> QED
  BY <1>1, IInvAlways, PTL

\* After a run that succeeded, an export that derive-prices accepts holds every
\* transaction of the window that the endpoint has, whatever runs died or
\* failed before over the same file.
THEOREM SuccessIsComplete == Spec => []SuccessCoversWindow
<1>1. HistInv => SuccessCoversWindow
  <2> SUFFICES ASSUME HistInv, exit = "success", Accepted, NEW sig \in Due \ run.missing
               PROVE  sig \in Existing
    BY DEF SuccessCoversWindow
  <2>1. PICK i \in InHour : Time(i) > 0 /\ sig = history[i].sig
    BY DEF Due, InHour
  <2>2. run.boundary /\ \A j \in run.selected : history[j].sig \in In(file) \cup run.missing
    BY DEF HistInv, Succeeded
  <2>3. i \in run.selected
    BY <2>1, <2>2 DEF HistInv, Listing
  <2> QED
    BY <2>1, <2>2, <2>3 DEF Existing, In
<1> QED
  BY <1>1, IInvAlways, PTL

\* Whatever sequence of runs, crashes and torn lines wrote the export, two lines
\* that can be read hold the same transaction only behind a line that was cut
\* inside a character; what derive-prices accepts holds none twice.
THEOREM TwinsHaveTornText == Spec => []TwinsOnlyBehindTornText
<1>1. HistInv => TwinsOnlyBehindTornText
  BY DEF HistInv, Single, TwinsOnlyBehindTornText
<1> QED
  BY <1>1, IInvAlways, PTL

\* Prices that were only fetched complete a label in the last second or never.
THEOREM CompletionNeedsLastSecond == Spec => []CompleteNeedsLastSecond
<1>1. CacheInv => CompleteNeedsLastSecond
  BY DEF CacheInv, EndsWithHour, CompleteNeedsLastSecond
<1> QED
  BY <1>1, IInvAlways, PTL

\* A second that a prefix lacks is behind all it has.
LEMMA PrefixInTime ==
  ASSUME NEW series, DOMAIN series \subseteq Int, IsFiniteSet(DOMAIN series), NEW n \in Nat,
         NEW t \in DOMAIN series, t \notin DOMAIN Prefix(series, n),
         NEW u \in DOMAIN Prefix(series, n)
  PROVE  u < t
<1> DEFINE Till(x) == {v \in DOMAIN series : v <= x}
<1>1. /\ u \in DOMAIN series /\ Cardinality(Till(u)) <= n
      /\ ~(Cardinality(Till(t)) <= n)
  BY DEF Prefix
<1>2. IsFiniteSet(Till(u)) /\ IsFiniteSet(Till(t))
  BY FS_Subset
<1>3. Cardinality(Till(u)) \in Nat /\ Cardinality(Till(t)) \in Nat
  BY <1>2, FS_CardinalityType
<1>4. ASSUME t <= u PROVE FALSE
  <2>1. Till(t) \subseteq Till(u)
    BY <1>1, <1>4
  <2>2. Cardinality(Till(t)) <= Cardinality(Till(u))
    BY <1>2, <2>1, FS_Subset
  <2> HIDE DEF Till
  <2> QED
    BY <1>1, <1>3, <2>2
<1> QED
  BY <1>1, <1>4

LEMMA BackfillKeepsPrices ==
  ASSUME CacheInv, NEW imported, IsSeries(imported),
         Write(Merge(cache, imported))
  PROVE  /\ \A t \in DOMAIN cache \cap DOMAIN cache' : cache'[t] = cache[t]
         /\ \A t \in DOMAIN cache \ DOMAIN cache' : \A u \in DOMAIN cache' : u < t
<1> DEFINE series == Merge(cache, imported)
<1>1. /\ DOMAIN series = DOMAIN cache \cup DOMAIN imported
      /\ \A t \in DOMAIN cache : series[t] = cache[t]
  BY DEF Merge
<1>2. Write(series)
  OBVIOUS
<1> HIDE DEF series
<1>3. DOMAIN series \subseteq Int /\ IsFiniteSet(DOMAIN series)
  <2>1. /\ DOMAIN cache \subseteq Int /\ IsFiniteSet(DOMAIN cache)
        /\ DOMAIN imported \subseteq Int /\ IsFiniteSet(DOMAIN imported)
    BY DEF CacheInv, IsSeries
  <2>2. IsFiniteSet(DOMAIN cache \cup DOMAIN imported)
    BY <2>1, FS_Union, Zenon
  <2> QED
    BY <1>1, <2>1, <2>2, Zenon
<1>4. CASE cache' = series
  BY <1>1, <1>4
<1>5. CASE \E n \in 0..Cardinality(DOMAIN series) : cache' = Prefix(series, n)
  <2>1. PICK n \in Nat : cache' = Prefix(series, n)
    BY <1>5
  <2>2. \A t \in DOMAIN Prefix(series, n) : t \in DOMAIN series /\ Prefix(series, n)[t] = series[t]
    BY DEF Prefix
  <2>3. \A t \in DOMAIN cache \cap DOMAIN cache' : cache'[t] = cache[t]
    BY <1>1, <2>1, <2>2
  <2>4. \A t \in DOMAIN cache \ DOMAIN cache' : \A u \in DOMAIN cache' : u < t
    BY <1>1, <1>3, <2>1, PrefixInTime
  <2> QED
    BY <2>3, <2>4
<1> QED
  BY <1>2, <1>4, <1>5 DEF Write

\* No backfill changes a price the cache has, and one that dies loses only the
\* last prices of the series.
THEOREM CacheIsKept == Spec => PricesAreKept
<1> DEFINE Kept ==
      /\ \A t \in DOMAIN cache \cap DOMAIN cache' : cache'[t] = cache[t]
      /\ \A t \in DOMAIN cache \ DOMAIN cache' : \A u \in DOMAIN cache' : u < t
<1>1. ASSUME HistInv, CacheInv, [Next]_vars
      PROVE  [Unnamed \/ Kept]_vars
  <2>1. CASE HistNext /\ UNCHANGED fileVars
    BY <2>1 DEF fileVars
  <2>2. CASE BackfillFetched
    <3>1. Accepted /\ Write(Merge(cache, Derived))
      BY <2>2 DEF BackfillFetched, Command, Backfill
    <3>2. IsSeries(Derived)
      BY <1>1, <3>1, DerivedIsSeries
    <3> QED
      BY <1>1, <3>1, <3>2, BackfillKeepsPrices
  <2>3. CASE BackfillImport
    <3>1. PICK imported : IsSeries(imported) /\ Write(Merge(cache, imported))
      BY <2>3, ImportFacts
    <3> QED
      BY <1>1, <3>1, BackfillKeepsPrices
  <2>4. CASE Unnamed
    BY <2>4
  <2>5. CASE UNCHANGED vars
    BY <2>5
  <2> QED
    BY <1>1, <2>1, <2>2, <2>3, <2>4, <2>5 DEF Next
<1> QED
  BY <1>1, IInvAlways, PTL DEF Spec, PricesAreKept

\* Whatever the imports and the replacements are, a label uses an observation
\* of before its baseline only if early prices were given to the command without
\* a name and the series is empty from the creation to the horizon; it uses none
\* of after the horizon, and no command before or after makes another leak.
THEOREM LeaksAreExplained == Spec => []LeaksNeedEarlyPrices
<1>1. LabelInv => LeaksNeedEarlyPrices
  BY DEF LabelInv, Explained, LeaksNeedEarlyPrices
<1> QED
  BY <1>1, LabelInvAlways, PTL

\* Whatever the cache holds, a window's peak and drawdown are those of its
\* observations.
THEOREM WalksAreExact == Spec => []ExtremesAreExact
<1>1. CacheInv => ExtremesAreExact
  <2> SUFFICES ASSUME CacheInv, NEW h \in {Horizons[2], Horizons[3]}, WindowOf(cache, h) # None
               PROVE  WindowOf(cache, h) =
                        [peak |-> Max(Rises(cache, h)), drawdown |-> Min(Falls(cache, h))]
    BY DEF ExtremesAreExact, Rises, Falls, Seen
  <2>1. h \in Nat /\ IsSeries(cache)
    BY ResearchAssumption DEF CacheInv
  <2> QED
    BY <2>1, WindowIsExact
<1> QED
  BY <1>1, IInvAlways, PTL
=============================================================================
