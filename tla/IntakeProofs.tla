---------------------------- MODULE IntakeProofs ----------------------------
(***************************************************************************)
(* Proofs about Intake, for any listeners, signatures, capacity, age limit *)
(* and bounds.                                                             *)
(***************************************************************************)
EXTENDS Intake, FiniteSetTheorems, SequenceTheorems, TLAPS

\* Groups of unchanged variables are expanded everywhere.
USE DEF queueVars, notifyVars, listenerVars, dispatcherVars

-----------------------------------------------------------------------------
(* Type correctness.  A busy pc has its event, and a recv in progress left *)
(* a job slot for what it may return.                                      *)

InHand ==
  /\ \A l \in Listeners : lpc[l] \in {"push", "notify", "record"} => hand[l] # None
  /\ dpc = "taken" => taken # None
  /\ dpc \in {"armed", "checking", "polling", "waiting", "notified", "released", "taken"}
       => busy < Limit
  /\ IsFiniteSet(items) /\ \A l \in Listeners : IsFiniteSet(evicting[l])

TypeInv == TypeOK /\ InHand

\* Remembering a signature keeps the history well formed.
LEMMA RememberType ==
  ASSUME NEW S, NEW h \in [seen : SUBSET S, order : Seq(S)], NEW sig \in S
  PROVE  Remember(h, sig) \in [seen : SUBSET S, order : Seq(S)]
<1>1. Append(h.order, sig) \in Seq(S) /\ Append(h.order, sig) # <<>>
  BY AppendProperties
<1>2. Tail(Append(h.order, sig)) \in Seq(S)
  BY <1>1, HeadTailProperties
<1>. QED BY <1>1, <1>2 DEF Remember

LEMMA InitType == Init => TypeInv
<1>. SUFFICES ASSUME Init PROVE TypeInv
  OBVIOUS
<1>1. early \in [seen : SUBSET Sigs, order : Seq(Sigs)]
  BY DEF Init, NoHistory
<1>2. now \in Time /\ busy \in 0..Limit
  BY IntakeAssumption DEF Init, Time, IntakeAssumption
<1>3. n \in [Counter -> Nat] /\ log \in Seq(Sigs)
  BY DEF Init
<1>4. InHand
  BY FS_EmptySet DEF Init, InHand
<1>. QED BY <1>1, <1>2, <1>3, <1>4 DEF Init, TypeInv, TypeOK

\* The next-state relation, action by action.
LEMMA NextCases ==
  ASSUME Next, NEW G,
         \A l \in Listeners : ReceiveFailed(l) => G,
         \A l \in Listeners, s \in Sigs : ReceiveDuplicate(l, s) => G,
         \A l \in Listeners, s \in Sigs : ReceiveNew(l, s) => G,
         \A l \in Listeners : PushClosed(l) => G,
         \A l \in Listeners : PushFull(l) => G,
         \A l \in Listeners : PushAccepted(l) => G,
         \A l \in Listeners : NotifyOne(l) => G,
         \A l \in Listeners : Record(l) => G,
         StartRecv => G, TryRecv => G, CheckClosed => G, PollNotified => G, Wake => G,
         Dispatch => G, JobDone => G, Close => G, NotifyWaiters => G, Tick => G,
         UNCHANGED vars => G
  PROVE  G
BY DEF Next, Receive, Listener, Dispatcher, Terminating

LEMMA NextType == TypeInv /\ [Next]_vars => TypeInv'
<1>. SUFFICES ASSUME TypeInv, [Next]_vars PROVE TypeInv'
  OBVIOUS
<1>. USE DEF TypeInv, TypeOK, InHand, Goto
<1>c. \A S : [c \in Counter |-> IF c \in S THEN n[c] + 1 ELSE n[c]] \in [Counter -> Nat]
  OBVIOUS
<1>1. ASSUME NEW l \in Listeners, ReceiveFailed(l) PROVE TypeInv'
  BY <1>1, <1>c DEF ReceiveFailed, Count
<1>2. ASSUME NEW l \in Listeners, NEW s \in Sigs, ReceiveDuplicate(l, s) PROVE TypeInv'
  BY <1>2, <1>c DEF ReceiveDuplicate, Count
<1>3. ASSUME NEW l \in Listeners, NEW s \in Sigs, ReceiveNew(l, s) PROVE TypeInv'
  <2>1. early' \in [seen : SUBSET Sigs, order : Seq(Sigs)]
    BY <1>3, RememberType DEF ReceiveNew
  <2>2. log' \in Seq(Sigs)
    BY <1>3, AppendProperties DEF ReceiveNew
  <2>3. [sig |-> s, at |-> now] \in Event
    BY DEF Event
  <2>4. hand' \in [Listeners -> Event \cup {None}] /\ hand'[l] # None
    BY <1>3, <2>3, NoneAssumption DEF ReceiveNew, NoneAssumption
  <2>. QED BY <1>3, <1>c, <2>1, <2>2, <2>4 DEF ReceiveNew, Count
<1>4. ASSUME NEW l \in Listeners, PushClosed(l) PROVE TypeInv'
  BY <1>4 DEF PushClosed
<1>5. ASSUME NEW l \in Listeners, PushFull(l) PROVE TypeInv'
  BY <1>5, <1>c, FS_Subset DEF PushFull, Count, Fresh
<1>6. ASSUME NEW l \in Listeners, PushAccepted(l) PROVE TypeInv'
  <2>1. [ord |-> pushes + 1, sig |-> hand[l].sig, at |-> hand[l].at] \in Entry
    BY <1>6 DEF PushAccepted, Event, Entry
  <2>2. items' \subseteq Entry /\ items \ Fresh \subseteq Entry
    BY <1>6, <2>1 DEF PushAccepted, Fresh
  <2>3. IsFiniteSet(Fresh) /\ IsFiniteSet(items \ Fresh)
    <3>1. Fresh \subseteq items /\ items \ Fresh \subseteq items
      BY DEF Fresh
    <3>. QED BY <3>1, FS_Subset
  <2>4. IsFiniteSet(items')
    <3>1. PICK e : items' = Fresh \cup {e}
      BY <1>6 DEF PushAccepted
    <3>. QED BY <3>1, <2>3, FS_AddElement
  <2>. QED BY <1>6, <2>2, <2>3, <2>4 DEF PushAccepted
<1>7. ASSUME NEW l \in Listeners, NotifyOne(l) PROVE TypeInv'
  BY <1>7 DEF NotifyOne
<1>8. ASSUME NEW l \in Listeners, Record(l) PROVE TypeInv'
  <2>1. Cardinality(evicting[l]) \in Nat
    BY <1>8, FS_CardinalityType
  <2>2. n' \in [Counter -> Nat]
    BY <1>8, <2>1 DEF Record
  <2>3. gauge' \subseteq Sigs
    BY <1>8 DEF Record, Event
  <2>. QED BY <1>8, <2>2, <2>3, FS_EmptySet DEF Record
<1>9. CASE StartRecv
  BY <1>9 DEF StartRecv, Arm
<1>10. CASE TryRecv
  <2>1. taken' \in Entry \cup {None} /\ items' \subseteq Entry /\ IsFiniteSet(items')
    BY <1>10, FS_Subset DEF TryRecv
  <2>2. dpc' = "taken" => taken' # None
    BY <1>10, NoneAssumption DEF TryRecv, NoneAssumption
  <2>. QED BY <1>10, <2>1, <2>2 DEF TryRecv
<1>11. CASE CheckClosed
  BY <1>11 DEF CheckClosed
<1>12. CASE PollNotified
  BY <1>12 DEF PollNotified, Arm
<1>13. CASE Wake
  BY <1>13 DEF Wake, Arm
<1>14. CASE Dispatch
  <2>1. busy' \in 0..Limit
    BY <1>14, IntakeAssumption DEF Dispatch, IntakeAssumption
  <2>2. gauge' \subseteq Sigs
    BY <1>14 DEF Dispatch
  <2>3. n' \in [Counter -> Nat]
    BY <1>14, <1>c DEF Dispatch, Count
  <2>. QED BY <1>14, <2>1, <2>2, <2>3 DEF Dispatch
<1>15. CASE JobDone
  BY <1>15, IntakeAssumption DEF JobDone, IntakeAssumption
<1>16. CASE Close
  BY <1>16 DEF Close
<1>17. CASE NotifyWaiters
  BY <1>17 DEF NotifyWaiters
<1>18. CASE Tick
  BY <1>18, IntakeAssumption DEF Tick, Time, IntakeAssumption
<1>19. CASE UNCHANGED vars
  BY <1>19 DEF vars
<1>. QED
  BY <1>1, <1>2, <1>3, <1>4, <1>5, <1>6, <1>7, <1>8, <1>9, <1>10, <1>11, <1>12,
     <1>13, <1>14, <1>15, <1>16, <1>17, <1>18, <1>19, NextCases

\* The variables have their types in every reachable state.
THEOREM TypeCorrect == Spec => []TypeInv
BY InitType, NextType, PTL DEF Spec

THEOREM TypeSafe == Spec => []TypeOK
<1>1. TypeInv => TypeOK
  BY DEF TypeInv
<1>. QED BY <1>1, TypeCorrect, PTL

-----------------------------------------------------------------------------
(* The receive protocol.  From the moment try_recv has found the queue     *)
(* empty, work in the queue comes with a stored permit or with a listener  *)
(* that has yet to notify; and a receiver that found the queue open        *)
(* created its notified() before notify_waiters.                           *)

WakeInv ==
  /\ dpc \in {"checking", "polling", "waiting"} /\ items # {} => permit \/ At({"notify"}) # {}
  /\ dpc = "waiting" => ~permit /\ ~broadcast
  /\ broadcast => closed
  /\ heard => broadcast
  /\ dpc = "polling" => ~heard

LEMMA NextWake == TypeInv /\ WakeInv /\ [Next]_vars => WakeInv'
<1>. SUFFICES ASSUME TypeInv, WakeInv, [Next]_vars PROVE WakeInv'
  OBVIOUS
<1>. USE DEF TypeInv, TypeOK, WakeInv, At, Goto
<1>1. ASSUME NEW l \in Listeners, ReceiveFailed(l) PROVE WakeInv'
  BY <1>1 DEF ReceiveFailed
<1>2. ASSUME NEW l \in Listeners, NEW s \in Sigs, ReceiveDuplicate(l, s) PROVE WakeInv'
  BY <1>2 DEF ReceiveDuplicate
<1>3. ASSUME NEW l \in Listeners, NEW s \in Sigs, ReceiveNew(l, s) PROVE WakeInv'
  BY <1>3 DEF ReceiveNew
<1>4. ASSUME NEW l \in Listeners, PushClosed(l) PROVE WakeInv'
  BY <1>4 DEF PushClosed
<1>5. ASSUME NEW l \in Listeners, PushFull(l) PROVE WakeInv'
  BY <1>5 DEF PushFull, Fresh
<1>6. ASSUME NEW l \in Listeners, PushAccepted(l) PROVE WakeInv'
  BY <1>6 DEF PushAccepted
<1>7. ASSUME NEW l \in Listeners, NotifyOne(l) PROVE WakeInv'
  BY <1>7 DEF NotifyOne
<1>8. ASSUME NEW l \in Listeners, Record(l) PROVE WakeInv'
  BY <1>8 DEF Record
<1>9. CASE StartRecv
  BY <1>9 DEF StartRecv, Arm
<1>10. CASE TryRecv
  BY <1>10 DEF TryRecv
<1>11. CASE CheckClosed
  BY <1>11 DEF CheckClosed
<1>12. CASE PollNotified
  BY <1>12 DEF PollNotified, Arm
<1>13. CASE Wake
  BY <1>13 DEF Wake, Arm
<1>14. CASE Dispatch
  BY <1>14 DEF Dispatch
<1>15. CASE JobDone
  BY <1>15 DEF JobDone
<1>16. CASE Close
  BY <1>16 DEF Close
<1>17. CASE NotifyWaiters
  BY <1>17 DEF NotifyWaiters
<1>18. CASE Tick
  BY <1>18 DEF Tick
<1>19. CASE UNCHANGED vars
  BY <1>19 DEF vars
<1>. QED
  BY <1>1, <1>2, <1>3, <1>4, <1>5, <1>6, <1>7, <1>8, <1>9, <1>10, <1>11, <1>12,
     <1>13, <1>14, <1>15, <1>16, <1>17, <1>18, <1>19, NextCases

\* The receiver never sleeps through work or through the close of the queue.
THEOREM NeverSleepsThroughWork == Spec => []NoLostWakeup
<1>1. Init => WakeInv
  BY DEF Init, WakeInv
<1>2. WakeInv => NoLostWakeup
  BY DEF WakeInv, NoLostWakeup
<1>. QED BY <1>1, <1>2, NextWake, TypeCorrect, PTL DEF Spec

-----------------------------------------------------------------------------
(* The shared history is the tail of the log of what it let through, as    *)
(* long as the log or HistoryCap, whichever is shorter.                    *)

HistoryInv ==
  /\ HistoryOK(early)
  /\ Len(early.order) <= Len(log)
  /\ Len(early.order) < HistoryCap => Len(early.order) = Len(log)
  /\ \A i \in 1..Len(early.order) :
       early.order[i] = log[Len(log) - Len(early.order) + i]
  /\ EnteredOnce

\* remember_signature keeps the set and the deque of the history in agreement, and
\* the deque within its bound: the lemma behind every use of the history.
LEMMA RememberOK ==
  ASSUME NEW h \in [seen : SUBSET Sigs, order : Seq(Sigs)], HistoryOK(h),
         NEW s \in Sigs, ~Knows(h, s)
  PROVE  LET r == Remember(h, s) IN
         /\ HistoryOK(r)
         /\ IF Len(h.order) < HistoryCap
            THEN r.order = Append(h.order, s)
            ELSE r.order = Tail(Append(h.order, s))
<1>. USE HistoryCapAssumption DEF HistoryCapAssumption, HistoryOK, Knows
<1>. DEFINE o == h.order
            a == Append(o, s)
            t == Tail(a)
<1>1. /\ o \in Seq(Sigs) /\ a \in Seq(Sigs) /\ Len(a) = Len(o) + 1 /\ Len(o) \in Nat
      /\ \A i \in 1..Len(o) : a[i] = o[i]
      /\ a[Len(o) + 1] = s
  BY AppendProperties, LenProperties
<1>2. t \in Seq(Sigs) /\ Len(t) = Len(o) /\ \A i \in 1..Len(o) : t[i] = a[i + 1]
  BY <1>1, HeadTailProperties
<1>3. \A i \in 1..Len(o) : o[i] # s
  BY <1>1 DEF ToSet
<1>4. IsInjective(a)
  BY <1>1, <1>3 DEF IsInjective
<1>5. h.seen \cup {s} = ToSet(a)
  BY <1>1 DEF ToSet
<1>6. CASE Len(o) < HistoryCap
  <2>1. Remember(h, s) = [seen |-> h.seen \cup {s}, order |-> a]
    BY <1>1, <1>6 DEF Remember
  <2>. QED BY <2>1, <1>1, <1>4, <1>5, <1>6
<1>7. CASE Len(o) = HistoryCap
  <2>1. Remember(h, s) = [seen |-> (h.seen \cup {s}) \ {Head(a)}, order |-> t]
    <3>1. Len(Append(h.order, s)) > HistoryCap
      BY <1>1, <1>7
    <3>. QED BY <3>1, Zenon DEF Remember
  <2>2. Head(a) = a[1]
    BY <1>1
  <2>3. ToSet(a) \ {a[1]} = ToSet(t)
    <3>1. \A i \in 2..Len(a) : a[i] # a[1]
      BY <1>1, <1>4 DEF IsInjective
    <3>2. \A i \in 1..Len(t) : t[i] = a[i + 1]
      BY <1>2
    <3>3. \A i \in 2..Len(a) : a[i] = t[i - 1] /\ i - 1 \in 1..Len(t)
      BY <1>1, <1>2
    <3>4. DOMAIN a = 1..Len(a) /\ DOMAIN t = 1..Len(t)
      BY <1>1, <1>2
    <3>5. ASSUME NEW x \in ToSet(a), x # a[1] PROVE x \in ToSet(t)
      <4>1. PICK i \in 1..Len(a) : a[i] = x
        BY <3>4 DEF ToSet
      <4>2. i \in 2..Len(a)
        BY <3>5, <4>1, <1>1
      <4>3. i - 1 \in DOMAIN t /\ t[i - 1] = x
        BY <3>3, <3>4, <4>1, <4>2
      <4>. QED BY <4>3 DEF ToSet
    <3>6. ASSUME NEW x \in ToSet(t) PROVE x \in ToSet(a) /\ x # a[1]
      <4>1. PICK i \in 1..Len(t) : t[i] = x
        BY <3>4 DEF ToSet
      <4>2. i + 1 \in 1..Len(a) /\ i + 1 \in 2..Len(a) /\ a[i + 1] = x
        BY <3>2, <4>1, <1>1, <1>2
      <4>3. x \in ToSet(a)
        BY <3>4, <4>2 DEF ToSet
      <4>. QED BY <3>1, <4>2, <4>3
    <3>. QED BY <3>5, <3>6
  <2>4. IsInjective(t)
    BY <1>1, <1>2, <1>4, SMTT(60) DEF IsInjective
  <2>. QED BY <2>1, <2>2, <2>3, <2>4, <1>2, <1>5, <1>7
<1>. QED BY <1>1, <1>6, <1>7

LEMMA NextHistory == TypeInv /\ HistoryInv /\ [Next]_vars => HistoryInv'
<1>. SUFFICES ASSUME TypeInv, HistoryInv, [Next]_vars PROVE HistoryInv'
  OBVIOUS
<1>1. ASSUME NEW l \in Listeners, NEW s \in Sigs, ReceiveNew(l, s) PROVE HistoryInv'
  <2>. DEFINE k == Len(early.order)
              m == Len(log)
  <2>1. /\ early \in [seen : SUBSET Sigs, order : Seq(Sigs)]
        /\ log \in Seq(Sigs) /\ k \in Nat /\ m \in Nat /\ early.order \in Seq(Sigs)
    BY LenProperties DEF TypeInv, TypeOK
  <2>2. /\ early' = Remember(early, s) /\ ~Knows(early, s)
        /\ log' = Append(log, s)
    BY <1>1 DEF ReceiveNew
  <2>3. /\ HistoryOK(early')
        /\ IF k < HistoryCap THEN early'.order = Append(early.order, s)
           ELSE early'.order = Tail(Append(early.order, s))
    BY <2>1, <2>2, RememberOK DEF HistoryInv
  <2>4. Len(log') = m + 1 /\ log'[m + 1] = s /\ \A i \in 1..m : log'[i] = log[i]
    BY <2>1, <2>2, AppendProperties
  <2>5. \A i \in 1..k : early.order[i] # s
    BY <2>1, <2>2 DEF HistoryInv, HistoryOK, Knows, ToSet
  <2>6. k <= HistoryCap /\ (k < HistoryCap => k = m) /\ k <= m
    BY DEF HistoryInv, HistoryOK
  <2>7. EnteredOnce'
    <3>1. \A i \in 1..m : log[i] = s => m + 1 - i > HistoryCap
      <4>. SUFFICES ASSUME NEW i \in 1..m, log[i] = s PROVE m + 1 - i > HistoryCap
        OBVIOUS
      <4>1. i <= m - k
        <5>. SUFFICES ASSUME i > m - k PROVE FALSE
          BY <2>1
        <5>1. i - (m - k) \in 1..k /\ (m - k) + (i - (m - k)) = i
          BY <2>1
        <5>2. early.order[i - (m - k)] = log[m - k + (i - (m - k))]
          BY <5>1 DEF HistoryInv
        <5>. QED BY <5>1, <5>2, <2>5
      <4>. QED BY <4>1, <2>1, <2>6, HistoryCapAssumption DEF HistoryCapAssumption
    <3>2. ASSUME NEW i \in 1..(m + 1), NEW j \in 1..(m + 1), i < j, log'[i] = log'[j]
          PROVE  j - i > HistoryCap
      <4>1. CASE j = m + 1
        <5>1. i \in 1..m
          BY <3>2, <4>1, <2>1
        <5>. QED BY <3>1, <3>2, <4>1, <5>1, <2>4
      <4>2. CASE j # m + 1
        <5>1. i \in 1..m /\ j \in 1..m
          BY <3>2, <4>2, <2>1
        <5>. QED BY <3>2, <5>1, <2>4 DEF HistoryInv, EnteredOnce
      <4>. QED BY <4>1, <4>2
    <3>. QED BY <3>2, <2>4 DEF EnteredOnce
  <2>8. CASE k < HistoryCap
    <3>1. /\ early'.order = Append(early.order, s) /\ Len(early'.order) = k + 1
          /\ early'.order[k + 1] = s /\ \A i \in 1..k : early'.order[i] = early.order[i]
      BY <2>1, <2>3, <2>8, AppendProperties
    <3>2. k = m /\ \A i \in 1..k : early.order[i] = log[i]
      BY <2>1, <2>6, <2>8 DEF HistoryInv
    <3>3. \A i \in 1..(k + 1) : early'.order[i] = log'[i]
      BY <3>1, <3>2, <2>1, <2>4
    <3>. QED BY <3>1, <3>2, <3>3, <2>1, <2>3, <2>4, <2>7 DEF HistoryInv
  <2>9. CASE k = HistoryCap
    <3>. DEFINE a == Append(early.order, s)
    <3>1. /\ a \in Seq(Sigs) /\ Len(a) = k + 1 /\ a # <<>>
          /\ a[k + 1] = s /\ \A i \in 1..k : a[i] = early.order[i]
      BY <2>1, AppendProperties
    <3>2. early'.order = Tail(a) /\ Len(Tail(a)) = k /\ \A i \in 1..k : Tail(a)[i] = a[i + 1]
      BY <2>1, <2>3, <2>9, <3>1, HeadTailProperties,
         HistoryCapAssumption DEF HistoryCapAssumption
    <3>3. \A i \in 1..k : early'.order[i] = log'[m + 1 - k + i]
      <4>. SUFFICES ASSUME NEW i \in 1..k PROVE early'.order[i] = log'[m + 1 - k + i]
        OBVIOUS
      <4>1. CASE i = k
        BY <4>1, <3>1, <3>2, <2>1, <2>4
      <4>2. CASE i < k
        <5>1. i + 1 \in 1..k /\ m - k + (i + 1) \in 1..m /\ m - k + (i + 1) = m + 1 - k + i
          BY <4>2, <2>1, <2>6
        <5>2. early'.order[i] = early.order[i + 1]
          BY <5>1, <3>1, <3>2
        <5>3. early.order[i + 1] = log[m - k + (i + 1)]
          BY <5>1 DEF HistoryInv
        <5>. QED BY <5>1, <5>2, <5>3, <2>4
      <4>. QED BY <4>1, <4>2, <2>1
    <3>4. Len(early'.order) = k /\ Len(log') - k = m + 1 - k
      BY <3>2, <2>4
    <3>5. \A i \in 1..Len(early'.order) :
            early'.order[i] = log'[Len(log') - Len(early'.order) + i]
      BY <3>3, <3>4
    <3>6. Len(early'.order) <= Len(log') /\ ~(Len(early'.order) < HistoryCap)
      BY <3>4, <2>1, <2>4, <2>6, <2>9, HistoryCapAssumption DEF HistoryCapAssumption
    <3>. QED BY <3>5, <3>6, <2>3, <2>7 DEF HistoryInv
  <2>. QED BY <2>1, <2>6, <2>8, <2>9, HistoryCapAssumption DEF HistoryCapAssumption
<1>2. ASSUME UNCHANGED <<early, log>> PROVE HistoryInv'
  BY <1>2 DEF HistoryInv, EnteredOnce
<1>3. UNCHANGED <<early, log>> \/ \E l \in Listeners, s \in Sigs : ReceiveNew(l, s)
  BY DEF Next, Receive, Listener, Dispatcher, Terminating, vars,
     ReceiveFailed, ReceiveDuplicate, PushClosed, PushFull, PushAccepted, NotifyOne,
     Record, StartRecv, TryRecv, CheckClosed, PollNotified, Wake, Dispatch, JobDone,
     Close, NotifyWaiters, Tick
<1>. QED BY <1>1, <1>2, <1>3

\* A signature enters the queue again only after HistoryCap others.
THEOREM SignaturesEnterOnce == Spec => []EnteredOnce
<1>1. Init => HistoryInv
  <2>. SUFFICES ASSUME Init PROVE HistoryInv
    OBVIOUS
  <2>1. early = [seen |-> {}, order |-> <<>>] /\ log = <<>>
    BY DEF Init, NoHistory
  <2>2. Len(<<>>) = 0 /\ DOMAIN <<>> = {}
    BY EmptySeq
  <2>. QED BY <2>1, <2>2, HistoryCapAssumption
           DEF HistoryInv, HistoryOK, EnteredOnce, ToSet, IsInjective, HistoryCapAssumption
<1>2. HistoryInv => EnteredOnce
  BY DEF HistoryInv
<1>. QED BY <1>1, <1>2, NextHistory, TypeCorrect, PTL DEF Spec

-----------------------------------------------------------------------------
(* The ledgers.  No entry is in two places, and its number is one the      *)
(* queue has given; so sizes add up, and a push never numbers an entry     *)
(* that is already there.                                                  *)

LedgerInv ==
  /\ Cardinality(items) <= Capacity
  /\ IsFiniteSet(Pending)
  /\ \A e \in items \cup Pending : e.ord <= pushes
  /\ items \cap Pending = {}
  /\ \A l, m \in Listeners : l # m => evicting[l] \cap evicting[m] = {}
  /\ \A l \in Listeners : evicting[l] # {} => lpc[l] \in {"notify", "record"}
  /\ NotificationsAccounted
  /\ WorkAccounted

\* How many listeners are at some places, when one of them moves.
LEMMA Move ==
  ASSUME NEW l \in Listeners, NEW p, NEW pcs, DOMAIN lpc = Listeners,
         lpc' = [lpc EXCEPT ![l] = p]
  PROVE  LET A == At(pcs)
             B == At(pcs)' IN
         /\ Cardinality(A) \in Nat /\ Cardinality(B) \in Nat
         /\ lpc[l] \notin pcs /\ p \in pcs => Cardinality(B) = Cardinality(A) + 1
         /\ lpc[l] \in pcs /\ p \notin pcs => Cardinality(A) = Cardinality(B) + 1
         /\ lpc[l] \in pcs /\ p \in pcs => B = A
         /\ lpc[l] \notin pcs /\ p \notin pcs => B = A
<1>. DEFINE A == At(pcs)
            B == {k \in Listeners : lpc'[k] \in pcs}
<1>1. IsFiniteSet(A) /\ IsFiniteSet(B)
  <2>1. A \subseteq Listeners /\ B \subseteq Listeners
    BY DEF At
  <2>. QED BY <2>1, FS_Subset, IntakeAssumption DEF IntakeAssumption
<1>2. Cardinality(A) \in Nat /\ Cardinality(B) \in Nat
  BY <1>1, FS_CardinalityType
<1>3. ASSUME lpc[l] \notin pcs, p \in pcs PROVE Cardinality(B) = Cardinality(A) + 1
  <2>1. B = A \cup {l} /\ l \notin A
    BY <1>3 DEF At
  <2>. QED BY <2>1, <1>1, FS_AddElement
<1>4. ASSUME lpc[l] \in pcs, p \notin pcs PROVE Cardinality(A) = Cardinality(B) + 1
  <2>1. A = B \cup {l} /\ l \notin B
    BY <1>4 DEF At
  <2>. QED BY <2>1, <1>1, FS_AddElement
<1>5. ASSUME lpc[l] \in pcs <=> p \in pcs PROVE B = A
  BY <1>5 DEF At
<1>. QED BY <1>2, <1>3, <1>4, <1>5 DEF At

\* What a push finds: the stale entries leave, the fresh ones stay.
LEMMA Eviction ==
  ASSUME IsFiniteSet(items)
  PROVE  /\ Fresh \subseteq items
         /\ IsFiniteSet(Fresh) /\ IsFiniteSet(items \ Fresh)
         /\ Cardinality(Fresh) \in Nat /\ Cardinality(items) \in Nat
         /\ Cardinality(items \ Fresh) \in Nat
         /\ Cardinality(items) = Cardinality(Fresh) + Cardinality(items \ Fresh)
         /\ Cardinality(Fresh) >= Cardinality(items) => Fresh = items
<1>1. Fresh \subseteq items /\ items \ Fresh \subseteq items
  BY DEF Fresh
<1>2. IsFiniteSet(Fresh) /\ IsFiniteSet(items \ Fresh)
  BY <1>1, FS_Subset
<1>3. Cardinality(items \ Fresh) = Cardinality(items) - Cardinality(items \cap Fresh)
  BY <1>2, FS_Difference
<1>4. items \cap Fresh = Fresh
  BY <1>1
<1>5. Cardinality(Fresh) \in Nat /\ Cardinality(items) \in Nat /\ Cardinality(items \ Fresh) \in Nat
  BY <1>2, FS_CardinalityType
<1>6. Cardinality(Fresh) <= Cardinality(items) /\ (Cardinality(Fresh) = Cardinality(items) => Fresh = items)
  BY <1>1, FS_Subset
<1>7. Cardinality(items \ Fresh) = Cardinality(items) - Cardinality(Fresh)
  BY <1>3, <1>4
<1>8. Cardinality(items) = Cardinality(Fresh) + Cardinality(items \ Fresh)
  BY <1>5, <1>7
<1>9. Cardinality(Fresh) >= Cardinality(items) => Fresh = items
  BY <1>5, <1>6
<1>. QED BY <1>1, <1>2, <1>5, <1>8, <1>9

\* A push is refused only when the queue is full of fresh entries.
LEMMA FullQueue ==
  ASSUME TypeInv, LedgerInv, NEW l \in Listeners, PushFull(l)
  PROVE  items' = items /\ Cardinality(items) = Capacity /\ \A e \in items : ~Stale(e)
<1>1. IsFiniteSet(items) /\ Cardinality(items) <= Capacity /\ Cardinality(Fresh) >= Capacity
  BY DEF TypeInv, InHand, LedgerInv, PushFull
<1>2. Capacity \in Nat
  BY IntakeAssumption DEF IntakeAssumption
<1>3. Fresh = items /\ Cardinality(items) = Capacity
  BY <1>1, <1>2, Eviction
<1>. QED BY <1>3 DEF PushFull, Fresh

\* Steps that move no entry and count nothing.
LEMMA QuietLedger ==
  ASSUME LedgerInv, UNCHANGED <<lpc, items, evicting, pushes, n>>,
         dpc' = "taken" <=> dpc = "taken"
  PROVE  LedgerInv'
BY DEF LedgerInv, Pending, NotificationsAccounted, WorkAccounted, At

LEMMA NextLedger == TypeInv /\ LedgerInv /\ [Next]_vars => LedgerInv'
<1>. SUFFICES ASSUME TypeInv, LedgerInv, [Next]_vars PROVE LedgerInv'
  OBVIOUS
<1>. DEFINE InListener == {"push", "notify", "record", "returned"}
            Accepted == {"notify", "record"}
<1>t. /\ DOMAIN lpc = Listeners /\ evicting \in [Listeners -> SUBSET Entry]
      /\ \A c \in Counter : n[c] \in Nat
      /\ items \subseteq Entry /\ pushes \in Nat /\ IsFiniteSet(items)
      /\ \A l \in Listeners : IsFiniteSet(evicting[l])
  BY DEF TypeInv, TypeOK, InHand
<1>k. /\ Cardinality(items) \in Nat /\ Cardinality(Pending) \in Nat
      /\ \A l \in Listeners : Cardinality(evicting[l]) \in Nat
      /\ Capacity \in Nat
  BY <1>t, FS_CardinalityType, IntakeAssumption DEF LedgerInv, IntakeAssumption
<1>w. /\ n.received = n.failed + n.duplicates + n.dropped + n.admitted
                       + Cardinality(At(InListener))
      /\ n.admitted + Cardinality(At(Accepted)) =
           Cardinality(items) + Cardinality(Pending) + n.evicted + n.discarded + n.passed
           + (IF dpc = "taken" THEN 1 ELSE 0)
  BY DEF LedgerInv, NotificationsAccounted, WorkAccounted
<1>n. /\ n.received \in Nat /\ n.failed \in Nat /\ n.duplicates \in Nat /\ n.dropped \in Nat
      /\ n.admitted \in Nat /\ n.evicted \in Nat /\ n.discarded \in Nat /\ n.passed \in Nat
  BY <1>t DEF Counter
<1>a. Cardinality(At(InListener)) \in Nat /\ Cardinality(At(Accepted)) \in Nat
  <2>1. At(InListener) \subseteq Listeners /\ At(Accepted) \subseteq Listeners
    BY DEF At
  <2>. QED BY <2>1, FS_Subset, FS_CardinalityType, IntakeAssumption DEF IntakeAssumption
<1>1. ASSUME NEW l \in Listeners, ReceiveFailed(l) PROVE LedgerInv'
  BY <1>1, <1>n, <1>a DEF ReceiveFailed, Count, Counter, LedgerInv, Pending,
     NotificationsAccounted, WorkAccounted, At
<1>2. ASSUME NEW l \in Listeners, NEW s \in Sigs, ReceiveDuplicate(l, s) PROVE LedgerInv'
  BY <1>2, <1>n, <1>a DEF ReceiveDuplicate, Count, Counter, LedgerInv, Pending,
     NotificationsAccounted, WorkAccounted, At
<1>3. ASSUME NEW l \in Listeners, NEW s \in Sigs, ReceiveNew(l, s) PROVE LedgerInv'
  <2>1. lpc[l] = "stream" /\ lpc' = [lpc EXCEPT ![l] = "push"]
    BY <1>3 DEF ReceiveNew, Goto
  <2>2. Cardinality(At(InListener)') = Cardinality(At(InListener)) + 1
    BY <2>1, <1>t, Move, ZenonT(60)
  <2>3. At(Accepted)' = At(Accepted)
    BY <2>1, <1>t DEF At
  <2>4. /\ n'.received = n.received + 1
        /\ UNCHANGED <<n.failed, n.duplicates, n.dropped, n.admitted, n.evicted, n.discarded, n.passed>>
        /\ UNCHANGED <<items, evicting, pushes, dpc>>
    BY <1>3 DEF ReceiveNew, Count, Counter
  <2>5. NotificationsAccounted'
    BY <2>2, <2>4, <1>n, <1>a, <1>w DEF NotificationsAccounted
  <2>6. WorkAccounted'
    BY <2>3, <2>4, <1>w DEF WorkAccounted, Pending
  <2>. QED BY <2>1, <2>4, <2>5, <2>6, <1>t DEF LedgerInv, Pending
<1>4. ASSUME NEW l \in Listeners, PushClosed(l) PROVE LedgerInv'
  <2>1. lpc[l] = "push" /\ lpc' = [lpc EXCEPT ![l] = "returned"]
    BY <1>4 DEF PushClosed, Goto
  <2>2. At(InListener)' = At(InListener) /\ At(Accepted)' = At(Accepted)
    BY <2>1, <1>t DEF At
  <2>3. NotificationsAccounted' /\ WorkAccounted'
    BY <1>4, <2>2, <1>w DEF PushClosed, NotificationsAccounted, WorkAccounted, Pending
  <2>. QED BY <1>4, <2>1, <2>3, <1>t DEF PushClosed, LedgerInv, Pending
<1>5. ASSUME NEW l \in Listeners, PushFull(l) PROVE LedgerInv'
  <2>1. lpc[l] = "push" /\ lpc' = [lpc EXCEPT ![l] = "stream"]
    BY <1>5 DEF PushFull, Goto
  <2>2. items' = items
    BY <1>5, FullQueue
  <2>3. Cardinality(At(InListener)) = Cardinality(At(InListener)') + 1
    BY <2>1, <1>t, Move, ZenonT(60)
  <2>4. At(Accepted)' = At(Accepted)
    BY <2>1, <1>t DEF At
  <2>5. Cardinality(At(InListener)') \in Nat
    BY <2>1, <1>t, Move
  <2>6. /\ n'.dropped = n.dropped + 1
        /\ UNCHANGED <<n.received, n.failed, n.duplicates, n.admitted, n.evicted, n.discarded, n.passed>>
        /\ UNCHANGED <<evicting, pushes, dpc>>
    BY <1>5 DEF PushFull, Count, Counter
  <2>7. NotificationsAccounted'
    BY <2>3, <2>5, <2>6, <1>n, <1>a, <1>w DEF NotificationsAccounted
  <2>8. WorkAccounted'
    BY <2>2, <2>4, <2>6, <1>w DEF WorkAccounted, Pending
  <2>. QED BY <2>1, <2>2, <2>6, <2>7, <2>8, <1>t DEF LedgerInv, Pending
<1>6. ASSUME NEW l \in Listeners, PushAccepted(l) PROVE LedgerInv'
  <2>. DEFINE new == [ord |-> pushes + 1, sig |-> hand[l].sig, at |-> hand[l].at]
              old == items \ Fresh
  <2>1. lpc[l] = "push" /\ lpc' = [lpc EXCEPT ![l] = "notify"]
    BY <1>6 DEF PushAccepted, Goto
  <2>2. /\ items' = Fresh \cup {new} /\ pushes' = pushes + 1
        /\ evicting' = [evicting EXCEPT ![l] = old] /\ UNCHANGED <<n, dpc>> /\ dpc = dpc
        /\ Cardinality(Fresh) < Capacity
    BY <1>6 DEF PushAccepted
  <2>3. evicting[l] = {}
    BY <2>1 DEF LedgerInv
  <2>4. new \notin items \cup Pending /\ new.ord = pushes + 1
    <3>1. new.ord = pushes + 1 /\ ~(new.ord <= pushes)
      BY <1>t
    <3>. QED BY <3>1 DEF LedgerInv
  <2>5. Pending' = Pending \cup old
    BY <2>2, <2>3, <1>t DEF Pending
  <2>6. /\ Fresh \subseteq items /\ IsFiniteSet(Fresh) /\ IsFiniteSet(old)
        /\ Cardinality(Fresh) \in Nat /\ Cardinality(old) \in Nat
        /\ Cardinality(items) = Cardinality(Fresh) + Cardinality(old)
    BY <1>t, Eviction
  <2>7. Cardinality(items') = Cardinality(Fresh) + 1
    BY <2>2, <2>4, <2>6, FS_AddElement
  <2>8. IsFiniteSet(Pending') /\ Cardinality(Pending') = Cardinality(Pending) + Cardinality(old)
    <3>1. Pending \cap old = {}
      BY DEF LedgerInv
    <3>2. Cardinality(Pending \cap old) = 0
      BY <3>1, FS_EmptySet
    <3>3. /\ IsFiniteSet(Pending \cup old)
          /\ Cardinality(Pending \cup old) =
               Cardinality(Pending) + Cardinality(old) - Cardinality(Pending \cap old)
      BY <2>6, FS_Union DEF LedgerInv
    <3>. QED BY <3>2, <3>3, <2>5, <2>6, <1>k
  <2>9. At(InListener)' = At(InListener)
    BY <2>1, <1>t, Move
  <2>10. Cardinality(At(Accepted)') = Cardinality(At(Accepted)) + 1
    BY <2>1, <1>t, Move
  <2>11. NotificationsAccounted'
    BY <2>2, <2>9 DEF LedgerInv, NotificationsAccounted
  <2>12. WorkAccounted'
    <3>1. /\ Cardinality(items') + Cardinality(Pending') = Cardinality(items) + Cardinality(Pending) + 1
          /\ Cardinality(items') \in Nat /\ Cardinality(Pending') \in Nat
      BY <2>6, <2>7, <2>8, <1>k
    <3>. QED BY <2>2, <2>10, <3>1, <1>k, <1>n, <1>a, <1>w DEF WorkAccounted
  <2>13. \A e \in items' \cup Pending' : e.ord <= pushes'
    <3>1. \A e \in items \cup Pending : e.ord <= pushes + 1
      <4>1. \A e \in items \cup Pending : e \in Entry
        BY <1>t DEF Pending
      <4>. QED BY <4>1, <1>t DEF LedgerInv, Entry
    <3>. QED BY <3>1, <2>2, <2>4, <2>5, <2>6, <1>t
  <2>14. items' \cap Pending' = {}
    BY <2>2, <2>4, <2>5, <2>6 DEF LedgerInv
  <2>15. \A k, m \in Listeners : k # m => evicting'[k] \cap evicting'[m] = {}
    <3>1. \A k \in Listeners : k # l => evicting[k] \cap old = {}
      BY DEF LedgerInv, Pending
    <3>. QED BY <3>1, <2>2, <1>t DEF LedgerInv
  <2>16. \A k \in Listeners : evicting'[k] # {} => lpc'[k] \in Accepted
    BY <2>1, <2>2, <1>t DEF LedgerInv
  <2>17. Cardinality(items') <= Capacity
    BY <2>2, <2>6, <2>7, <1>k
  <2>. QED BY <2>8, <2>11, <2>12, <2>13, <2>14, <2>15, <2>16, <2>17 DEF LedgerInv
<1>7. ASSUME NEW l \in Listeners, NotifyOne(l) PROVE LedgerInv'
  <2>1. lpc[l] = "notify" /\ lpc' = [lpc EXCEPT ![l] = "record"]
    BY <1>7 DEF NotifyOne, Goto
  <2>2. At(InListener)' = At(InListener) /\ At(Accepted)' = At(Accepted)
    BY <2>1, <1>t, Move
  <2>3. UNCHANGED <<items, evicting, pushes, n>> /\ (dpc' = "taken" <=> dpc = "taken")
    BY <1>7 DEF NotifyOne
  <2>4. NotificationsAccounted' /\ WorkAccounted'
    BY <2>2, <2>3, <1>w DEF NotificationsAccounted, WorkAccounted, Pending
  <2>. QED BY <2>1, <2>3, <2>4, <1>t DEF LedgerInv, Pending
<1>8. ASSUME NEW l \in Listeners, Record(l) PROVE LedgerInv'
  <2>1. lpc[l] = "record" /\ lpc' = [lpc EXCEPT ![l] = "stream"]
    BY <1>8 DEF Record, Goto
  <2>2. /\ evicting' = [evicting EXCEPT ![l] = {}]
        /\ UNCHANGED <<items, pushes, dpc>>
    BY <1>8 DEF Record
  <2>3. /\ n'.admitted = n.admitted + 1
        /\ n'.evicted = n.evicted + Cardinality(evicting[l])
        /\ UNCHANGED <<n.received, n.failed, n.duplicates, n.dropped, n.discarded, n.passed>>
    BY <1>8 DEF Record, Counter
  <2>4. Pending' = Pending \ evicting[l]
    <3>1. \A k \in Listeners : evicting'[k] = IF k = l THEN {} ELSE evicting[k]
      BY <2>2, <1>t
    <3>. QED BY <3>1 DEF LedgerInv, Pending
  <2>5. /\ IsFiniteSet(Pending')
        /\ Cardinality(Pending') = Cardinality(Pending) - Cardinality(evicting[l])
    <3>1. Pending \cap evicting[l] = evicting[l]
      BY DEF Pending
    <3>2. /\ IsFiniteSet(Pending \ evicting[l])
          /\ Cardinality(Pending \ evicting[l]) =
               Cardinality(Pending) - Cardinality(Pending \cap evicting[l])
      BY FS_Difference DEF LedgerInv
    <3>. QED BY <3>1, <3>2, <2>4
  <2>6. /\ Cardinality(At(InListener)) = Cardinality(At(InListener)') + 1
        /\ Cardinality(At(InListener)') \in Nat
    BY <2>1, <1>t, Move, ZenonT(60)
  <2>7. /\ Cardinality(At(Accepted)) = Cardinality(At(Accepted)') + 1
        /\ Cardinality(At(Accepted)') \in Nat
    BY <2>1, <1>t, Move
  <2>8. NotificationsAccounted'
    <3>1. UNCHANGED <<n.received, n.failed, n.duplicates, n.dropped>> /\ n'.admitted = n.admitted + 1
      BY <2>3
    <3>. QED BY <3>1, <2>6, <1>n, <1>a, <1>w DEF NotificationsAccounted
  <2>9. WorkAccounted'
    <3>1. /\ UNCHANGED <<n.discarded, n.passed, items, dpc>> /\ n'.admitted = n.admitted + 1
          /\ n'.evicted + Cardinality(Pending') = n.evicted + Cardinality(Pending)
          /\ n'.evicted \in Nat /\ Cardinality(Pending') \in Nat
      BY <2>2, <2>3, <2>5, <1>k, <1>n, FS_CardinalityType, SMTT(60)
    <3>. QED BY <3>1, <2>7, <1>k, <1>n, <1>a, <1>w DEF WorkAccounted
  <2>10. \A k, m \in Listeners : k # m => evicting'[k] \cap evicting'[m] = {}
    BY <2>2, <1>t DEF LedgerInv
  <2>11. \A k \in Listeners : evicting'[k] # {} => lpc'[k] \in Accepted
    BY <2>1, <2>2, <1>t DEF LedgerInv
  <2>. QED BY <2>2, <2>4, <2>5, <2>8, <2>9, <2>10, <2>11 DEF LedgerInv
<1>9. CASE StartRecv
  BY <1>9, QuietLedger DEF StartRecv, Arm
<1>10. CASE TryRecv
  <2>1. CASE UNCHANGED items /\ dpc' = "checking"
    BY <1>10, <2>1, QuietLedger DEF TryRecv
  <2>2. CASE \E e \in items : items' = items \ {e} /\ dpc' = "taken"
    <3>1. PICK e \in items : items' = items \ {e} /\ dpc' = "taken"
      BY <2>2
    <3>2. dpc = "armed" /\ UNCHANGED <<lpc, evicting, pushes, n>>
      BY <1>10 DEF TryRecv
    <3>3. Cardinality(items') = Cardinality(items) - 1
      BY <3>1, <1>t, FS_RemoveElement
    <3>5. Pending' = Pending /\ At(InListener)' = At(InListener) /\ At(Accepted)' = At(Accepted)
      BY <3>2 DEF Pending, At
    <3>6. dpc' = "taken" /\ dpc # "taken"
      BY <3>1, <3>2
    <3>7. NotificationsAccounted'
      BY <3>2, <3>5, <1>w DEF NotificationsAccounted
    <3>4. NotificationsAccounted' /\ WorkAccounted'
      BY <3>2, <3>3, <3>5, <3>6, <3>7, <1>k, <1>n, <1>a, <1>w DEF WorkAccounted
    <3>. QED BY <3>1, <3>2, <3>3, <3>4, <3>5, <1>k DEF LedgerInv
  <2>. QED BY <1>10, <2>1, <2>2 DEF TryRecv
<1>11. CASE CheckClosed
  BY <1>11, QuietLedger DEF CheckClosed
<1>12. CASE PollNotified
  BY <1>12, QuietLedger DEF PollNotified, Arm
<1>13. CASE Wake
  BY <1>13, QuietLedger DEF Wake, Arm
<1>14. CASE Dispatch
  <2>1. dpc = "taken" /\ dpc' = "idle" /\ UNCHANGED <<lpc, items, evicting, pushes>>
    BY <1>14 DEF Dispatch
  <2>2. /\ UNCHANGED <<n.received, n.failed, n.duplicates, n.dropped, n.admitted, n.evicted>>
        /\ n'.discarded + n'.passed = n.discarded + n.passed + 1
        /\ n'.discarded \in Nat /\ n'.passed \in Nat
    BY <1>14, <1>n DEF Dispatch, Count, Counter
  <2>4. Pending' = Pending /\ At(InListener)' = At(InListener) /\ At(Accepted)' = At(Accepted)
    BY <2>1 DEF Pending, At
  <2>3. NotificationsAccounted' /\ WorkAccounted'
    BY <2>1, <2>2, <2>4, <1>k, <1>n, <1>a, <1>w DEF NotificationsAccounted, WorkAccounted
  <2>. QED BY <2>1, <2>3 DEF LedgerInv, Pending
<1>15. CASE JobDone
  BY <1>15, QuietLedger DEF JobDone
<1>16. CASE Close
  BY <1>16, QuietLedger DEF Close
<1>17. CASE NotifyWaiters
  BY <1>17, QuietLedger DEF NotifyWaiters
<1>18. CASE Tick
  BY <1>18, QuietLedger DEF Tick
<1>19. CASE UNCHANGED vars
  BY <1>19, QuietLedger DEF vars
<1>. QED
  BY <1>1, <1>2, <1>3, <1>4, <1>5, <1>6, <1>7, <1>8, <1>9, <1>10, <1>11, <1>12,
     <1>13, <1>14, <1>15, <1>16, <1>17, <1>18, <1>19, NextCases

LEMMA InitLedger == Init => LedgerInv
<1>. SUFFICES ASSUME Init PROVE LedgerInv
  OBVIOUS
<1>1. /\ Pending = {} /\ items = {} /\ At({"push", "notify", "record", "returned"}) = {}
      /\ At({"notify", "record"}) = {} /\ dpc = "idle" /\ \A c \in Counter : n[c] = 0
  BY DEF Init, Pending, At
<1>2. IsFiniteSet({}) /\ Cardinality({}) = 0
  BY FS_EmptySet
<1>3. NotificationsAccounted /\ WorkAccounted
  BY <1>1, <1>2 DEF Counter, NotificationsAccounted, WorkAccounted
<1>. QED BY <1>1, <1>2, <1>3, IntakeAssumption DEF Init, LedgerInv, IntakeAssumption

LEMMA LedgerCorrect == Spec => [](TypeInv /\ LedgerInv)
BY InitLedger, NextLedger, InitType, NextType, PTL DEF Spec

\* Every notification is counted once, or is in its listener's hands.
THEOREM EveryNotificationAccounted == Spec => []NotificationsAccounted
<1>1. LedgerInv => NotificationsAccounted
  BY DEF LedgerInv
<1>. QED BY <1>1, LedgerCorrect, PTL

\* No entry the queue accepted is lost between admission and the fetch stage.
THEOREM NoWorkLost == Spec => []WorkAccounted
<1>1. LedgerInv => WorkAccounted
  BY DEF LedgerInv
<1>. QED BY <1>1, LedgerCorrect, PTL

\* A refusal means a queue full of fresh work, and evicts nothing.
THEOREM RefusalsAreJustified == Spec => RefusedOnlyWhenFreshFull
<1>1. TypeInv /\ LedgerInv /\ [Next]_vars =>
        [n'.dropped # n.dropped => /\ items' = items
                                   /\ Cardinality(items) = Capacity
                                   /\ \A e \in items : ~Stale(e)]_vars
  <2>. SUFFICES ASSUME TypeInv, LedgerInv, Next, n'.dropped # n.dropped
                PROVE  items' = items /\ Cardinality(items) = Capacity /\ \A e \in items : ~Stale(e)
    BY DEF vars
  <2>1. \E l \in Listeners : PushFull(l)
    BY DEF Next, Receive, Listener, Dispatcher, Terminating, vars,
       ReceiveFailed, ReceiveDuplicate, ReceiveNew, PushClosed, PushAccepted, NotifyOne,
       Record, StartRecv, TryRecv, CheckClosed, PollNotified, Wake, Dispatch, JobDone,
       Close, NotifyWaiters, Tick, Count, Counter
  <2>. QED BY <2>1, FullQueue
<1>. QED BY <1>1, LedgerCorrect, PTL DEF Spec, RefusedOnlyWhenFreshFull

-----------------------------------------------------------------------------
(* The gauge.  Record and Dispatch remove signatures from it, those of     *)
(* entries that have left the queue: harmless to a queued entry unless it  *)
(* has the same signature.  Hence the invariant follows a signature that   *)
(* entered once: it is in the hands of one listener at most, and on one    *)
(* entry at most of those queued, being evicted or just taken.             *)

InFlight == {"push", "notify", "record"}
Logged(s) == \E i \in 1..Len(log) : log[i] = s
Twice(s) == \E i, j \in 1..Len(log) : i # j /\ log[i] = s /\ log[j] = s
Entries == items \cup Pending \cup (IF dpc = "taken" THEN {taken} ELSE {})

\* A listener's new entry has a number above the taken one's.
TakenApart == dpc = "taken" => taken \notin items \cup Pending /\ taken.ord <= pushes

AllLogged ==
  /\ \A l \in Listeners : lpc[l] \in InFlight => Logged(hand[l].sig)
  /\ \A e \in Entries : Logged(e.sig)

OneEntry == \A e, f \in Entries : e # f /\ e.sig = f.sig => Twice(e.sig)

OneHand ==
  \A k, l \in Listeners :
    k # l /\ lpc[k] \in InFlight /\ lpc[l] \in InFlight /\ hand[k].sig = hand[l].sig
      => Twice(hand[l].sig)

HandBeforeEntry ==
  \A l \in Listeners : \A e \in Entries : lpc[l] = "push" /\ hand[l].sig = e.sig => Twice(e.sig)

GaugeInv ==
  /\ TakenApart
  /\ AllLogged
  /\ OneEntry
  /\ OneHand
  /\ HandBeforeEntry
  /\ GaugeCoversQueue

\* A signature that has entered twice stays so; the one that enters now has,
\* if it is on any entry or in any hand, entered twice.
LEMMA LogGrows ==
  ASSUME log \in Seq(Sigs), NEW s \in Sigs, log' = Append(log, s)
  PROVE  /\ \A x : Logged(x) => Logged(x)'
         /\ \A x : Twice(x) => Twice(x)'
         /\ Logged(s)'
         /\ Logged(s) => Twice(s)'
<1>1. /\ Len(log) \in Nat /\ Len(log') = Len(log) + 1 /\ log'[Len(log) + 1] = s
      /\ \A i \in 1..Len(log) : log'[i] = log[i]
  BY AppendProperties, LenProperties
<1>2. 1..Len(log) \subseteq 1..Len(log') /\ Len(log) + 1 \in 1..Len(log')
      /\ \A i \in 1..Len(log) : i # Len(log) + 1
  BY <1>1
<1>. QED BY <1>1, <1>2, Zenon DEF Logged, Twice

\* Steps that move no signature.
LEMMA QuietGauge ==
  ASSUME GaugeInv, UNCHANGED <<lpc, hand, items, pushes, evicting, taken, gauge, log>>,
         dpc' = "taken" <=> dpc = "taken"
  PROVE  GaugeInv'
<1>1. Entries' = Entries /\ Pending' = Pending
  BY DEF Entries, Pending
<1>2. (\A x : Logged(x)' <=> Logged(x)) /\ \A x : Twice(x)' <=> Twice(x)
  BY DEF Logged, Twice
<1>3. TakenApart'
  BY <1>1 DEF GaugeInv, TakenApart
<1>4. AllLogged' /\ OneEntry' /\ OneHand' /\ HandBeforeEntry'
  BY <1>1, <1>2, Zenon DEF GaugeInv, AllLogged, OneEntry, OneHand, HandBeforeEntry
<1>5. GaugeCoversQueue'
  BY DEF GaugeInv, GaugeCoversQueue, At
<1>. QED BY <1>3, <1>4, <1>5 DEF GaugeInv

\* Steps after which fewer entries and hands are left, and no signature of a
\* queued entry has left the gauge.
LEMMA ShrinkGauge ==
  ASSUME GaugeInv, UNCHANGED log, Entries' \subseteq Entries, TakenApart',
         \A l \in Listeners : lpc'[l] \in InFlight => hand'[l] = hand[l] /\ lpc[l] \in InFlight,
         \A l \in Listeners : lpc'[l] = "push" => lpc[l] = "push",
         GaugeCoversQueue'
  PROVE  GaugeInv'
<1>1. (\A x : Logged(x)' <=> Logged(x)) /\ \A x : Twice(x)' <=> Twice(x)
  BY DEF Logged, Twice
<1>2. AllLogged'
  BY <1>1 DEF GaugeInv, AllLogged
<1>3. OneEntry'
  BY <1>1, Zenon DEF GaugeInv, OneEntry
<1>4. OneHand'
  BY <1>1, Zenon DEF GaugeInv, OneHand
<1>5. HandBeforeEntry'
  <2>. SUFFICES ASSUME NEW l \in Listeners, NEW e \in Entries', lpc'[l] = "push",
                       hand'[l].sig = e.sig
                PROVE  Twice(e.sig)'
    BY Zenon DEF HandBeforeEntry
  <2>1. lpc[l] = "push" /\ hand[l].sig = e.sig /\ e \in Entries
    BY DEF InFlight
  <2>. QED BY <1>1, <2>1, Zenon DEF GaugeInv, HandBeforeEntry
<1>. QED BY <1>2, <1>3, <1>4, <1>5 DEF GaugeInv

\* A listener drops what it has in hand: the queue is closed, or full.
LEMMA LeavePush ==
  ASSUME TypeInv, GaugeInv, NEW l \in Listeners, NEW pc \in {"stream", "returned"},
         lpc[l] = "push", lpc' = [lpc EXCEPT ![l] = pc], hand' = [hand EXCEPT ![l] = None],
         UNCHANGED <<items, pushes, evicting, dpc, taken, gauge, log>>
  PROVE  GaugeInv'
<1>1. /\ lpc'[l] = pc
      /\ \A k \in Listeners : k # l => lpc'[k] = lpc[k] /\ hand'[k] = hand[k]
  BY DEF TypeInv, TypeOK
<1>2. Entries' = Entries /\ TakenApart'
  BY DEF Entries, Pending, GaugeInv, TakenApart
<1>3. GaugeCoversQueue'
  <2>1. \A k \in At({"notify", "record"}) : k \in At({"notify", "record"})' /\ hand'[k] = hand[k]
    BY <1>1 DEF At
  <2>2. items' = items /\ gauge' = gauge /\ log' = log
    OBVIOUS
  <2>. SUFFICES ASSUME NEW e \in items
                PROVE  \/ e.sig \in gauge
                       \/ \E k \in At({"notify", "record"})' : hand'[k].sig = e.sig
                       \/ Twice(e.sig)
    BY <2>2 DEF GaugeCoversQueue, Twice
  <2>3. \/ e.sig \in gauge
        \/ \E k \in At({"notify", "record"}) : hand[k].sig = e.sig
        \/ Twice(e.sig)
    BY DEF GaugeInv, GaugeCoversQueue, Twice
  <2>. QED BY <2>1, <2>3, Zenon
<1>4. \A k \in Listeners : lpc'[k] \in InFlight => hand'[k] = hand[k] /\ lpc[k] \in InFlight
  BY <1>1 DEF InFlight
<1>5. \A k \in Listeners : lpc'[k] = "push" => lpc[k] = "push"
  BY <1>1
<1>. QED BY <1>2, <1>3, <1>4, <1>5, ShrinkGauge

LEMMA NextGauge == TypeInv /\ LedgerInv /\ GaugeInv /\ [Next]_vars => GaugeInv'
<1>. SUFFICES ASSUME TypeInv, LedgerInv, GaugeInv, [Next]_vars PROVE GaugeInv'
  OBVIOUS
<1>t. /\ lpc \in [Listeners -> {"stream", "push", "notify", "record", "returned"}]
      /\ hand \in [Listeners -> Event \cup {None}]
      /\ evicting \in [Listeners -> SUBSET Entry] /\ pushes \in Nat
      /\ log \in Seq(Sigs) /\ items \subseteq Entry
      /\ \A l \in Listeners : lpc[l] \in InFlight => hand[l] # None
      /\ dpc = "taken" => taken \in Entry
  BY DEF TypeInv, TypeOK, InHand, InFlight
<1>1. ASSUME NEW l \in Listeners, ReceiveFailed(l) PROVE GaugeInv'
  BY <1>1, QuietGauge DEF ReceiveFailed
<1>2. ASSUME NEW l \in Listeners, NEW s \in Sigs, ReceiveDuplicate(l, s) PROVE GaugeInv'
  BY <1>2, QuietGauge DEF ReceiveDuplicate
<1>3. ASSUME NEW l \in Listeners, NEW s \in Sigs, ReceiveNew(l, s) PROVE GaugeInv'
  <2>1. /\ lpc[l] = "stream" /\ lpc' = [lpc EXCEPT ![l] = "push"]
        /\ hand' = [hand EXCEPT ![l] = [sig |-> s, at |-> now]]
        /\ log' = Append(log, s)
        /\ UNCHANGED <<items, pushes, evicting, dpc, taken, gauge>>
    BY <1>3 DEF ReceiveNew, Goto
  <2>2. /\ lpc'[l] = "push" /\ hand'[l].sig = s
        /\ \A k \in Listeners : k # l => lpc'[k] = lpc[k] /\ hand'[k] = hand[k]
    BY <2>1, <1>t
  <2>3. Entries' = Entries /\ TakenApart'
    BY <2>1 DEF Entries, Pending, GaugeInv, TakenApart
  <2>4. /\ \A x : Logged(x) => Logged(x)'
        /\ \A x : Twice(x) => Twice(x)'
        /\ Logged(s)'
        /\ Logged(s) => Twice(s)'
    BY <2>1, <1>t, LogGrows
  <2>5. AllLogged'
    BY <2>2, <2>3, <2>4, Zenon DEF GaugeInv, AllLogged
  <2>6. OneEntry'
    BY <2>3, <2>4, Zenon DEF GaugeInv, OneEntry
  <2>7. OneHand'
    BY <2>2, <2>4, Zenon DEF GaugeInv, OneHand, AllLogged
  <2>8. HandBeforeEntry'
    BY <2>2, <2>3, <2>4, Zenon DEF GaugeInv, HandBeforeEntry, AllLogged
  <2>9. GaugeCoversQueue'
    <3>. SUFFICES ASSUME NEW e \in items
                  PROVE  \/ e.sig \in gauge
                         \/ \E k \in At({"notify", "record"})' : hand'[k].sig = e.sig
                         \/ Twice(e.sig)'
      BY <2>1, Zenon DEF GaugeCoversQueue, Twice
    <3>1. \/ e.sig \in gauge
          \/ \E k \in At({"notify", "record"}) : hand[k].sig = e.sig
          \/ Twice(e.sig)
      BY DEF GaugeInv, GaugeCoversQueue, Twice
    <3>2. \A k \in At({"notify", "record"}) : k # l /\ k \in At({"notify", "record"})'
      BY <2>1, <2>2 DEF At
    <3>3. \A k \in At({"notify", "record"}) : hand'[k] = hand[k]
      BY <2>2, <3>2 DEF At
    <3>. QED BY <3>1, <3>2, <3>3, <2>4, Zenon
  <2>. QED BY <2>3, <2>5, <2>6, <2>7, <2>8, <2>9 DEF GaugeInv
<1>4. ASSUME NEW l \in Listeners, PushClosed(l) PROVE GaugeInv'
  <2>1. /\ lpc[l] = "push" /\ lpc' = [lpc EXCEPT ![l] = "returned"]
        /\ hand' = [hand EXCEPT ![l] = None]
        /\ UNCHANGED <<items, pushes, evicting, dpc, taken, gauge, log>>
    BY <1>4 DEF PushClosed, Goto
  <2>. QED BY <2>1, <1>t, LeavePush
<1>5. ASSUME NEW l \in Listeners, PushFull(l) PROVE GaugeInv'
  <2>1. /\ lpc[l] = "push" /\ lpc' = [lpc EXCEPT ![l] = "stream"]
        /\ hand' = [hand EXCEPT ![l] = None]
        /\ UNCHANGED <<pushes, evicting, dpc, taken, gauge, log>>
    BY <1>5 DEF PushFull, Goto
  <2>2. items' = items
    BY <1>5, FullQueue
  <2>. QED BY <2>1, <2>2, <1>t, LeavePush
<1>6. ASSUME NEW l \in Listeners, PushAccepted(l) PROVE GaugeInv'
  <2>. DEFINE new == [ord |-> pushes + 1, sig |-> hand[l].sig, at |-> hand[l].at]
  <2>1. /\ lpc[l] = "push" /\ lpc' = [lpc EXCEPT ![l] = "notify"]
        /\ items' = Fresh \cup {new} /\ pushes' = pushes + 1
        /\ evicting' = [evicting EXCEPT ![l] = items \ Fresh]
        /\ UNCHANGED <<hand, dpc, taken, gauge, log>>
    BY <1>6 DEF PushAccepted, Goto
  <2>2. /\ lpc'[l] = "notify"
        /\ \A k \in Listeners : k # l => lpc'[k] = lpc[k]
    BY <2>1, <1>t
  <2>3. (\A x : Logged(x)' <=> Logged(x)) /\ \A x : Twice(x)' <=> Twice(x)
    BY <2>1 DEF Logged, Twice
  <2>4. evicting[l] = {}
    BY <2>1 DEF LedgerInv
  <2>5. Pending' = Pending \cup (items \ Fresh) /\ Fresh \subseteq items
    BY <2>1, <2>4, <1>t DEF Pending, Fresh
  <2>6. Entries' = Entries \cup {new}
    BY <2>1, <2>5 DEF Entries
  <2>7. TakenApart'
    <3>. SUFFICES ASSUME dpc = "taken"
                  PROVE  taken \notin items' \cup Pending' /\ taken.ord <= pushes'
      BY <2>1 DEF TakenApart
    <3>1. taken \notin items \cup Pending /\ taken.ord <= pushes /\ taken.ord \in Nat
      BY <1>t DEF GaugeInv, TakenApart, Entry
    <3>2. new.ord = pushes + 1 /\ taken # new
      BY <3>1, <1>t
    <3>. QED BY <3>1, <3>2, <2>1, <2>5, <1>t
  <2>8. new.sig = hand[l].sig
    OBVIOUS
  <2>. HIDE DEF new
  <2>9. AllLogged'
    <3>1. \A k \in Listeners : lpc'[k] \in InFlight => lpc[k] \in InFlight
      BY <2>1, <2>2 DEF InFlight
    <3>2. lpc[l] \in InFlight
      BY <2>1 DEF InFlight
    <3>3. hand' = hand
      BY <2>1
    <3>. QED BY <3>1, <3>2, <3>3, <2>3, <2>6, <2>8, Zenon DEF GaugeInv, AllLogged
  <2>10. \A e \in Entries : e.sig = new.sig => Twice(e.sig)
    BY <2>1, <2>8, Zenon DEF GaugeInv, HandBeforeEntry
  <2>11. OneEntry'
    <3>. SUFFICES ASSUME NEW e \in Entries', NEW f \in Entries', e # f, e.sig = f.sig
                  PROVE  Twice(e.sig)
      BY <2>3, Zenon DEF OneEntry
    <3>1. CASE e \in Entries /\ f \in Entries
      BY <3>1, Zenon DEF GaugeInv, OneEntry
    <3>2. CASE e = new /\ f \in Entries
      BY <3>2, <2>10, Zenon
    <3>3. CASE f = new /\ e \in Entries
      BY <3>3, <2>10, Zenon
    <3>. QED BY <3>1, <3>2, <3>3, <2>6, Zenon
  <2>12. OneHand'
    <3>1. \A k \in Listeners : lpc'[k] \in InFlight => lpc[k] \in InFlight
      BY <2>1, <2>2 DEF InFlight
    <3>2. hand' = hand
      BY <2>1
    <3>. QED BY <3>1, <3>2, <2>3, Zenon DEF GaugeInv, OneHand
  <2>13. HandBeforeEntry'
    <3>. SUFFICES ASSUME NEW k \in Listeners, NEW e \in Entries', lpc'[k] = "push",
                         hand[k].sig = e.sig
                  PROVE  Twice(e.sig)
      BY <2>1, <2>3 DEF HandBeforeEntry
    <3>1. k # l /\ lpc[k] = "push"
      BY <2>2
    <3>2. CASE e \in Entries
      BY <3>1, <3>2, Zenon DEF GaugeInv, HandBeforeEntry
    <3>3. CASE e = new
      <4>1. lpc[k] \in InFlight /\ lpc[l] \in InFlight
        BY <2>1, <3>1 DEF InFlight
      <4>2. hand[k].sig = hand[l].sig
        BY <3>3, <2>8
      <4>3. Twice(hand[l].sig)
        BY <3>1, <4>1, <4>2, Zenon DEF GaugeInv, OneHand
      <4>. QED BY <4>3, <3>3, <2>8
    <3>. QED BY <3>2, <3>3, <2>6
  <2>14. GaugeCoversQueue'
    <3>. SUFFICES ASSUME NEW e \in items'
                  PROVE  \/ e.sig \in gauge
                         \/ \E k \in At({"notify", "record"})' : hand[k].sig = e.sig
                         \/ Twice(e.sig)
      BY <2>1, Zenon DEF GaugeCoversQueue, Twice
    <3>1. CASE e = new
      <4>1. l \in At({"notify", "record"})'
        BY <2>2 DEF At
      <4>. QED BY <4>1, <3>1, <2>8
    <3>2. CASE e \in items
      <4>1. \/ e.sig \in gauge
            \/ \E k \in At({"notify", "record"}) : hand[k].sig = e.sig
            \/ Twice(e.sig)
        BY <3>2, Zenon DEF GaugeInv, GaugeCoversQueue, Twice
      <4>2. \A k \in At({"notify", "record"}) : k \in At({"notify", "record"})'
        BY <2>1, <2>2 DEF At
      <4>. QED BY <4>1, <4>2, Zenon
    <3>. QED BY <3>1, <3>2, <2>1, <2>5
  <2>. QED BY <2>7, <2>9, <2>11, <2>12, <2>13, <2>14 DEF GaugeInv
<1>7. ASSUME NEW l \in Listeners, NotifyOne(l) PROVE GaugeInv'
  <2>1. /\ lpc[l] = "notify" /\ lpc' = [lpc EXCEPT ![l] = "record"]
        /\ UNCHANGED <<hand, items, pushes, evicting, taken, gauge, log>>
        /\ dpc' = "taken" <=> dpc = "taken"
    BY <1>7 DEF NotifyOne, Goto
  <2>2. /\ lpc'[l] = "record"
        /\ \A k \in Listeners : k # l => lpc'[k] = lpc[k]
    BY <2>1, <1>t
  <2>3. Entries' = Entries /\ TakenApart'
    BY <2>1 DEF Entries, Pending, GaugeInv, TakenApart
  <2>4. GaugeCoversQueue'
    <3>1. At({"notify", "record"})' = At({"notify", "record"})
      BY <2>1, <2>2 DEF At
    <3>. QED BY <2>1, <3>1, Zenon DEF GaugeInv, GaugeCoversQueue
  <2>5. \A k \in Listeners : lpc'[k] \in InFlight => hand'[k] = hand[k] /\ lpc[k] \in InFlight
    BY <2>1, <2>2 DEF InFlight
  <2>6. \A k \in Listeners : lpc'[k] = "push" => lpc[k] = "push"
    BY <2>2
  <2>. QED BY <2>1, <2>3, <2>4, <2>5, <2>6, ShrinkGauge
<1>8. ASSUME NEW l \in Listeners, Record(l) PROVE GaugeInv'
  <2>1. /\ lpc[l] = "record" /\ lpc' = [lpc EXCEPT ![l] = "stream"]
        /\ evicting' = [evicting EXCEPT ![l] = {}]
        /\ hand' = [hand EXCEPT ![l] = None]
        /\ gauge' = (gauge \cup {hand[l].sig}) \ {e.sig : e \in evicting[l]}
        /\ UNCHANGED <<items, pushes, dpc, taken, log>>
    BY <1>8 DEF Record, Goto
  <2>2. /\ lpc'[l] = "stream"
        /\ \A k \in Listeners : k # l => lpc'[k] = lpc[k] /\ hand'[k] = hand[k]
    BY <2>1, <1>t
  <2>3. Pending' \subseteq Pending
    BY <2>1, <1>t DEF Pending
  <2>4. Entries' \subseteq Entries /\ TakenApart'
    BY <2>1, <2>3 DEF Entries, GaugeInv, TakenApart
  <2>5. GaugeCoversQueue'
    <3>. SUFFICES ASSUME NEW e \in items, ~Twice(e.sig)
                  PROVE  \/ e.sig \in gauge'
                         \/ \E k \in At({"notify", "record"})' : hand'[k].sig = e.sig
      BY <2>1, Zenon DEF GaugeCoversQueue, Twice
    <3>1. \A f \in evicting[l] : f.sig # e.sig
      <4>. SUFFICES ASSUME NEW f \in evicting[l], f.sig = e.sig PROVE FALSE
        OBVIOUS
      <4>1. f \in Pending /\ f \in Entries /\ e \in Entries
        BY DEF Pending, Entries
      <4>2. e # f
        BY <4>1 DEF LedgerInv
      <4>. QED BY <4>1, <4>2, Zenon DEF GaugeInv, OneEntry
    <3>2. \/ e.sig \in gauge
          \/ \E k \in At({"notify", "record"}) : hand[k].sig = e.sig
      BY Zenon DEF GaugeInv, GaugeCoversQueue, Twice
    <3>3. \A k \in At({"notify", "record"}) :
            k # l => k \in At({"notify", "record"})' /\ hand'[k] = hand[k]
      BY <2>2 DEF At
    <3>4. e.sig \in gauge \cup {hand[l].sig} => e.sig \in gauge'
      BY <2>1, <3>1
    <3>. QED BY <3>2, <3>3, <3>4, Zenon
  <2>6. \A k \in Listeners : lpc'[k] \in InFlight => hand'[k] = hand[k] /\ lpc[k] \in InFlight
    BY <2>2 DEF InFlight
  <2>7. \A k \in Listeners : lpc'[k] = "push" => lpc[k] = "push"
    BY <2>2
  <2>. QED BY <2>1, <2>4, <2>5, <2>6, <2>7, ShrinkGauge
<1>9. CASE StartRecv
  BY <1>9, QuietGauge DEF StartRecv, Arm
<1>10. CASE TryRecv
  <2>1. CASE UNCHANGED <<items, taken>> /\ dpc' = "checking"
    BY <1>10, <2>1, QuietGauge DEF TryRecv
  <2>2. CASE \E e \in items : taken' = e /\ items' = items \ {e} /\ dpc' = "taken"
    <3>1. PICK e \in items : taken' = e /\ items' = items \ {e} /\ dpc' = "taken"
      BY <2>2
    <3>2. dpc = "armed" /\ UNCHANGED <<lpc, hand, pushes, evicting, gauge, log>>
      BY <1>10 DEF TryRecv
    <3>3. Pending' = Pending
      BY <3>2 DEF Pending
    <3>4. Entries' \subseteq Entries
      BY <3>1, <3>2, <3>3 DEF Entries
    <3>5. TakenApart'
      <4>1. e \notin Pending /\ e.ord <= pushes
        BY DEF LedgerInv
      <4>. QED BY <4>1, <3>1, <3>2, <3>3 DEF TakenApart
    <3>6. GaugeCoversQueue'
      BY <3>1, <3>2 DEF GaugeInv, GaugeCoversQueue, At
    <3>7. \A k \in Listeners : lpc'[k] \in InFlight => hand'[k] = hand[k] /\ lpc[k] \in InFlight
      BY <3>2
    <3>. QED BY <3>2, <3>4, <3>5, <3>6, <3>7, ShrinkGauge
  <2>. QED BY <1>10, <2>1, <2>2 DEF TryRecv
<1>11. CASE CheckClosed
  BY <1>11, QuietGauge DEF CheckClosed
<1>12. CASE PollNotified
  BY <1>12, QuietGauge DEF PollNotified, Arm
<1>13. CASE Wake
  BY <1>13, QuietGauge DEF Wake, Arm
<1>14. CASE Dispatch
  <2>1. /\ dpc = "taken" /\ dpc' = "idle" /\ gauge' = gauge \ {taken.sig}
        /\ UNCHANGED <<lpc, hand, items, pushes, evicting, log>>
    BY <1>14 DEF Dispatch
  <2>2. Entries' \subseteq Entries /\ TakenApart'
    BY <2>1 DEF Entries, Pending, TakenApart
  <2>3. \A e \in items : e.sig = taken.sig => Twice(e.sig)
    <3>. SUFFICES ASSUME NEW e \in items, e.sig = taken.sig PROVE Twice(e.sig)
      OBVIOUS
    <3>1. e # taken /\ e \in Entries /\ taken \in Entries
      BY <2>1 DEF GaugeInv, TakenApart, Entries
    <3>. QED BY <3>1, Zenon DEF GaugeInv, OneEntry
  <2>4. GaugeCoversQueue'
    <3>. SUFFICES ASSUME NEW e \in items, ~Twice(e.sig)
                  PROVE  \/ e.sig \in gauge'
                         \/ \E k \in At({"notify", "record"}) : hand[k].sig = e.sig
      BY <2>1, Zenon DEF GaugeCoversQueue, Twice, At
    <3>1. \/ e.sig \in gauge
          \/ \E k \in At({"notify", "record"}) : hand[k].sig = e.sig
      BY Zenon DEF GaugeInv, GaugeCoversQueue, Twice
    <3>. QED BY <3>1, <2>1, <2>3
  <2>5. \A k \in Listeners : lpc'[k] \in InFlight => hand'[k] = hand[k] /\ lpc[k] \in InFlight
    BY <2>1
  <2>. QED BY <2>1, <2>2, <2>4, <2>5, ShrinkGauge
<1>15. CASE JobDone
  BY <1>15, QuietGauge DEF JobDone
<1>16. CASE Close
  BY <1>16, QuietGauge DEF Close
<1>17. CASE NotifyWaiters
  BY <1>17, QuietGauge DEF NotifyWaiters
<1>18. CASE Tick
  BY <1>18, QuietGauge DEF Tick
<1>19. CASE UNCHANGED vars
  BY <1>19, QuietGauge DEF vars
<1>. QED
  BY <1>1, <1>2, <1>3, <1>4, <1>5, <1>6, <1>7, <1>8, <1>9, <1>10, <1>11, <1>12,
     <1>13, <1>14, <1>15, <1>16, <1>17, <1>18, <1>19, NextCases

\* The occupancy gauge never misses queued work of a signature that entered once.
THEOREM GaugeNeverMisses == Spec => []GaugeCoversQueue
<1>1. Init => GaugeInv
  <2>. SUFFICES ASSUME Init PROVE GaugeInv
    OBVIOUS
  <2>1. Entries = {} /\ items = {} /\ dpc = "idle" /\ \A l \in Listeners : lpc[l] = "stream"
    BY DEF Init, Entries, Pending
  <2>. QED BY <2>1 DEF GaugeInv, TakenApart, AllLogged, OneEntry, OneHand,
                       HandBeforeEntry, GaugeCoversQueue, InFlight
<1>2. GaugeInv => GaugeCoversQueue
  BY DEF GaugeInv
<1>. QED BY <1>1, <1>2, NextGauge, LedgerCorrect, PTL DEF Spec
=============================================================================
