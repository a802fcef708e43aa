--------------------------- MODULE TrackerProofs ---------------------------
(***************************************************************************)
(* Proofs about Tracker, for any pools, transactions, windows, capacities  *)
(* and age limit.                                                          *)
(***************************************************************************)
EXTENDS Tracker, Induction

\* Groups of variables are expanded everywhere.
USE DEF tracker, outputs, Open

\* The next-state relation, action by action.
LEMMA NextCases ==
  ASSUME Next, NEW G,
         TimerTick => G,
         \A t \in Txs : \A age \in 0..(MaxAge + 1) : Recv(t, age) => G,
         Interrupt => G, Shutdown => G,
         \A r \in rowQ : WriteRow(r) => G, WriteRowFails => G,
         TakeFeatures => G,
         \A f \in featureQ : WriteFeature(f) => G, WriteFeatureFails => G,
         Return => G, Process => G, ProcessFails => G, Tick => G,
         UNCHANGED vars => G
  PROVE  G
BY DEF Next, Write, Continue, Fail, Terminating

-----------------------------------------------------------------------------
(* Type correctness.  The delay of an event is a part of its age.          *)

TypeInv ==
  /\ TypeOK
  /\ ev.delay <= ev.age
  /\ \A p \in Open : Last \notin pools[p].sent

LEMMA Constants ==
  /\ Last \in Nat \ {0} /\ Windows = 1..Last /\ Last \in Windows
  /\ IsFiniteSet(Windows) /\ IsFiniteSet(Pools) /\ IsFiniteSet(Txs)
  /\ Horizon \in Nat /\ 2 * MaxAge <= Horizon
  /\ MaxAge \in Nat /\ MaxEvents \in Nat /\ MaxPools \in Nat /\ MaxTransactions \in Nat
  /\ \A w \in Windows : Ends[w] \in Nat \ {0}
<1>1. IsFiniteSet(Windows)
  BY TrackerAssumption, FS_Interval DEF TrackerAssumption
<1>. QED BY <1>1, TrackerAssumption DEF TrackerAssumption, Horizon

LEMMA NoEventType ==
  /\ NoEvent \in [tx : Txs, age : 0..(MaxAge + 1), delay : 0..MaxAge]
  /\ NoEvent.delay = 0 /\ NoEvent.age = 0
BY Constants, TrackerAssumption DEF NoEvent, TrackerAssumption

\* What advance leaves open and what it emits are well formed.
LEMMA AdvanceType ==
  ASSUME TypeInv
  PROVE  /\ DueRows \subseteq RowType
         /\ \A p \in Open : \A c \in BOOLEAN : Feature(p, c) \in FeatureType
         /\ \A p \in Open : \A w \in Windows : \A c \in BOOLEAN : Row(p, w, c) \in RowType
         /\ \A p \in Open \ Finished :
              /\ [pools[p] EXCEPT !.sent = @ \cup Due(p)] \in PoolState
              /\ Last \notin pools[p].sent \cup Due(p)
              /\ Cardinality(pools[p].sent \cup Due(p)) + 1 \in Windows
<1>. USE DEF TypeInv, TypeOK
<1>1. \A p \in Open : \A c \in BOOLEAN : Feature(p, c) \in FeatureType
  BY DEF Feature, FeatureType, PoolState
<1>2. \A p \in Open : \A w \in Windows : \A c \in BOOLEAN : Row(p, w, c) \in RowType
  BY DEF Row, RowType, PoolState
<1>3. DueRows \subseteq RowType
  <2>1. \A p \in Open : {Row(p, w, TRUE) : w \in Due(p)} \subseteq RowType
    BY <1>2 DEF Due
  <2>. QED BY <2>1, Zenon DEF DueRows
<1>4. ASSUME NEW p \in Open \ Finished
      PROVE  /\ [pools[p] EXCEPT !.sent = @ \cup Due(p)] \in PoolState
             /\ Last \notin pools[p].sent \cup Due(p)
             /\ Cardinality(pools[p].sent \cup Due(p)) + 1 \in Windows
  <2>. DEFINE S == pools[p].sent \cup Due(p)
  <2>1. S \subseteq Windows /\ Last \notin S
    BY DEF PoolState, Due, Finished
  <2>2. S \subseteq 1..(Last - 1)
    BY <2>1, Constants
  <2>3. Cardinality(S) \in Nat /\ Cardinality(S) <= Last - 1
    <3>1. Last - 1 \in Nat
      BY Constants
    <3>2. IsFiniteSet(1..(Last - 1)) /\ Cardinality(1..(Last - 1)) = Last - 1
      BY <3>1, FS_Interval
    <3>. QED BY <2>2, <3>2, FS_Subset, FS_CardinalityType
  <2>4. [pools[p] EXCEPT !.sent = S] \in PoolState
    BY <2>1 DEF PoolState
  <2>5. Cardinality(S) + 1 \in Windows
    BY <2>3, Constants
  <2>. QED BY <2>1, <2>4, <2>5
<1>. QED BY <1>1, <1>2, <1>3, <1>4

\* A new launch and an observed one are well formed.
LEMMA ObservedType ==
  ASSUME TypeInv, NEW p \in Pools, NEW r \in PoolState
  PROVE  Observed(p, r) \in PoolState
<1>. DEFINE tx == [w \in Windows |-> r.tx[w] + (IF w \in Inside(r) THEN 1 ELSE 0)]
           seen == r.seen \cup {ev.tx}
<1>1. Add(r) \in PoolState
  <2>1. tx \in [Windows -> Nat] /\ seen \subseteq Txs
    BY DEF PoolState, TypeInv, TypeOK
  <2>2. Add(r) = [[r EXCEPT !.seen = seen] EXCEPT !.tx = tx]
    BY DEF Add
  <2>. HIDE DEF tx, seen
  <2>. QED BY <2>1, <2>2 DEF PoolState
<1>2. [r EXCEPT !.capped = TRUE] \in PoolState
  BY DEF PoolState
<1>. QED BY <1>1, <1>2 DEF Observed

LEMMA RegisteredType ==
  ASSUME TypeInv, NEW admitted \in SUBSET Wanted, NEW p \in Open \cup admitted
  PROVE  /\ p \in Pools /\ Registered(admitted)[p] \in PoolState
         /\ p \in admitted => Registered(admitted)[p].sent = {}
         /\ p \notin admitted => Registered(admitted)[p] = pools[p]
<1>1. Wanted \subseteq Pools
  BY TrackerAssumption DEF Wanted, TrackerAssumption, TypeInv, TypeOK
<1>2. CASE p \notin admitted
  BY <1>2 DEF Registered, TypeInv, TypeOK
<1>3. CASE p \in admitted
  <2>1. ~Stale
    BY <1>3 DEF Wanted
  <2>2. ev.age + ev.delay \in 0..Horizon
    BY <2>1, Constants DEF Stale, TypeInv, TypeOK
  <2>3. NewPool(p) \in PoolState /\ NewPool(p).sent = {}
    BY <1>1, <1>3, <2>2 DEF NewPool, PoolState, TypeInv, TypeOK
  <2>. QED BY <1>1, <1>3, <2>3 DEF Registered
<1>. QED BY <1>2, <1>3

\* observe() never changes which windows were emitted, nor the launch.
LEMMA ObservedKeeps ==
  ASSUME NEW p, NEW r \in PoolState
  PROVE  /\ Observed(p, r).sent = r.sent /\ Observed(p, r).launch = r.launch
         /\ Observed(p, r).age = r.age
BY DEF Observed, Add, PoolState

LEMMA RegisterType ==
  ASSUME TypeInv, NEW admitted \in SUBSET Wanted, Register(Wanted, admitted)
  PROVE  /\ launches' \in [Pools -> Nat]
         /\ Cardinality(Wanted \ admitted) \in Nat
<1>1. Wanted \subseteq Pools
  BY TrackerAssumption DEF Wanted, TrackerAssumption, TypeInv, TypeOK
<1>2. IsFiniteSet(Wanted \ admitted)
  BY <1>1, Constants, FS_Subset
<1>. QED BY <1>2, FS_CardinalityType DEF Register, TypeInv, TypeOK

LEMMA InitType == Init => TypeInv
<1>. SUFFICES ASSUME Init PROVE TypeInv
  OBVIOUS
<1>1. Open = {} /\ rejected \in Nat /\ launches \in [Pools -> Nat]
  BY DEF Init
<1>2. received \in 0..MaxEvents
  BY Constants DEF Init
<1>3. /\ ev \in [tx : Txs, age : 0..(MaxAge + 1), delay : 0..MaxAge]
      /\ ev.delay <= ev.age
  BY NoEventType DEF Init
<1>4. TypeOK
  BY <1>1, <1>2, <1>3 DEF Init, TypeOK, Tasks
<1>. QED BY <1>1, <1>3, <1>4 DEF TypeInv

LEMMA NextType == TypeInv /\ [Next]_vars => TypeInv'
<1>. SUFFICES ASSUME TypeInv, [Next]_vars PROVE TypeInv'
  OBVIOUS
<1>. USE Constants DEF TypeInv, TypeOK, Tasks
<1>a. ASSUME Advance PROVE /\ rowQ' \subseteq RowType /\ completed' \subseteq FeatureType
                           /\ Open' \subseteq Pools
                           /\ \A p \in Open' : pools'[p] \in PoolState
                           /\ \A p \in Open' : Last \notin pools'[p].sent
  <2>1. Open' = Open \ Finished /\ \A p \in Open' : pools'[p] = [pools[p] EXCEPT !.sent = @ \cup Due(p)]
    BY <1>a DEF Advance
  <2>2. Finished \subseteq Open
    BY DEF Finished
  <2>3. completed' \subseteq FeatureType
    BY <1>a, <2>2, AdvanceType DEF Advance
  <2>4. \A p \in Open' : pools'[p].sent = pools[p].sent \cup Due(p)
    BY <2>1, SMTT(60) DEF PoolState
  <2>. QED BY <1>a, <2>1, <2>3, <2>4, AdvanceType DEF Advance
<1>1. ASSUME TimerTick PROVE TypeInv'
  BY <1>1, <1>a DEF TimerTick
<1>2. ASSUME NEW t \in Txs, NEW age \in 0..(MaxAge + 1), Recv(t, age) PROVE TypeInv'
  <2>1. ev' \in [tx : Txs, age : 0..(MaxAge + 1), delay : 0..MaxAge] /\ ev'.delay <= ev'.age
    BY <1>2 DEF Recv
  <2>2. received' \in 0..MaxEvents
    BY <1>2 DEF Recv
  <2>. QED BY <1>2, <1>a, <2>1, <2>2 DEF Recv
<1>3. ASSUME Interrupt PROVE TypeInv'
  BY <1>3 DEF Interrupt
<1>4. ASSUME Shutdown PROVE TypeInv'
  <2>1. Finished \subseteq Open
    BY DEF Finished
  <2>2. rowQ' \subseteq RowType /\ completed' \subseteq FeatureType
    BY <1>4, <2>1, AdvanceType, ZenonT(60) DEF Shutdown
  <2>3. Open' = {}
    BY <1>4 DEF Shutdown
  <2>. QED BY <1>4, <2>2, <2>3 DEF Shutdown
<1>5. ASSUME NEW r \in rowQ, WriteRow(r) PROVE TypeInv'
  BY <1>5 DEF WriteRow
<1>6. ASSUME WriteRowFails PROVE TypeInv'
  BY <1>6, NoEventType DEF WriteRowFails
<1>7. ASSUME TakeFeatures PROVE TypeInv'
  BY <1>7 DEF TakeFeatures
<1>8. ASSUME NEW f \in featureQ, WriteFeature(f) PROVE TypeInv'
  BY <1>8 DEF WriteFeature
<1>9. ASSUME WriteFeatureFails PROVE TypeInv'
  BY <1>9, NoEventType DEF WriteFeatureFails
<1>10. ASSUME Return PROVE TypeInv'
  BY <1>10 DEF Return
<1>11. ASSUME Process PROVE TypeInv'
  <2>1. PICK admitted \in SUBSET Wanted :
          /\ Register(Wanted, admitted)
          /\ rejected' = rejected + Cardinality(Wanted \ admitted)
          /\ pools' = [p \in DOMAIN Registered(admitted) |-> Observed(p, Registered(admitted)[p])]
    BY <1>11 DEF Process
  <2>2. Open' = Open \cup admitted
    BY <2>1 DEF Registered
  <2>3. ASSUME NEW p \in Open'
        PROVE  p \in Pools /\ pools'[p] \in PoolState /\ Last \notin pools'[p].sent
    <3>1. pools'[p] = Observed(p, Registered(admitted)[p])
      BY <2>1, <2>3
    <3>2. p \in Pools /\ Registered(admitted)[p] \in PoolState
          /\ Last \notin Registered(admitted)[p].sent
      BY <2>2, RegisteredType
    <3>. QED BY <3>1, <3>2, ObservedType, ObservedKeeps
  <2>4. rejected' \in Nat /\ launches' \in [Pools -> Nat]
    BY <2>1, RegisterType
  <2>. QED BY <1>11, <2>3, <2>4, NoEventType DEF Process
<1>12. ASSUME ProcessFails PROVE TypeInv'
  <2>1. PICK admitted \in SUBSET Wanted :
          /\ Register(Wanted, admitted)
          /\ pools' = Registered(admitted)
          /\ \E k \in 0..Cardinality(Wanted \ admitted) : rejected' = rejected + k
    BY <1>12 DEF ProcessFails
  <2>2. Open' = Open \cup admitted
    BY <2>1 DEF Registered
  <2>3. ASSUME NEW p \in Open'
        PROVE  p \in Pools /\ pools'[p] \in PoolState /\ Last \notin pools'[p].sent
    BY <2>1, <2>2, RegisteredType
  <2>4. rejected' \in Nat /\ launches' \in [Pools -> Nat]
    BY <2>1, RegisterType
  <2>. QED BY <1>12, <2>3, <2>4, NoEventType, SMTT(60) DEF ProcessFails
<1>13. ASSUME Tick PROVE TypeInv'
  <2>1. Open' = Open /\ \A p \in Open' : pools'[p] =
          [pools[p] EXCEPT !.age = IF @ < Horizon THEN @ + 1 ELSE @]
    BY <1>13 DEF Tick
  <2>2. ASSUME NEW p \in Open' PROVE pools'[p] \in PoolState /\ pools'[p].sent = pools[p].sent
    <3>1. pools[p] \in PoolState /\ pools[p].age \in 0..Horizon
      BY <2>1 DEF PoolState
    <3>. DEFINE age == IF pools[p].age < Horizon THEN pools[p].age + 1 ELSE pools[p].age
    <3>2. age \in 0..Horizon
      BY <3>1, SMTT(60)
    <3>3. pools'[p] = [pools[p] EXCEPT !.age = age]
      BY <2>1, <2>2
    <3>. HIDE DEF age
    <3>. QED BY <3>1, <3>2, <3>3 DEF PoolState
  <2>3. ev' \in [tx : Txs, age : 0..(MaxAge + 1), delay : 0..MaxAge] /\ ev'.delay <= ev'.age
    <3>1. \/ ev' = ev
          \/ ev.age < MaxAge /\ ev' = [ev EXCEPT !.age = @ + 1, !.delay = @ + 1]
          \/ ev' = [ev EXCEPT !.age = MaxAge + 1, !.delay = 0]
      BY <1>13 DEF Tick
    <3>2. CASE ev' = ev
      BY <3>2
    <3>3. CASE ev.age < MaxAge /\ ev' = [ev EXCEPT !.age = @ + 1, !.delay = @ + 1]
      <4>1. ev.age + 1 \in 0..(MaxAge + 1) /\ ev.delay + 1 \in 0..MaxAge /\ ev.delay + 1 <= ev.age + 1
        BY <3>3, SMTT(60)
      <4>. QED BY <3>3, <4>1
    <3>4. CASE ev' = [ev EXCEPT !.age = MaxAge + 1, !.delay = 0]
      <4>1. MaxAge + 1 \in 0..(MaxAge + 1) /\ 0 \in 0..MaxAge /\ 0 <= MaxAge + 1
        OBVIOUS
      <4>. QED BY <3>4, <4>1
    <3>. QED BY <3>1, <3>2, <3>3, <3>4
  <2>. QED BY <1>13, <2>1, <2>2, <2>3 DEF Tick
<1>14. ASSUME UNCHANGED vars PROVE TypeInv'
  BY <1>14 DEF vars, PoolState
<1>. QED
  BY <1>1, <1>2, <1>3, <1>4, <1>5, <1>6, <1>7, <1>8, <1>9, <1>10, <1>11, <1>12, <1>13,
     <1>14, NextCases

\* The tracker and the coordinator keep their types, whatever the order of events,
\* writes and time (TypeOK with what it needs to be inductive).
THEOREM TypeCorrect == Spec => []TypeInv
BY InitType, NextType, PTL DEF Spec

\* The tracker and the coordinator keep their types (TypeOK).
THEOREM TypeSafe == Spec => []TypeOK
<1>1. TypeInv => TypeOK
  BY DEF TypeInv
<1>. QED BY <1>1, TypeCorrect, PTL

-----------------------------------------------------------------------------
(* What was emitted.  A launch is the one its pool has open, or is known by *)
(* a feature, and its rows agree with both.                                *)

Rows == rowQ \cup rows
Reports == completed \cup featureQ \cup features

ReportInv ==
  /\ \A p \in Open : pools[p].launch = launches[p]
  /\ \A r \in Rows :
       /\ r.launch <= launches[r.pool]
       /\ r.pool \in Open /\ pools[r.pool].launch = r.launch =>
            /\ r.window \in pools[r.pool].sent
            /\ pools[r.pool].tx[r.window] = r.tx
  /\ \A f \in Reports :
       /\ f.launch <= launches[f.pool]
       /\ f.pool \in Open => f.launch # pools[f.pool].launch
  /\ \A r \in Rows, f \in Reports :
       r.pool = f.pool /\ r.launch = f.launch => f.tx[r.window] = r.tx
  /\ \A f, g \in Reports : f.pool = g.pool /\ f.launch = g.launch => f = g
  /\ ~failed =>
       \A p \in Pools : \A k \in 1..launches[p] :
         \/ p \in Open /\ pools[p].launch = k
         \/ \E f \in Reports : f.pool = p /\ f.launch = k

\* A step that closes pools: what it adds tells of launches that were open.
Closing ==
  /\ Open' \subseteq Open /\ launches' = launches /\ (failed => failed')
  /\ \A p \in Open' : /\ pools'[p].launch = pools[p].launch
                      /\ pools'[p].tx = pools[p].tx
                      /\ pools[p].sent \subseteq pools'[p].sent
  /\ \A r \in Rows' \ Rows :
       \E p \in Open, w \in Windows, c \in BOOLEAN :
         r = Row(p, w, c) /\ (p \in Open' => w \in pools'[p].sent)
  /\ \A f \in Reports' \ Reports : \E p \in Open \ Open', c \in BOOLEAN : f = Feature(p, c)
  /\ \A f, g \in Reports' \ Reports : f.pool = g.pool => f = g
  /\ ~failed' =>
       /\ Reports \subseteq Reports'
       /\ \A p \in Open \ Open' : \E f \in Reports' : \E c \in BOOLEAN : f = Feature(p, c)

LEMMA ClosingKeeps == TypeInv /\ ReportInv /\ Closing => ReportInv'
<1>. SUFFICES ASSUME TypeInv, ReportInv, Closing PROVE ReportInv'
  OBVIOUS
<1>p. \A p \in Open : pools[p] \in PoolState /\ p \in Pools
  BY DEF TypeInv, TypeOK
<1>r. ASSUME NEW r \in Rows' \ Rows
      PROVE  \E p \in Open : /\ r.pool = p /\ r.launch = pools[p].launch
                             /\ r.window \in Windows /\ r.tx = pools[p].tx[r.window]
                             /\ p \in Open' => r.window \in pools'[p].sent
  BY <1>r DEF Closing, Row
<1>f. ASSUME NEW f \in Reports' \ Reports
      PROVE  \E p \in Open \ Open' : f.pool = p /\ f.launch = pools[p].launch /\ f.tx = pools[p].tx
  BY <1>f DEF Closing, Feature
<1>l. \A p \in Pools : launches[p] \in Nat
  BY DEF TypeInv, TypeOK
<1>1. \A p \in Open' : pools'[p].launch = launches'[p]
  BY DEF Closing, ReportInv
<1>2. ASSUME NEW r \in Rows'
      PROVE  /\ r.launch <= launches'[r.pool]
             /\ r.pool \in Open' /\ pools'[r.pool].launch = r.launch =>
                  /\ r.window \in pools'[r.pool].sent
                  /\ pools'[r.pool].tx[r.window] = r.tx
  <2>1. CASE r \in Rows
    BY <2>1 DEF Closing, ReportInv
  <2>2. CASE r \notin Rows
    <3>1. PICK p \in Open : /\ r.pool = p /\ r.launch = pools[p].launch
                            /\ r.window \in Windows /\ r.tx = pools[p].tx[r.window]
                            /\ p \in Open' => r.window \in pools'[p].sent
      BY <2>2, <1>r
    <3>. QED BY <3>1, <1>p, <1>l DEF Closing, ReportInv
  <2>. QED BY <2>1, <2>2
<1>3. ASSUME NEW f \in Reports'
      PROVE  /\ f.launch <= launches'[f.pool]
             /\ f.pool \in Open' => f.launch # pools'[f.pool].launch
  <2>1. CASE f \in Reports
    BY <2>1 DEF Closing, ReportInv
  <2>2. CASE f \notin Reports
    BY <2>2, <1>f, <1>p, <1>l DEF Closing, ReportInv
  <2>. QED BY <2>1, <2>2
<1>4. ASSUME NEW r \in Rows', NEW f \in Reports', r.pool = f.pool, r.launch = f.launch
      PROVE  f.tx[r.window] = r.tx
  <2>1. CASE r \in Rows /\ f \in Reports
    BY <1>4, <2>1 DEF ReportInv
  <2>2. CASE r \in Rows /\ f \notin Reports
    BY <1>4, <2>2, <1>f DEF ReportInv
  <2>3. CASE r \notin Rows /\ f \in Reports
    BY <1>4, <2>3, <1>r DEF ReportInv
  <2>4. CASE r \notin Rows /\ f \notin Reports
    BY <1>4, <2>4, <1>r, <1>f
  <2>. QED BY <2>1, <2>2, <2>3, <2>4
<1>5. ASSUME NEW f \in Reports', NEW g \in Reports', f.pool = g.pool, f.launch = g.launch
      PROVE  f = g
  <2>1. CASE f \in Reports /\ g \in Reports
    BY <1>5, <2>1 DEF ReportInv
  <2>2. CASE f \notin Reports /\ g \notin Reports
    BY <1>5, <2>2 DEF Closing
  <2>3. CASE f \in Reports /\ g \notin Reports
    BY <1>5, <2>3, <1>f DEF ReportInv
  <2>4. CASE f \notin Reports /\ g \in Reports
    BY <1>5, <2>4, <1>f DEF ReportInv
  <2>. QED BY <2>1, <2>2, <2>3, <2>4
<1>6. ASSUME ~failed', NEW p \in Pools, NEW k \in 1..launches'[p]
      PROVE  \/ p \in Open' /\ pools'[p].launch = k
             \/ \E f \in Reports' : f.pool = p /\ f.launch = k
  <2>1. \/ p \in Open /\ pools[p].launch = k
        \/ \E f \in Reports : f.pool = p /\ f.launch = k
    BY <1>6 DEF Closing, ReportInv
  <2>2. CASE p \in Open \ Open' /\ pools[p].launch = k
    BY <1>6, <2>2 DEF Closing, Feature
  <2>3. CASE p \in Open' /\ pools[p].launch = k
    BY <2>3 DEF Closing
  <2>4. CASE \E f \in Reports : f.pool = p /\ f.launch = k
    BY <1>6, <2>4 DEF Closing
  <2>. QED BY <2>1, <2>2, <2>3, <2>4
<1>. QED BY <1>1, <1>2, <1>3, <1>4, <1>5, <1>6 DEF ReportInv

\* A transaction falls into at most one window of a pool.
LEMMA OneWindow ==
  ASSUME TypeInv, NEW r \in PoolState, NEW v \in Inside(r), NEW w \in Inside(r)
  PROVE  v = w
<1>1. ASSUME NEW a \in Inside(r), NEW b \in Inside(r), a < b PROVE FALSE
  <2>1. a \in Windows /\ b \in Windows /\ ObservedAge(r) \in Int
    BY DEF Inside, ObservedAge, PoolState, TypeInv, TypeOK
  <2>2. Start(b) = Ends[b - 1] /\ b - 1 \in Windows /\ a <= b - 1
    BY <1>1, <2>1, Constants DEF Start
  <2>3. Ends[a] <= Ends[b - 1]
    <3>1. CASE a = b - 1
      BY <3>1, <2>1, Constants
    <3>2. CASE a < b - 1
      BY <3>2, <2>1, <2>2, Constants, TrackerAssumption DEF TrackerAssumption
    <3>. QED BY <2>1, <2>2, <3>1, <3>2, Constants
  <2>4. ObservedAge(r) < Ends[a] /\ Start(b) <= ObservedAge(r)
    BY DEF Inside
  <2>. QED BY <2>1, <2>2, <2>3, <2>4, Constants
<1>2. v \in Int /\ w \in Int
  BY Constants DEF Inside
<1>. QED BY <1>1, <1>2

\* observe() leaves the windows alone that were emitted.
LEMMA EmittedKept ==
  ASSUME TypeInv, NEW p, NEW r \in PoolState, NEW w \in r.sent
  PROVE  Observed(p, r).tx[w] = r.tx[w]
<1>. DEFINE tx == [u \in Windows |-> r.tx[u] + (IF u \in Inside(r) THEN 1 ELSE 0)]
<1>1. CASE Inside(r) \subseteq r.sent
  BY <1>1 DEF Observed
<1>2. CASE w \notin Inside(r)
  <2>1. w \in Windows /\ r.tx[w] \in Nat
    BY DEF PoolState
  <2>2. tx[w] = r.tx[w]
    BY <1>2, <2>1
  <2>3. Observed(p, r).tx = r.tx \/ Observed(p, r).tx = tx
    BY DEF Observed, Add, PoolState
  <2>. QED BY <2>2, <2>3
<1>3. CASE w \in Inside(r) /\ ~(Inside(r) \subseteq r.sent)
  BY <1>3, OneWindow
<1>. QED BY <1>1, <1>2, <1>3

\* A step that registers launches and counts a transaction.
Registering(admitted) ==
  /\ Register(Wanted, admitted) /\ Open' = Open \cup admitted
  /\ \A p \in Open' :
       LET r == Registered(admitted)[p] IN
       /\ pools'[p].launch = r.launch /\ pools'[p].sent = r.sent
       /\ \A w \in r.sent : pools'[p].tx[w] = r.tx[w]
  /\ Rows' = Rows /\ Reports' = Reports /\ (failed => failed')

LEMMA RegisteringKeeps ==
  ASSUME TypeInv, ReportInv, NEW admitted \in SUBSET Wanted, Registering(admitted)
  PROVE  ReportInv'
<1>. admitted \cap Open = {} /\ admitted \subseteq Pools
  BY TrackerAssumption DEF Wanted, TrackerAssumption, TypeInv, TypeOK
<1>l. \A p \in Pools : launches[p] \in Nat
  BY DEF TypeInv, TypeOK
<1>o. \A p \in Open : p \in Pools
  BY DEF TypeInv, TypeOK
<1>r. \A r \in Rows : r.pool \in Pools /\ r.launch \in Nat
  BY DEF Rows, RowType, TypeInv, TypeOK
<1>f. \A f \in Reports : f.pool \in Pools /\ f.launch \in Nat
  BY DEF Reports, FeatureType, TypeInv, TypeOK
<1>1. \A p \in Pools : launches'[p] = launches[p] + (IF p \in admitted THEN 1 ELSE 0)
  BY DEF Registering, Register
<1>2. \A p \in Open : pools'[p].launch = pools[p].launch /\ pools'[p].sent = pools[p].sent
                      /\ \A w \in pools[p].sent : pools'[p].tx[w] = pools[p].tx[w]
  BY DEF Registering, Registered
<1>3. \A p \in admitted : pools'[p].launch = launches[p] + 1
  BY DEF Registering, Registered, NewPool
<1>4. Open' = Open \cup admitted
  BY DEF Registering
<1>5. \A p \in Open' : pools'[p].launch = launches'[p]
  BY <1>1, <1>2, <1>3, <1>4, <1>l, <1>o DEF ReportInv
<1>6. ASSUME NEW r \in Rows'
      PROVE  /\ r.launch <= launches'[r.pool]
             /\ r.pool \in Open' /\ pools'[r.pool].launch = r.launch =>
                  /\ r.window \in pools'[r.pool].sent
                  /\ pools'[r.pool].tx[r.window] = r.tx
  <2>1. r \in Rows /\ r.launch <= launches[r.pool]
    BY DEF Registering, ReportInv
  <2>2. r.launch <= launches'[r.pool]
    BY <2>1, <1>1, <1>l, <1>r
  <2>3. ASSUME r.pool \in admitted PROVE pools'[r.pool].launch # r.launch
    BY <2>1, <2>3, <1>3, <1>l, <1>r
  <2>. QED BY <2>1, <2>2, <2>3, <1>2, <1>4 DEF ReportInv
<1>7. ASSUME NEW f \in Reports'
      PROVE  /\ f.launch <= launches'[f.pool]
             /\ f.pool \in Open' => f.launch # pools'[f.pool].launch
  <2>1. f \in Reports /\ f.launch <= launches[f.pool]
    BY DEF Registering, ReportInv
  <2>2. f.launch <= launches'[f.pool]
    BY <2>1, <1>1, <1>l, <1>f
  <2>3. ASSUME f.pool \in admitted PROVE pools'[f.pool].launch # f.launch
    BY <2>1, <2>3, <1>3, <1>l, <1>f
  <2>. QED BY <2>1, <2>2, <2>3, <1>2, <1>4 DEF ReportInv
<1>8. ASSUME ~failed', NEW p \in Pools, NEW k \in 1..launches'[p]
      PROVE  \/ p \in Open' /\ pools'[p].launch = k
             \/ \E f \in Reports' : f.pool = p /\ f.launch = k
  <2>1. CASE k \in 1..launches[p]
    <3>1. \/ p \in Open /\ pools[p].launch = k
          \/ \E f \in Reports : f.pool = p /\ f.launch = k
      BY <1>8, <2>1 DEF Registering, ReportInv
    <3>. QED BY <3>1, <1>2, <1>4 DEF Registering
  <2>2. CASE k \notin 1..launches[p]
    <3>1. p \in admitted /\ k = launches[p] + 1
      BY <2>2, <1>1, <1>l, <1>8
    <3>. QED BY <3>1, <1>3, <1>4
  <2>. QED BY <2>1, <2>2
<1>. QED BY <1>5, <1>6, <1>7, <1>8 DEF Registering, ReportInv

\* The timer and the receipt of an event close what is due.
LEMMA AdvanceCloses ==
  ASSUME TypeInv, Advance, UNCHANGED <<launches, rows, featureQ, features, failed>>
  PROVE  Closing
<1>1. Finished \subseteq Open /\ Open' = Open \ Finished
  BY DEF Advance, Finished
<1>2. ASSUME NEW p \in Open'
      PROVE  /\ pools'[p].launch = pools[p].launch /\ pools'[p].tx = pools[p].tx
             /\ pools'[p].sent = pools[p].sent \cup Due(p)
  <2>1. pools'[p] = [pools[p] EXCEPT !.sent = @ \cup Due(p)] /\ pools[p] \in PoolState
    BY <1>1, <1>2 DEF Advance, TypeInv, TypeOK
  <2>. QED BY <2>1 DEF PoolState
<1>3. ASSUME NEW r \in Rows' \ Rows
      PROVE  \E p \in Open, w \in Windows, c \in BOOLEAN :
               r = Row(p, w, c) /\ (p \in Open' => w \in pools'[p].sent)
  <2>1. r \in DueRows
    BY <1>3 DEF Rows, Advance
  <2>2. PICK p \in Open : r \in {Row(p, w, TRUE) : w \in Due(p)}
    BY <2>1, Zenon DEF DueRows
  <2>. QED BY <2>2, <1>2 DEF Due
<1>4. ASSUME NEW f \in Reports' \ Reports
      PROVE  \E p \in Finished : f = Feature(p, TRUE)
  BY <1>4 DEF Reports, Advance
<1>5. ASSUME NEW f \in Reports' \ Reports, NEW g \in Reports' \ Reports, f.pool = g.pool
      PROVE  f = g
  <2>1. PICK p \in Finished : f = Feature(p, TRUE)
    BY <1>4
  <2>2. PICK q \in Finished : g = Feature(q, TRUE)
    BY <1>4
  <2>. QED BY <1>5, <2>1, <2>2 DEF Feature
<1>6. Reports \subseteq Reports' /\ \A p \in Finished : Feature(p, TRUE) \in Reports'
  BY DEF Reports, Advance
<1>. QED BY <1>1, <1>2, <1>3, <1>4, <1>5, <1>6 DEF Closing

LEMMA ShutdownCloses == ASSUME TypeInv, Shutdown PROVE Closing
<1>. DEFINE partial == Open \ Finished
<1>1. Finished \subseteq Open /\ Open' = {}
  BY DEF Shutdown, Finished
<1>2. ASSUME NEW r \in Rows' \ Rows
      PROVE  \E p \in Open, w \in Windows, c \in BOOLEAN : r = Row(p, w, c)
  <2>1. CASE r \in DueRows
    <3>1. PICK p \in Open : r \in {Row(p, w, TRUE) : w \in Due(p)}
      BY <2>1, Zenon DEF DueRows
    <3>. QED BY <3>1 DEF Due
  <2>2. CASE r \notin DueRows
    <3>1. PICK p \in partial : r = Row(p, Cardinality(pools[p].sent \cup Due(p)) + 1, FALSE)
      BY <1>2, <2>2 DEF Rows, Shutdown
    <3>. QED BY <3>1, AdvanceType
  <2>. QED BY <2>1, <2>2
<1>3. ASSUME NEW f \in Reports' \ Reports
      PROVE  \/ \E p \in Finished : f = Feature(p, TRUE)
             \/ \E p \in partial : f = Feature(p, FALSE)
  BY <1>3 DEF Reports, Shutdown
<1>4. ASSUME NEW f \in Reports' \ Reports, NEW g \in Reports' \ Reports, f.pool = g.pool
      PROVE  f = g
  <2>1. \A p, c : Feature(p, c).pool = p
    BY DEF Feature
  <2>2. ASSUME NEW h \in Reports' \ Reports
        PROVE  \/ h.pool \in Finished /\ h = Feature(h.pool, TRUE)
               \/ h.pool \in partial /\ h = Feature(h.pool, FALSE)
    <3>1. CASE \E p \in Finished : h = Feature(p, TRUE)
      <4>1. PICK p \in Finished : h = Feature(p, TRUE)
        BY <3>1
      <4>2. h.pool = p
        BY <2>1, <4>1
      <4>. QED BY <4>1, <4>2
    <3>2. CASE \E p \in partial : h = Feature(p, FALSE)
      <4>1. PICK p \in partial : h = Feature(p, FALSE)
        BY <3>2
      <4>2. h.pool = p
        BY <2>1, <4>1
      <4>. QED BY <4>1, <4>2
    <3>. QED BY <1>3, <2>2, <3>1, <3>2
  <2>. HIDE DEF partial
  <2>3. CASE f.pool \in Finished
    BY <1>4, <2>2, <2>3, Zenon DEF partial
  <2>4. CASE f.pool \notin Finished
    BY <1>4, <2>2, <2>4, Zenon DEF partial
  <2>. QED BY <2>3, <2>4
<1>5. /\ Reports \subseteq Reports'
      /\ \A p \in Finished : Feature(p, TRUE) \in Reports'
      /\ \A p \in partial : Feature(p, FALSE) \in Reports'
  BY DEF Reports, Shutdown
<1>6. \A p \in Open : \E f \in Reports' : \E c \in BOOLEAN : f = Feature(p, c)
  BY <1>5
<1>7. \A f \in Reports' \ Reports : \E p \in Open, c \in BOOLEAN : f = Feature(p, c)
  BY <1>1, <1>3
<1>. QED BY <1>1, <1>2, <1>4, <1>5, <1>6, <1>7 DEF Closing, Shutdown

\* Steps that touch no pool's counts and emit nothing.
LEMMA QuietCloses ==
  ASSUME Open' = Open, UNCHANGED launches, failed => failed',
         \A p \in Open : /\ pools'[p].launch = pools[p].launch
                         /\ pools'[p].tx = pools[p].tx /\ pools'[p].sent = pools[p].sent,
         Rows' \subseteq Rows, Reports' \subseteq Reports,
         ~failed' => Reports' = Reports
  PROVE  Closing
BY DEF Closing

LEMMA ProcessRegisters ==
  ASSUME TypeInv, Process \/ ProcessFails
  PROVE  \E admitted \in SUBSET Wanted : Registering(admitted)
<1>1. CASE Process
  <2>1. PICK admitted \in SUBSET Wanted :
          /\ Register(Wanted, admitted)
          /\ pools' = [p \in DOMAIN Registered(admitted) |-> Observed(p, Registered(admitted)[p])]
    BY <1>1 DEF Process
  <2>2. Open' = Open \cup admitted
    BY <2>1 DEF Registered
  <2>3. ASSUME NEW p \in Open'
        PROVE  LET r == Registered(admitted)[p] IN
               /\ pools'[p].launch = r.launch /\ pools'[p].sent = r.sent
               /\ \A w \in r.sent : pools'[p].tx[w] = r.tx[w]
    <3>1. pools'[p] = Observed(p, Registered(admitted)[p])
      BY <2>1, <2>3
    <3>2. Registered(admitted)[p] \in PoolState
      BY <2>2, RegisteredType
    <3>. QED BY <3>1, <3>2, ObservedKeeps, EmittedKept
  <2>. QED BY <1>1, <2>1, <2>2, <2>3 DEF Registering, Process, Rows, Reports
<1>2. CASE ProcessFails
  <2>1. PICK admitted \in SUBSET Wanted :
          Register(Wanted, admitted) /\ pools' = Registered(admitted)
    BY <1>2 DEF ProcessFails
  <2>2. Open' = Open \cup admitted
    BY <2>1 DEF Registered
  <2>. QED BY <1>2, <2>1, <2>2 DEF Registering, ProcessFails, Rows, Reports
<1>. QED BY <1>1, <1>2

\* What was drained from the tracker is only there while it is being written.
PhaseInv == (rowQ # {} => pc = "rows") /\ (featureQ # {} => pc = "features")

LEMMA NextPhase == PhaseInv /\ [Next]_vars => PhaseInv'
<1>. SUFFICES ASSUME PhaseInv, [Next]_vars PROVE PhaseInv'
  OBVIOUS
<1>. USE DEF PhaseInv
<1>1. ASSUME NEW t, NEW age, TimerTick \/ Recv(t, age) PROVE PhaseInv'
  BY <1>1 DEF TimerTick, Recv
<1>2. ASSUME Interrupt \/ Shutdown PROVE PhaseInv'
  BY <1>2 DEF Interrupt, Shutdown
<1>3. ASSUME NEW r \in rowQ, WriteRow(r) PROVE PhaseInv'
  BY <1>3 DEF WriteRow
<1>4. ASSUME NEW f \in featureQ, WriteFeature(f) PROVE PhaseInv'
  BY <1>4 DEF WriteFeature
<1>5. ASSUME WriteRowFails \/ WriteFeatureFails \/ TakeFeatures \/ Return PROVE PhaseInv'
  BY <1>5 DEF WriteRowFails, WriteFeatureFails, TakeFeatures, Return
<1>6. ASSUME Process \/ ProcessFails \/ Tick \/ UNCHANGED vars PROVE PhaseInv'
  BY <1>6 DEF Process, ProcessFails, Tick, vars
<1>. QED BY <1>1, <1>2, <1>3, <1>4, <1>5, <1>6, NextCases

\* Every step closes pools or registers them, and both kinds keep the invariant.
LEMMA NextReport ==
  TypeInv /\ PhaseInv /\ ReportInv /\ [Next]_vars => ReportInv'
<1>. SUFFICES ASSUME TypeInv, PhaseInv, ReportInv, [Next]_vars PROVE ReportInv'
  OBVIOUS
<1>. USE DEF Rows, Reports
<1>1. ASSUME TimerTick PROVE Closing
  BY <1>1, AdvanceCloses DEF TimerTick
<1>2. ASSUME NEW t \in Txs, NEW age \in 0..(MaxAge + 1), Recv(t, age) PROVE Closing
  BY <1>2, AdvanceCloses DEF Recv
<1>3. ASSUME Shutdown PROVE Closing
  BY <1>3, ShutdownCloses
<1>4. ASSUME UNCHANGED <<pools, launches, completed, featureQ, features, rowQ, rows, failed>>
      PROVE  Closing
  BY <1>4, QuietCloses
<1>5. ASSUME NEW r \in rowQ, WriteRow(r) PROVE Closing
  <2>1. Rows' = Rows
    BY <1>5 DEF WriteRow
  <2>. QED BY <1>5, <2>1, QuietCloses DEF WriteRow
<1>6. ASSUME WriteRowFails PROVE Closing
  BY <1>6, QuietCloses DEF WriteRowFails
<1>8. ASSUME NEW f \in featureQ, WriteFeature(f) PROVE Closing
  <2>1. Reports' = Reports
    BY <1>8 DEF WriteFeature
  <2>. QED BY <1>8, <2>1, QuietCloses DEF WriteFeature
<1>9. ASSUME WriteFeatureFails PROVE Closing
  BY <1>9, QuietCloses DEF WriteFeatureFails
<1>10. ASSUME Tick PROVE Closing
  <2>1. Open' = Open
    BY <1>10 DEF Tick
  <2>2. ASSUME NEW p \in Open
        PROVE  /\ pools'[p].launch = pools[p].launch /\ pools'[p].tx = pools[p].tx
               /\ pools'[p].sent = pools[p].sent
    <3>. DEFINE age == IF pools[p].age < Horizon THEN pools[p].age + 1 ELSE pools[p].age
    <3>1. pools'[p] = [pools[p] EXCEPT !.age = age] /\ pools[p] \in PoolState
      BY <1>10, <2>2 DEF Tick, TypeInv, TypeOK
    <3>. HIDE DEF age
    <3>. QED BY <3>1 DEF PoolState
  <2>. QED BY <1>10, <2>1, <2>2, QuietCloses DEF Tick
<1>11. ASSUME TakeFeatures PROVE Closing
  <2>1. Reports' = Reports
    BY <1>11 DEF TakeFeatures, PhaseInv
  <2>. QED BY <1>11, <2>1, QuietCloses DEF TakeFeatures
<1>12. ASSUME Interrupt \/ Return \/ UNCHANGED vars PROVE Closing
  BY <1>12, <1>4 DEF Interrupt, Return, vars
<1>13. ASSUME Process \/ ProcessFails PROVE ReportInv'
  BY <1>13, ProcessRegisters, RegisteringKeeps
<1>14. Closing => ReportInv'
  BY ClosingKeeps
<1>. HIDE DEF Rows, Reports
<1>. QED
  BY <1>1, <1>2, <1>3, <1>5, <1>6, <1>8, <1>9, <1>10, <1>11, <1>12, <1>13, <1>14, NextCases

LEMMA InitReport == Init => PhaseInv /\ ReportInv
<1>. SUFFICES ASSUME Init PROVE PhaseInv /\ ReportInv
  OBVIOUS
<1>1. PhaseInv /\ Rows = {} /\ Reports = {} /\ Open = {}
  BY DEF Init, PhaseInv, Rows, Reports
<1>2. \A p \in Pools : 1..launches[p] = {}
  BY DEF Init
<1>. QED BY <1>1, <1>2 DEF ReportInv

LEMMA ReportCorrect == Spec => [](TypeInv /\ PhaseInv /\ ReportInv)
BY InitType, InitReport, NextType, NextPhase, NextReport, PTL DEF Spec

\* Late arrivals cannot rewrite what was emitted: every row of a window agrees with
\* the tracker and with the feature, for any windows, events and delays.
THEOREM EmittedIsFinal == Spec => []EmittedWindowsFinal
<1>1. TypeInv /\ ReportInv => EmittedWindowsFinal
  BY DEF ReportInv, EmittedWindowsFinal, Rows, Reports
<1>. QED BY <1>1, ReportCorrect, PTL

-----------------------------------------------------------------------------
(* Counting.  A transaction that observe() counts falls into exactly one   *)
(* window and was not counted before, so that the sum over the windows     *)
(* grows as the set of the transactions does.                              *)

PoolCounted(r) ==
  /\ Cardinality(r.seen) <= MaxTransactions
  /\ SumFunctionOnSet(r.tx, Windows) = Cardinality(r.seen)

LEMMA NewPoolCounted ==
  ASSUME NEW p
  PROVE  PoolCounted(NewPool(p))
<1>1. NewPool(p).seen = {} /\ \A w \in Windows : NewPool(p).tx[w] = 0
  BY DEF NewPool
<1>2. SumFunctionOnSet(NewPool(p).tx, Windows) = 0
  BY <1>1, Constants, SumOfZeros
<1>3. Cardinality(NewPool(p).seen) = 0
  BY <1>1, FS_EmptySet
<1>. QED BY <1>2, <1>3, Constants DEF PoolCounted

LEMMA AddCounts ==
  ASSUME TypeInv, NEW r \in PoolState, PoolCounted(r), NEW w \in Inside(r),
         ev.tx \notin r.seen, Cardinality(r.seen) < MaxTransactions
  PROVE  PoolCounted(Add(r))
<1>. DEFINE tx == [v \in Windows |-> r.tx[v] + (IF v \in Inside(r) THEN 1 ELSE 0)]
            seen == r.seen \cup {ev.tx}
<1>1. Add(r).tx = tx /\ Add(r).seen = seen
  <2>1. Add(r) = [[r EXCEPT !.seen = seen] EXCEPT !.tx = tx]
    BY DEF Add
  <2>. HIDE DEF tx, seen
  <2>. QED BY <2>1 DEF PoolState
<1>2. IsFiniteSet(r.seen) /\ Cardinality(r.seen) \in Nat
  BY Constants, FS_Subset, FS_CardinalityType DEF PoolState
<1>3. Cardinality(seen) = Cardinality(r.seen) + 1
  BY <1>2, FS_AddElement
<1>4. w \in Windows /\ \A v \in Windows : r.tx[v] \in Nat
  BY DEF Inside, PoolState
<1>5. \A v \in Windows \ {w} : v \notin Inside(r)
  BY OneWindow
<1>6. /\ tx[w] = r.tx[w] + 1 /\ \A v \in Windows \ {w} : tx[v] = r.tx[v]
      /\ \A v \in Windows : tx[v] \in Int
  BY <1>4, <1>5
<1>. HIDE DEF tx, seen
<1>7. SumFunctionOnSet(tx, Windows) = SumFunctionOnSet(r.tx, Windows) + (tx[w] - r.tx[w])
  <2>1. /\ IsFiniteSet(Windows) /\ w \in Windows
        /\ \A v \in Windows : r.tx[v] \in Int /\ tx[v] \in Int
    BY <1>4, <1>6, Constants
  <2>2. \A v \in Windows \ {w} : tx[v] = r.tx[v]
    BY <1>6
  <2>. QED BY <2>1, <2>2, SumGrows
<1>8. SumFunctionOnSet(tx, Windows) = Cardinality(seen)
  BY <1>2, <1>3, <1>4, <1>6, <1>7 DEF PoolCounted
<1>9. Cardinality(seen) <= MaxTransactions
  BY <1>2, <1>3, Constants
<1>. QED BY <1>1, <1>8, <1>9 DEF PoolCounted

LEMMA ObservedCounted ==
  ASSUME TypeInv, NEW p, NEW r \in PoolState, PoolCounted(r)
  PROVE  PoolCounted(Observed(p, r))
<1>1. CASE Observed(p, r) = r
  BY <1>1
<1>2. CASE Observed(p, r) = [r EXCEPT !.capped = TRUE]
  BY <1>2 DEF PoolCounted, PoolState
<1>3. CASE /\ Observed(p, r) = Add(r) /\ ~(Inside(r) \subseteq r.sent)
           /\ ev.tx \notin r.seen /\ ~(Cardinality(r.seen) >= MaxTransactions)
  <2>1. PICK w \in Inside(r) : TRUE
    BY <1>3
  <2>2. Cardinality(r.seen) \in Nat
    BY Constants, FS_Subset, FS_CardinalityType DEF PoolState
  <2>3. Cardinality(r.seen) < MaxTransactions
    BY <1>3, <2>2, Constants
  <2>. QED BY <1>3, <2>1, <2>3, AddCounts
<1>. QED BY <1>1, <1>2, <1>3 DEF Observed

\* Steps that register and observe nothing.
Keeping ==
  /\ Open' \subseteq Open
  /\ \A p \in Open' : pools'[p].tx = pools[p].tx /\ pools'[p].seen = pools[p].seen

LEMMA MostStepsKeep ==
  ASSUME TypeInv, [Next]_vars
  PROVE  Keeping \/ Process \/ ProcessFails
<1>1. ASSUME Advance PROVE Keeping
  <2>1. Open' = Open \ Finished
    BY <1>1 DEF Advance
  <2>2. ASSUME NEW p \in Open'
        PROVE  pools'[p].tx = pools[p].tx /\ pools'[p].seen = pools[p].seen
    <3>1. pools'[p] = [pools[p] EXCEPT !.sent = @ \cup Due(p)] /\ pools[p] \in PoolState
      BY <1>1, <2>1 DEF Advance, TypeInv, TypeOK
    <3>. QED BY <3>1 DEF PoolState
  <2>. QED BY <2>1, <2>2 DEF Keeping
<1>2. ASSUME Shutdown PROVE Keeping
  BY <1>2 DEF Shutdown, Keeping
<1>3. ASSUME Tick PROVE Keeping
  <2>1. Open' = Open
    BY <1>3 DEF Tick
  <2>2. ASSUME NEW p \in Open
        PROVE  pools'[p].tx = pools[p].tx /\ pools'[p].seen = pools[p].seen
    <3>. DEFINE age == IF pools[p].age < Horizon THEN pools[p].age + 1 ELSE pools[p].age
    <3>1. pools'[p] = [pools[p] EXCEPT !.age = age] /\ pools[p] \in PoolState
      BY <1>3, <2>2 DEF Tick, TypeInv, TypeOK
    <3>. HIDE DEF age
    <3>. QED BY <3>1 DEF PoolState
  <2>. QED BY <2>1, <2>2 DEF Keeping
<1>4. ASSUME pools' = pools PROVE Keeping
  BY <1>4 DEF Keeping
<1>5. \/ Advance \/ Shutdown \/ Tick \/ Process \/ ProcessFails \/ pools' = pools
  BY DEF Next, Write, Continue, Fail, Terminating, vars, TimerTick, Recv, Interrupt,
     WriteRow, WriteRowFails, TakeFeatures, WriteFeature, WriteFeatureFails, Return
<1>. QED BY <1>1, <1>2, <1>3, <1>4, <1>5

CountInv == Cardinality(Open) <= MaxPools /\ \A p \in Open : PoolCounted(pools[p])

LEMMA NextCounted == TypeInv /\ CountInv /\ [Next]_vars => CountInv'
<1>. SUFFICES ASSUME TypeInv, CountInv, [Next]_vars PROVE CountInv'
  OBVIOUS
<1>1. /\ IsFiniteSet(Open) /\ Cardinality(Open) \in Nat /\ Cardinality(Open) <= MaxPools
      /\ \A p \in Open : PoolCounted(pools[p])
  BY Constants, FS_Subset, FS_CardinalityType DEF TypeInv, TypeOK, CountInv
<1>2. CASE Keeping
  <2>1. IsFiniteSet(Open') /\ Cardinality(Open') \in Nat /\ Cardinality(Open') <= Cardinality(Open)
    BY <1>1, <1>2, FS_Subset, FS_CardinalityType DEF Keeping
  <2>2. Cardinality(Open') <= MaxPools
    BY <1>1, <2>1, Constants
  <2>. QED BY <1>1, <1>2, <2>2 DEF Keeping, CountInv, PoolCounted
<1>3. CASE Process \/ ProcessFails
  <2>1. PICK admitted \in SUBSET Wanted :
          /\ Register(Wanted, admitted)
          /\ \/ pools' = Registered(admitted)
             \/ pools' = [p \in DOMAIN Registered(admitted) |->
                            Observed(p, Registered(admitted)[p])]
    BY <1>3 DEF Process, ProcessFails
  <2>2. Open' = Open \cup admitted
    BY <2>1 DEF Registered
  <2>3. Cardinality(Open') <= MaxPools
    <3>1. admitted \cap Open = {} /\ admitted \subseteq Pools
      BY TrackerAssumption DEF Wanted, TrackerAssumption, TypeInv, TypeOK
    <3>2. IsFiniteSet(admitted) /\ Cardinality(Open \cap admitted) = 0
      BY <3>1, Constants, FS_Subset, FS_EmptySet
    <3>3. Cardinality(Open \cup admitted) = Cardinality(Open) + Cardinality(admitted)
      <4>1. Cardinality(Open \cup admitted) =
              Cardinality(Open) + Cardinality(admitted) - Cardinality(Open \cap admitted)
        BY <1>1, <3>2, FS_Union
      <4>. QED BY <1>1, <3>2, <4>1, FS_CardinalityType
    <3>. QED BY <2>1, <2>2, <3>3 DEF Register
  <2>4. ASSUME NEW p \in Open' PROVE PoolCounted(pools'[p])
    <3>1. Registered(admitted)[p] \in PoolState
      BY <2>2, RegisteredType
    <3>2. PoolCounted(Registered(admitted)[p])
      <4>1. Registered(admitted)[p] = IF p \in admitted THEN NewPool(p) ELSE pools[p]
        BY <2>2 DEF Registered
      <4>. QED BY <4>1, <1>1, <2>2, NewPoolCounted
    <3>3. pools'[p] \in {Registered(admitted)[p], Observed(p, Registered(admitted)[p])}
      BY <2>1, <2>2
    <3>. QED BY <3>1, <3>2, <3>3, ObservedCounted
  <2>. QED BY <2>3, <2>4 DEF CountInv
<1>. QED BY <1>2, <1>3, MostStepsKeep

\* A window was emitted when the pool was older than its end; right after the
\* advance for an event, those that are not emitted end later.
EdgeInv ==
  /\ \A p \in Open : \A w \in pools[p].sent : Ends[w] <= pools[p].age
  /\ Prompt => \A p \in Open : \A w \in Windows \ pools[p].sent : pools[p].age < Ends[w]

LEMMA AdvanceEdges ==
  ASSUME TypeInv, EdgeInv, Advance
  PROVE  /\ \A p \in Open' : \A w \in pools'[p].sent : Ends[w] <= pools'[p].age
         /\ \A p \in Open' : \A w \in Windows \ pools'[p].sent : pools'[p].age < Ends[w]
<1> SUFFICES ASSUME NEW p \in Open'
             PROVE  /\ \A w \in pools'[p].sent : Ends[w] <= pools'[p].age
                    /\ \A w \in Windows \ pools'[p].sent : pools'[p].age < Ends[w]
  OBVIOUS
<1>1. p \in Open /\ pools[p] \in PoolState /\ pools'[p] = [pools[p] EXCEPT !.sent = @ \cup Due(p)]
  BY DEF Advance, TypeInv, TypeOK
<1>2. /\ pools'[p].sent = pools[p].sent \cup Due(p) /\ pools'[p].age = pools[p].age
      /\ pools[p].age \in Nat
  BY <1>1, Constants DEF PoolState
<1>3. \A w \in Windows : w \in Due(p) <=> w \notin pools[p].sent /\ pools[p].age >= Ends[w]
  BY DEF Due
<1>4. \A w \in pools[p].sent \cup Due(p) : Ends[w] <= pools[p].age
  BY <1>1, <1>2, <1>3, Constants DEF EdgeInv, Due
<1>5. \A w \in Windows : w \notin pools[p].sent \cup Due(p) => pools[p].age < Ends[w]
  BY <1>2, <1>3, Constants
<1> QED
  BY <1>2, <1>4, <1>5

LEMMA NextEdge == TypeInv /\ EdgeInv /\ [Next]_vars => EdgeInv'
<1>. SUFFICES ASSUME TypeInv, EdgeInv, [Next]_vars PROVE EdgeInv'
  OBVIOUS
<1>1. ASSUME NEW t, NEW age, TimerTick \/ Recv(t, age) PROVE EdgeInv'
  <2>1. Advance
    BY <1>1 DEF TimerTick, Recv
  <2>. QED BY <2>1, AdvanceEdges DEF EdgeInv
<1>2. ASSUME Shutdown PROVE EdgeInv'
  BY <1>2 DEF Shutdown, EdgeInv
<1>3. ASSUME Tick PROVE EdgeInv'
  <2>1. Open' = Open
    BY <1>3 DEF Tick
  <2>2. ASSUME NEW p \in Open
        PROVE  pools'[p].sent = pools[p].sent /\ pools[p].age <= pools'[p].age /\ pools'[p].age \in Nat
    <3>. DEFINE age == IF pools[p].age < Horizon THEN pools[p].age + 1 ELSE pools[p].age
    <3>1. pools'[p] = [pools[p] EXCEPT !.age = age] /\ pools[p] \in PoolState
      BY <1>3, <2>2 DEF Tick, TypeInv, TypeOK
    <3>2. pools[p].age \in Nat /\ age \in Nat /\ pools[p].age <= age
      BY <3>1, Constants DEF PoolState
    <3>. HIDE DEF age
    <3>. QED BY <3>1, <3>2 DEF PoolState
  <2>3. ASSUME NEW p \in Open', NEW w \in pools'[p].sent PROVE Ends[w] <= pools'[p].age
    <3>1. w \in Windows /\ Ends[w] <= pools[p].age /\ pools[p].age \in Nat
      BY <2>1, <2>2, <2>3, Constants DEF EdgeInv, TypeInv, TypeOK, PoolState
    <3>. QED BY <2>1, <2>2, <3>1, Constants
  <2>4. ~Prompt'
    <3>1. SUFFICES ASSUME pc \in {"rows", "features"}, task = "event" PROVE ev'.age # 0
      BY <1>3 DEF Tick, Prompt
    <3>2. ev'.age = ev.age + 1 \/ ev'.age = MaxAge + 1
      BY <1>3, <3>1 DEF Tick, TypeInv, TypeOK
    <3>. QED BY <3>2, Constants DEF TypeInv, TypeOK
  <2>. QED BY <2>3, <2>4 DEF EdgeInv
<1>4. ASSUME Process \/ ProcessFails PROVE EdgeInv'
  <2>1. PICK admitted \in SUBSET Wanted :
          \/ pools' = Registered(admitted)
          \/ pools' = [p \in DOMAIN Registered(admitted) |->
                         Observed(p, Registered(admitted)[p])]
    BY <1>4 DEF Process, ProcessFails
  <2>2. Open' = Open \cup admitted
    BY <2>1 DEF Registered
  <2>3. ASSUME NEW p \in Open', NEW w \in pools'[p].sent PROVE Ends[w] <= pools'[p].age
    <3>1. Registered(admitted)[p] \in PoolState
      BY <2>2, RegisteredType
    <3>2. /\ pools'[p].sent = Registered(admitted)[p].sent
          /\ pools'[p].age = Registered(admitted)[p].age
      BY <2>1, <2>2, <3>1, ObservedKeeps
    <3>3. p \notin admitted
      BY <2>2, <2>3, <3>2, RegisteredType
    <3>. QED BY <2>2, <2>3, <3>2, <3>3, RegisteredType DEF EdgeInv
  <2>4. ~Prompt'
    BY <1>4 DEF Process, ProcessFails, Prompt
  <2>. QED BY <2>3, <2>4 DEF EdgeInv
<1>5. ASSUME pools' = pools, Prompt' => Prompt PROVE EdgeInv'
  BY <1>5 DEF EdgeInv
<1>6. ASSUME NEW r, WriteRow(r) PROVE EdgeInv'
  BY <1>5, <1>6 DEF WriteRow, Prompt
<1>7. ASSUME NEW f, WriteFeature(f) PROVE EdgeInv'
  BY <1>5, <1>7 DEF WriteFeature, Prompt
<1>8. ASSUME TakeFeatures PROVE EdgeInv'
  BY <1>5, <1>8 DEF TakeFeatures, Prompt
<1>9. ASSUME Interrupt \/ Return \/ WriteFeatureFails PROVE EdgeInv'
  BY <1>5, <1>9 DEF Interrupt, Return, WriteFeatureFails, Prompt
<1>10. ASSUME WriteRowFails PROVE EdgeInv'
  BY <1>5, <1>10 DEF WriteRowFails, Prompt
<1>11. ASSUME UNCHANGED vars PROVE EdgeInv'
  BY <1>5, <1>11 DEF vars, Prompt
<1>. QED
  BY <1>1, <1>2, <1>3, <1>4, <1>6, <1>7, <1>8, <1>9, <1>10, <1>11, NextCases

\* Windows that are not emitted begin where the emitted ones end.
LEMMA PromptFindsWindow ==
  ASSUME TypeInv, EdgeInv, Prompt, NEW p \in Open
  PROVE  ~(Inside(pools[p]) \subseteq pools[p].sent)
<1>. DEFINE r == pools[p]
            open == {w \in Windows : r.age < Ends[w]}
<1>1. r \in PoolState /\ r.age \in Nat /\ Last \in Windows \ r.sent /\ r.sent \subseteq Windows
  BY Constants DEF TypeInv, TypeOK, PoolState
<1>2. open \subseteq Nat /\ Last \in open
  BY <1>1, Constants DEF EdgeInv
<1>3. PICK w \in open : \A v \in open : w <= v
  <2>. HIDE DEF open
  <2>. QED BY <1>2, LeastOfNats
<1>4. w \in Windows /\ w \in Nat /\ r.age < Ends[w]
  BY <1>2, <1>3
<1>5. ObservedAge(r) = r.age
  BY <1>1 DEF ObservedAge, Prompt
<1>6. Start(w) <= r.age
  <2>1. CASE w = 1
    BY <1>1, <2>1 DEF Start
  <2>2. CASE w # 1
    <3>1. w - 1 \in Windows /\ w - 1 < w
      BY <1>4, <2>2, Constants
    <3>2. w - 1 \notin open
      BY <1>3, <1>4, <3>1
    <3>3. Ends[w - 1] <= r.age
      BY <1>1, <3>1, <3>2, Constants
    <3>. QED BY <2>2, <3>3 DEF Start
  <2>. QED BY <2>1, <2>2
<1>7. w \in Inside(r)
  BY <1>1, <1>4, <1>5, <1>6 DEF Inside
<1>8. w \notin r.sent
  <2>1. w \in r.sent => Ends[w] <= r.age
    BY DEF EdgeInv
  <2>. QED BY <1>1, <1>4, <2>1, Constants
<1>. QED BY <1>7, <1>8

\* Memory is bounded, the windows of a pool count each transaction once, and one
\* that is processed as it comes finds its window open.
THEOREM EachCountedOnce == Spec => []Counted
<1>1. Init => CountInv /\ EdgeInv
  <2>. SUFFICES ASSUME Init PROVE CountInv /\ EdgeInv
    OBVIOUS
  <2>1. Open = {} /\ Cardinality(Open) = 0
    BY FS_EmptySet DEF Init
  <2>. QED BY <2>1, Constants DEF CountInv, EdgeInv
<1>2. TypeInv /\ CountInv /\ EdgeInv => Counted
  <2>. SUFFICES ASSUME TypeInv, CountInv, EdgeInv PROVE Counted
    OBVIOUS
  <2>1. \A p \in Open : Prompt => ~(Inside(pools[p]) \subseteq pools[p].sent)
    BY PromptFindsWindow
  <2>. QED BY <2>1 DEF CountInv, PoolCounted, Counted
<1>. QED BY <1>1, <1>2, NextCounted, NextEdge, TypeCorrect, PTL DEF Spec

-----------------------------------------------------------------------------
(* A feature is in one of the three places between the tracker and the file. *)

DisjointInv ==
  /\ completed \cap featureQ = {} /\ completed \cap features = {}
  /\ featureQ \cap features = {}

LEMMA NextDisjoint ==
  TypeInv /\ PhaseInv /\ ReportInv /\ DisjointInv /\ [Next]_vars => DisjointInv'
<1>. SUFFICES ASSUME TypeInv, PhaseInv, ReportInv, DisjointInv, [Next]_vars PROVE DisjointInv'
  OBVIOUS
<1>. USE DEF DisjointInv
<1>1. \A p \in Open : \A c \in BOOLEAN : Feature(p, c) \notin Reports
  BY DEF ReportInv, Feature
<1>2. ASSUME UNCHANGED <<featureQ, features>>,
             \A f \in completed' \ completed : f \notin Reports
      PROVE  DisjointInv'
  BY <1>2 DEF Reports
<1>3. ASSUME NEW t, NEW age, TimerTick \/ Recv(t, age) PROVE DisjointInv'
  <2>1. \A f \in completed' \ completed : \E p \in Finished : f = Feature(p, TRUE)
    BY <1>3 DEF TimerTick, Recv, Advance
  <2>2. \A f \in completed' \ completed : f \notin Reports
    BY <1>1, <2>1 DEF Finished
  <2>. QED BY <1>2, <1>3, <2>2 DEF TimerTick, Recv
<1>4. ASSUME Shutdown PROVE DisjointInv'
  <2>1. \A f \in completed' \ completed : \E p \in Open, c \in BOOLEAN : f = Feature(p, c)
    BY <1>4 DEF Shutdown, Finished
  <2>2. \A f \in completed' \ completed : f \notin Reports
    BY <1>1, <2>1
  <2>. QED BY <1>2, <1>4, <2>2 DEF Shutdown
<1>5. ASSUME TakeFeatures PROVE DisjointInv'
  BY <1>5 DEF TakeFeatures
<1>6. ASSUME NEW f \in featureQ, WriteFeature(f) PROVE DisjointInv'
  BY <1>6 DEF WriteFeature
<1>7. ASSUME WriteFeatureFails PROVE DisjointInv'
  BY <1>7 DEF WriteFeatureFails
<1>8. ASSUME UNCHANGED <<completed, featureQ, features>> PROVE DisjointInv'
  BY <1>8
<1>9. ASSUME NEW r \in rowQ, WriteRow(r) PROVE DisjointInv'
  BY <1>8, <1>9 DEF WriteRow
<1>10. ASSUME Interrupt \/ WriteRowFails \/ Return PROVE DisjointInv'
  BY <1>8, <1>10 DEF Interrupt, WriteRowFails, Return
<1>11. ASSUME Process \/ ProcessFails \/ Tick \/ UNCHANGED vars PROVE DisjointInv'
  BY <1>8, <1>11 DEF Process, ProcessFails, Tick, vars
<1>. QED
  BY <1>3, <1>4, <1>5, <1>6, <1>7, <1>9, <1>10, <1>11, NextCases

\* No launch is reported twice and, unless a write failed, none is lost between the
\* tracker and the file: it is open, about to be written, or written.
THEOREM NoLaunchLost == Spec => []LaunchesAccounted
<1>1. Init => DisjointInv
  BY DEF Init, DisjointInv
<1>2. Spec => []DisjointInv
  BY <1>1, ReportCorrect, NextDisjoint, PTL DEF Spec
<1>3. ReportInv /\ DisjointInv => LaunchesAccounted
  <2>. SUFFICES ASSUME ReportInv, DisjointInv, NEW p \in Pools, NEW k \in 1..launches[p]
       PROVE  LET Is(f) == f.pool = p /\ f.launch = k
                  open == p \in Open /\ pools[p].launch = k
                  places == <<completed, featureQ, features>>
              IN
              /\ ~failed => open \/ \E i \in 1..3 : \E f \in places[i] : Is(f)
              /\ \A i, j \in 1..3 : \A f \in places[i], g \in places[j] :
                   Is(f) /\ Is(g) => ~open /\ i = j /\ f = g
    BY DEF LaunchesAccounted
  <2>. DEFINE Is(f) == f.pool = p /\ f.launch = k
              open == p \in Open /\ pools[p].launch = k
              places == <<completed, featureQ, features>>
  <2>1. 1..3 = {1, 2, 3}
    OBVIOUS
  <2>2. ~failed => open \/ \E f \in Reports : Is(f)
    BY DEF ReportInv
  <2>3. ~failed => open \/ \E i \in 1..3 : \E f \in places[i] : Is(f)
    BY <2>1, <2>2 DEF Reports
  <2>4. ASSUME NEW i \in 1..3, NEW j \in 1..3, NEW f \in places[i], NEW g \in places[j],
               Is(f), Is(g)
        PROVE  ~open /\ i = j /\ f = g
    <3>1. f \in Reports /\ g \in Reports
      BY <2>1, <2>4 DEF Reports
    <3>2. ~open /\ f = g
      BY <3>1, <2>4 DEF ReportInv
    <3>3. i = j
      BY <3>2, <2>1, <2>4 DEF DisjointInv
    <3>. QED BY <3>2, <3>3
  <2>. QED BY <2>3, <2>4
<1>. QED BY <1>2, <1>3, ReportCorrect, PTL

-----------------------------------------------------------------------------
(* A feature summarises the rows written before it.  The rows of an open   *)
(* launch are those of the windows emitted; the last row of a launch cut   *)
(* off by a shutdown is the partial one.                                   *)

RowsOf(p, k) == {r \in Rows : r.pool = p /\ r.launch = k}

Summary(f, m) ==
  /\ \A r \in RowsOf(f.pool, f.launch) :
       r.window \in 1..m /\ (r.complete <=> (f.complete \/ r.window < m))
  /\ \A w \in 1..m : \E r \in RowsOf(f.pool, f.launch) : r.window = w
  /\ f.complete => m = Last

SummaryInv ==
  /\ \A p \in Open : \A w \in pools[p].sent : \A v \in Windows : v < w => v \in pools[p].sent
  /\ ~failed =>
       /\ \A p \in Open :
            /\ \A r \in RowsOf(p, pools[p].launch) : r.complete = TRUE
            /\ \A w \in pools[p].sent : \E r \in RowsOf(p, pools[p].launch) : r.window = w
       /\ \A f \in Reports : \E m \in Windows : Summary(f, m)
       /\ \A f \in featureQ \cup features : \A r \in rowQ :
            ~(r.pool = f.pool /\ r.launch = f.launch)

\* A set of windows with all that come before is a prefix, of its own length.
LEMMA Prefix ==
  ASSUME NEW S \in SUBSET Windows, \A w \in S : \A v \in Windows : v < w => v \in S
  PROVE  Cardinality(S) \in Nat /\ S = 1..Cardinality(S)
<1>1. IsFiniteSet(S) /\ Cardinality(S) \in Nat
  BY Constants, FS_Subset, FS_CardinalityType
<1>2. ASSUME NEW w \in S PROVE w \in 1..Cardinality(S)
  <2>1. w \in Nat /\ 1 <= w /\ 1..w \subseteq S
    BY Constants
  <2>2. IsFiniteSet(1..w) /\ Cardinality(1..w) = w
    BY <2>1, FS_Interval
  <2>3. w <= Cardinality(S)
    BY <1>1, <2>1, <2>2, FS_Subset
  <2>. QED BY <1>1, <2>1, <2>3
<1>3. IsFiniteSet(1..Cardinality(S)) /\ Cardinality(1..Cardinality(S)) = Cardinality(S)
  BY <1>1, FS_Interval
<1>4. S \subseteq 1..Cardinality(S)
  BY <1>2
<1>. QED BY <1>1, <1>3, <1>4, FS_Subset

\* What advance has emitted of a pool is a prefix of the windows.
LEMMA EmittedPrefix ==
  ASSUME TypeInv, SummaryInv, NEW p \in Open
  PROVE  LET S == pools[p].sent \cup Due(p) IN
         /\ S \subseteq Windows
         /\ \A w \in S : \A v \in Windows : v < w => v \in S
         /\ S = 1..Cardinality(S) /\ Cardinality(S) \in Nat
         /\ p \in Finished => S = Windows
<1>. DEFINE S == pools[p].sent \cup Due(p)
<1>0. pools[p] \in PoolState
  BY DEF TypeInv, TypeOK
<1>1. S \subseteq Windows
  BY <1>0 DEF Due, PoolState
<1>2. ASSUME NEW w \in S, NEW v \in Windows, v < w PROVE v \in S
  <2>1. CASE w \in pools[p].sent
    BY <1>2, <2>1 DEF SummaryInv
  <2>2. CASE w \in Due(p)
    <3>1. Ends[v] < Ends[w] /\ Ends[w] <= pools[p].age /\ w \in Windows
      BY <1>2, <2>2, TrackerAssumption DEF TrackerAssumption, Due
    <3>2. Ends[v] \in Nat /\ Ends[w] \in Nat /\ pools[p].age \in Nat
      BY <1>0, <3>1, Constants DEF PoolState
    <3>. QED BY <3>1, <3>2 DEF Due
  <2>. QED BY <2>1, <2>2
<1>3. Cardinality(S) \in Nat /\ S = 1..Cardinality(S)
  BY <1>1, <1>2, Prefix
<1>4. ASSUME p \in Finished PROVE S = Windows
  <2>1. Last \in S
    BY <1>4 DEF Finished
  <2>. QED BY <1>1, <1>2, <2>1, Constants
<1>. QED BY <1>1, <1>2, <1>3, <1>4

\* New rows tell of open launches: those of a feature do not change.
LEMMA OldSummaries ==
  ASSUME ReportInv, rowQ = {}, rows' = rows,
         \A r \in rowQ' : \E p \in Open : r.pool = p /\ r.launch = pools[p].launch,
         NEW f \in Reports, NEW m, Summary(f, m)
  PROVE  Summary(f, m)' /\ \A r \in rowQ' : ~(r.pool = f.pool /\ r.launch = f.launch)
<1>1. \A r \in rowQ' : ~(r.pool = f.pool /\ r.launch = f.launch)
  BY DEF ReportInv
<1>2. RowsOf(f.pool, f.launch)' = RowsOf(f.pool, f.launch)
  BY <1>1 DEF RowsOf, Rows
<1>. QED BY <1>1, <1>2 DEF Summary

\* The due rows are one for each due window of an open pool.
LEMMA DueRow ==
  /\ \A p \in Open : \A w \in Due(p) : Row(p, w, TRUE) \in DueRows
  /\ \A r \in DueRows : \E p \in Open : \E w \in Due(p) : r = Row(p, w, TRUE)
<1>. DEFINE Of(p) == {Row(p, w, TRUE) : w \in Due(p)}
<1>1. DueRows = UNION {Of(p) : p \in Open}
  BY DEF DueRows
<1>2. ASSUME NEW p \in Open, NEW w \in Due(p) PROVE Row(p, w, TRUE) \in DueRows
  <2>1. Row(p, w, TRUE) \in Of(p)
    OBVIOUS
  <2>. HIDE DEF Of
  <2>. QED BY <1>1, <2>1, Zenon
<1>3. ASSUME NEW r \in DueRows PROVE \E p \in Open : \E w \in Due(p) : r = Row(p, w, TRUE)
  <2>1. PICK p \in Open : r \in Of(p)
    BY <1>1, Zenon
  <2>. QED BY <2>1
<1>. QED BY <1>2, <1>3

LEMMA FeatureFields ==
  \A p, c : /\ Feature(p, c).pool = p /\ Feature(p, c).launch = pools[p].launch
            /\ Feature(p, c).complete = c
BY DEF Feature

\* The rows of an open launch after its due windows were emitted.
LEMMA DueSummary ==
  ASSUME TypeInv, ReportInv, SummaryInv, ~failed, rowQ = {}, rows' = rows, DueRows \subseteq rowQ',
         NEW p \in Open, NEW k, k = pools[p].launch
  PROVE  /\ \A r \in RowsOf(p, k)' : \/ r \in rowQ'
                                     \/ r.complete = TRUE /\ r.window \in pools[p].sent
         /\ \A w \in pools[p].sent \cup Due(p) : \E r \in RowsOf(p, k)' : r.window = w
<1>1. Rows = rows /\ Rows' = rows \cup rowQ'
  BY DEF Rows
<1>2. RowsOf(p, k) = {r \in Rows : r.pool = p /\ r.launch = k}
      /\ RowsOf(p, k)' = {r \in Rows' : r.pool = p /\ r.launch = k}
  BY DEF RowsOf
<1>3. ASSUME NEW r \in RowsOf(p, k)', r \notin rowQ'
      PROVE  r.complete = TRUE /\ r.window \in pools[p].sent
  <2>1. r \in RowsOf(p, k) /\ r \in Rows /\ r.pool = p /\ r.launch = k
    BY <1>1, <1>2, <1>3
  <2>2. r.window \in pools[p].sent
    BY <2>1 DEF ReportInv
  <2>3. r.complete = TRUE
    BY <2>1 DEF SummaryInv
  <2>. QED BY <2>2, <2>3
<1>4. ASSUME NEW w \in pools[p].sent PROVE \E r \in RowsOf(p, k)' : r.window = w
  <2>1. \E r \in RowsOf(p, k) : r.window = w
    BY DEF SummaryInv
  <2>. QED BY <1>1, <1>2, <2>1
<1>5. ASSUME NEW w \in Due(p) PROVE \E r \in RowsOf(p, k)' : r.window = w
  <2>1. PICK r \in DueRows : r = Row(p, w, TRUE)
    BY DueRow
  <2>2. r.pool = p /\ r.launch = k /\ r.window = w
    BY <2>1 DEF Row
  <2>. QED BY <1>1, <1>2, <2>1, <2>2
<1>. QED BY <1>3, <1>4, <1>5

LEMMA FinishedSummary ==
  ASSUME TypeInv, ReportInv, SummaryInv, ~failed, rowQ = {}, rows' = rows, DueRows \subseteq rowQ',
         NEW p \in Finished, NEW f, f = Feature(p, TRUE),
         \A r \in rowQ' : r.pool = p => r.complete = TRUE /\ r.window \in Windows
  PROVE  Summary(f, Last)'
<1>0. p \in Open /\ Last' = Last
  BY DEF Finished, Last
<1>1. PICK k : k = pools[p].launch
  OBVIOUS
<1>2. f.pool = p /\ f.launch = k /\ f.complete = TRUE
  BY <1>1, FeatureFields
<1>3. pools[p].sent \cup Due(p) = 1..Last
  BY <1>0, EmittedPrefix, Constants
<1>4. \A r \in RowsOf(p, k)' : r.pool = p
  BY DEF RowsOf
<1>5. ASSUME NEW r \in RowsOf(p, k)' PROVE r.window \in 1..Last /\ r.complete = TRUE
  BY <1>0, <1>1, <1>3, <1>4, DueSummary, Constants
<1>6. \A w \in 1..Last : \E r \in RowsOf(p, k)' : r.window = w
  BY <1>0, <1>1, <1>3, DueSummary, ZenonT(60)
<1>. QED BY <1>0, <1>2, <1>5, <1>6 DEF Summary

LEMMA PartialSummary ==
  ASSUME TypeInv, ReportInv, SummaryInv, ~failed, rowQ = {}, rows' = rows, DueRows \subseteq rowQ',
         NEW p \in Open \ Finished, NEW f, f = Feature(p, FALSE),
         NEW m, m = Cardinality(pools[p].sent \cup Due(p)) + 1,
         Row(p, m, FALSE) \in rowQ',
         \A r \in rowQ' : r.pool = p =>
           \/ r.complete = TRUE /\ r.window \in Due(p)
           \/ r.complete = FALSE /\ r.window = m
  PROVE  Summary(f, m)' /\ m \in Windows
<1>1. PICK k : k = pools[p].launch
  OBVIOUS
<1>2. f.pool = p /\ f.launch = k /\ f.complete = FALSE
  BY <1>1, FeatureFields
<1>3. m \in Nat /\ pools[p].sent \cup Due(p) = 1..(m - 1) /\ m \in Windows
  <2>1. LET S == pools[p].sent \cup Due(p) IN
        Cardinality(S) \in Nat /\ S = 1..Cardinality(S) /\ Cardinality(S) + 1 \in Windows
    BY EmittedPrefix, AdvanceType
  <2>. QED BY <2>1, SMTT(60)
<1>4. \A r \in RowsOf(p, k)' : r.pool = p
  BY DEF RowsOf
<1>5. ASSUME NEW r \in RowsOf(p, k)'
      PROVE  \/ r.complete = TRUE /\ r.window \in 1..(m - 1)
             \/ r.complete = FALSE /\ r.window = m
  BY <1>1, <1>3, <1>4, DueSummary
<1>6. ASSUME NEW r \in RowsOf(p, k)'
      PROVE  r.window \in 1..m /\ (r.complete <=> r.window < m)
  <2>1. CASE r.complete = TRUE /\ r.window \in 1..(m - 1)
    BY <1>3, <2>1
  <2>2. CASE r.complete = FALSE /\ r.window = m
    <3>1. m \in 1..m /\ ~(m < m)
      BY <1>3, Constants
    <3>. QED BY <2>2, <3>1
  <2>. QED BY <1>5, <2>1, <2>2
<1>7. \E r \in RowsOf(p, k)' : r.window = m
  <2>1. PICK r \in rowQ' : r = Row(p, m, FALSE)
    OBVIOUS
  <2>2. r.pool = p /\ r.launch = k /\ r.window = m
    BY <1>1, <2>1 DEF Row
  <2>. QED BY <2>1, <2>2 DEF RowsOf, Rows
<1>8. ASSUME NEW w \in 1..m PROVE \E r \in RowsOf(p, k)' : r.window = w
  <2>1. CASE w = m
    BY <2>1, <1>7
  <2>2. CASE w # m
    <3>1. w \in 1..(m - 1)
      BY <2>2, <1>3
    <3>. QED BY <3>1, <1>1, <1>3, DueSummary, ZenonT(60)
  <2>. QED BY <2>1, <2>2
<1>. QED BY <1>2, <1>3, <1>6, <1>8 DEF Summary

LEMMA AdvanceSummary ==
  ASSUME TypeInv, ReportInv, SummaryInv, rowQ = {}, Advance,
         UNCHANGED <<launches, rows, featureQ, features, failed>>
  PROVE  SummaryInv'
<1>1. Finished \subseteq Open /\ Open' = Open \ Finished /\ rowQ' = DueRows
  BY DEF Advance, Finished
<1>2. ASSUME NEW p \in Open'
      PROVE  pools'[p].launch = pools[p].launch /\ pools'[p].sent = pools[p].sent \cup Due(p)
  <2>1. pools'[p] = [pools[p] EXCEPT !.sent = @ \cup Due(p)] /\ pools[p] \in PoolState
    BY <1>1, <1>2 DEF Advance, TypeInv, TypeOK
  <2>. QED BY <2>1 DEF PoolState
<1>3. ASSUME NEW r \in rowQ'
      PROVE  /\ \E p \in Open : r.pool = p /\ r.launch = pools[p].launch
             /\ r.complete = TRUE /\ r.window \in Windows
  <2>1. PICK p \in Open : \E w \in Due(p) : r = Row(p, w, TRUE)
    BY <1>1, DueRow
  <2>. QED BY <2>1 DEF Row, Due
<1>4. ASSUME NEW p \in Open', NEW w \in pools'[p].sent, NEW v \in Windows, v < w
      PROVE  v \in pools'[p].sent
  <2>1. p \in Open /\ pools'[p].sent = pools[p].sent \cup Due(p)
    BY <1>1, <1>2
  <2>. QED BY <1>4, <2>1, EmittedPrefix
<1>5. ASSUME ~failed, NEW p \in Open', NEW k, k = pools'[p].launch
      PROVE  /\ \A r \in RowsOf(p, k)' : r.complete = TRUE
             /\ \A w \in pools'[p].sent : \E r \in RowsOf(p, k)' : r.window = w
  <2>1. p \in Open /\ k = pools[p].launch /\ pools'[p].sent = pools[p].sent \cup Due(p)
    BY <1>1, <1>2, <1>5
  <2>2. /\ \A r \in RowsOf(p, k)' : r \in rowQ' \/ r.complete = TRUE
        /\ \A w \in pools[p].sent \cup Due(p) : \E r \in RowsOf(p, k)' : r.window = w
    BY <1>1, <1>5, <2>1, DueSummary, ZenonT(60)
  <2>. QED BY <1>3, <2>1, <2>2
<1>6. ASSUME ~failed, NEW f \in Reports
      PROVE  /\ \E m \in Windows : Summary(f, m)'
             /\ \A r \in rowQ' : ~(r.pool = f.pool /\ r.launch = f.launch)
  <2>1. PICK m \in Windows : Summary(f, m)
    BY <1>6 DEF SummaryInv
  <2>. QED BY <1>3, <2>1, OldSummaries
<1>7. ASSUME ~failed, NEW f \in Reports' PROVE \E m \in Windows : Summary(f, m)'
  <2>1. CASE f \notin Reports
    <3>1. PICK p \in Finished : f = Feature(p, TRUE)
      BY <2>1 DEF Reports, Advance
    <3>2. Summary(f, Last)'
      BY <1>1, <1>3, <1>7, <3>1, FinishedSummary
    <3>. QED BY <3>2, Constants
  <2>. QED BY <1>6, <1>7, <2>1
<1>8. ASSUME ~failed, NEW p \in Open'
      PROVE  /\ \A r \in RowsOf(p, pools[p].launch)' : r.complete = TRUE
             /\ \A w \in pools'[p].sent : \E r \in RowsOf(p, pools[p].launch)' : r.window = w
  BY <1>5, <1>8
<1>9. featureQ' \cup features' \subseteq Reports
  BY DEF Reports
<1>. QED BY <1>4, <1>6, <1>7, <1>8, <1>9 DEF SummaryInv

LEMMA ShutdownSummary ==
  ASSUME TypeInv, ReportInv, SummaryInv, rowQ = {}, Shutdown
  PROVE  SummaryInv'
<1>. DEFINE Cut(p) == Cardinality(pools[p].sent \cup Due(p)) + 1
            partial == Open \ Finished
<1>1. /\ Finished \subseteq Open /\ Open' = {}
      /\ rowQ' = DueRows \cup {Row(p, Cut(p), FALSE) : p \in partial}
      /\ UNCHANGED <<rows, failed, featureQ, features>>
  BY DEF Shutdown, Finished
<1>2. ASSUME NEW r \in rowQ'
      PROVE  \E p \in Open : /\ r.pool = p /\ r.launch = pools[p].launch
                             /\ \/ r.complete = TRUE /\ r.window \in Due(p)
                                \/ r.complete = FALSE /\ r.window = Cut(p) /\ p \notin Finished
  <2>1. CASE r \in DueRows
    <3>1. PICK p \in Open : \E w \in Due(p) : r = Row(p, w, TRUE)
      BY <2>1, DueRow
    <3>. QED BY <3>1 DEF Row
  <2>2. CASE r \notin DueRows
    <3>1. PICK p \in partial : r = Row(p, Cut(p), FALSE)
      BY <1>1, <2>2
    <3>. QED BY <3>1 DEF Row
  <2>. QED BY <2>1, <2>2
<1>. HIDE DEF Cut, partial
<1>3. ASSUME ~failed, NEW f \in Reports
      PROVE  /\ \E m \in Windows : Summary(f, m)'
             /\ \A r \in rowQ' : ~(r.pool = f.pool /\ r.launch = f.launch)
  <2>1. PICK m \in Windows : Summary(f, m)
    BY <1>3 DEF SummaryInv
  <2>. QED BY <1>1, <1>2, <2>1, OldSummaries
<1>4. ASSUME ~failed, NEW f, NEW p \in Finished, f = Feature(p, TRUE)
      PROVE  \E m \in Windows : Summary(f, m)'
  <2>1. \A r \in rowQ' : r.pool = p => r.complete = TRUE /\ r.window \in Windows
    BY <1>2, <1>4 DEF Due
  <2>2. Summary(f, Last)'
    BY <1>1, <1>4, <2>1, FinishedSummary
  <2>. QED BY <2>2, Constants
<1>5. ASSUME ~failed, NEW f, NEW p \in partial, f = Feature(p, FALSE)
      PROVE  \E m \in Windows : Summary(f, m)'
  <2>1. PICK m : m = Cut(p)
    OBVIOUS
  <2>2. \A r \in rowQ' : r.pool = p => \/ r.complete = TRUE /\ r.window \in Due(p)
                                       \/ r.complete = FALSE /\ r.window = m
    BY <1>2, <2>1
  <2>3. Row(p, m, FALSE) \in rowQ'
    BY <1>1, <2>1
  <2>4. p \in Open \ Finished /\ m = Cardinality(pools[p].sent \cup Due(p)) + 1
    BY <2>1 DEF partial, Cut
  <2>5. DueRows \subseteq rowQ'
    BY <1>1
  <2>6. Summary(f, m)' /\ m \in Windows
    BY <1>1, <1>5, <2>2, <2>3, <2>4, <2>5, PartialSummary
  <2>. QED BY <2>6
<1>6. ASSUME ~failed, NEW f \in Reports' PROVE \E m \in Windows : Summary(f, m)'
  <2>1. \/ f \in Reports
        \/ \E p \in Finished : f = Feature(p, TRUE)
        \/ \E p \in partial : f = Feature(p, FALSE)
    BY DEF Reports, Shutdown, partial
  <2>. QED BY <1>3, <1>4, <1>5, <1>6, <2>1
<1>7. featureQ' \cup features' \subseteq Reports
  BY <1>1 DEF Reports
<1>. QED BY <1>1, <1>3, <1>6, <1>7 DEF SummaryInv

\* Registering a launch, or counting a transaction, changes no summary.
LEMMA RegisteringSummary ==
  ASSUME TypeInv, ReportInv, SummaryInv, NEW admitted \in SUBSET Wanted, Registering(admitted),
         UNCHANGED <<rowQ, featureQ, features>>
  PROVE  SummaryInv'
<1>1. Open' = Open \cup admitted /\ admitted \cap Open = {} /\ admitted \subseteq Pools
  BY TrackerAssumption DEF Registering, Wanted, TrackerAssumption, TypeInv, TypeOK
<1>2. \A p \in Open : pools'[p].launch = pools[p].launch /\ pools'[p].sent = pools[p].sent
  BY <1>1 DEF Registering, Registered
<1>3. \A p \in admitted : pools'[p].launch = launches[p] + 1 /\ pools'[p].sent = {}
  BY DEF Registering, Registered, NewPool
<1>4. /\ \A p, k : RowsOf(p, k)' = RowsOf(p, k)
      /\ \A f, m : Summary(f, m)' <=> Summary(f, m)
      /\ Reports' = Reports /\ (failed => failed')
  BY DEF Registering, RowsOf, Summary, Last
<1>5. ASSUME NEW p \in admitted PROVE RowsOf(p, launches[p] + 1) = {}
  <2>1. \A r \in Rows : r.pool = p => r.launch <= launches[p] /\ r.launch \in Nat
    BY DEF ReportInv, Rows, RowType, TypeInv, TypeOK
  <2>2. launches[p] \in Nat
    BY <1>1 DEF TypeInv, TypeOK
  <2>. QED BY <2>1, <2>2 DEF RowsOf
<1>6. ASSUME ~failed', NEW p \in Open', NEW k, k = pools'[p].launch
      PROVE  /\ \A r \in RowsOf(p, k)' : r.complete = TRUE
             /\ \A w \in pools'[p].sent : \E r \in RowsOf(p, k)' : r.window = w
  <2>1. CASE p \in Open
    BY <1>2, <1>4, <1>6, <2>1 DEF SummaryInv
  <2>2. CASE p \in admitted
    BY <1>3, <1>4, <1>5, <1>6, <2>2
  <2>. QED BY <1>1, <2>1, <2>2
<1>7. \A p \in Open' : \A w \in pools'[p].sent : \A v \in Windows : v < w => v \in pools'[p].sent
  BY <1>1, <1>2, <1>3 DEF SummaryInv
<1>8. ASSUME ~failed' PROVE /\ \A f \in Reports' : \E m \in Windows : Summary(f, m)'
                            /\ \A f \in featureQ' \cup features' : \A r \in rowQ' :
                                 ~(r.pool = f.pool /\ r.launch = f.launch)
  BY <1>4, <1>8 DEF SummaryInv
<1>. QED BY <1>6, <1>7, <1>8, ZenonT(60) DEF SummaryInv

\* Steps that keep rows and features, and write or pass on what was drained.
LEMMA QuietSummary ==
  ASSUME SummaryInv, Open' = Open,
         \A p \in Open : pools'[p].launch = pools[p].launch /\ pools'[p].sent = pools[p].sent,
         failed => failed',
         ~failed' => /\ Rows' = Rows /\ Reports' = Reports
                     /\ rowQ' \subseteq rowQ
                     /\ rowQ' = {} \/ featureQ' \cup features' \subseteq featureQ \cup features
  PROVE  SummaryInv'
<1>1. ASSUME ~failed' PROVE /\ \A p, k : RowsOf(p, k)' = RowsOf(p, k)
                            /\ \A f, m : Summary(f, m)' <=> Summary(f, m)
  BY <1>1 DEF RowsOf, Summary, Last
<1>2. ASSUME ~failed', NEW p \in Open', NEW k, k = pools'[p].launch
      PROVE  /\ \A r \in RowsOf(p, k)' : r.complete = TRUE
             /\ \A w \in pools'[p].sent : \E r \in RowsOf(p, k)' : r.window = w
  BY <1>1, <1>2 DEF SummaryInv
<1>3. \A p \in Open' : \A w \in pools'[p].sent : \A v \in Windows : v < w => v \in pools'[p].sent
  BY DEF SummaryInv
<1>4. ASSUME ~failed' PROVE /\ \A f \in Reports' : \E m \in Windows : Summary(f, m)'
                            /\ \A f \in featureQ' \cup features' : \A r \in rowQ' :
                                 ~(r.pool = f.pool /\ r.launch = f.launch)
  BY <1>1, <1>4 DEF SummaryInv
<1>5. ASSUME ~failed', NEW p \in Open'
      PROVE  /\ \A r \in RowsOf(p, pools[p].launch)' : r.complete = TRUE
             /\ \A w \in pools'[p].sent : \E r \in RowsOf(p, pools[p].launch)' : r.window = w
  BY <1>2, <1>5
<1>. QED BY <1>3, <1>4, <1>5 DEF SummaryInv

LEMMA NextSummary ==
  TypeInv /\ PhaseInv /\ ReportInv /\ SummaryInv /\ [Next]_vars => SummaryInv'
<1>. SUFFICES ASSUME TypeInv, PhaseInv, ReportInv, SummaryInv, [Next]_vars PROVE SummaryInv'
  OBVIOUS
<1>. USE DEF Rows, Reports
<1>1. ASSUME TimerTick PROVE SummaryInv'
  <2>1. rowQ = {}
    BY <1>1 DEF TimerTick, PhaseInv
  <2>. QED BY <1>1, <2>1, AdvanceSummary DEF TimerTick
<1>2. ASSUME NEW t \in Txs, NEW age \in 0..(MaxAge + 1), Recv(t, age) PROVE SummaryInv'
  <2>1. rowQ = {}
    BY <1>2 DEF Recv, PhaseInv
  <2>. QED BY <1>2, <2>1, AdvanceSummary DEF Recv
<1>3. ASSUME Shutdown PROVE SummaryInv'
  <2>1. rowQ = {}
    BY <1>3 DEF Shutdown, PhaseInv
  <2>. QED BY <1>3, <2>1, ShutdownSummary
<1>4. ASSUME NEW r \in rowQ, WriteRow(r) PROVE SummaryInv'
  <2>1. Rows' = Rows /\ rowQ' \subseteq rowQ
    BY <1>4 DEF WriteRow
  <2>. QED BY <1>4, <2>1, QuietSummary DEF WriteRow
<1>5. ASSUME WriteRowFails PROVE SummaryInv'
  BY <1>5, QuietSummary DEF WriteRowFails
<1>6. ASSUME TakeFeatures PROVE SummaryInv'
  <2>1. Reports' = Reports
    BY <1>6 DEF TakeFeatures, PhaseInv
  <2>. QED BY <1>6, <2>1, QuietSummary DEF TakeFeatures
<1>7. ASSUME NEW f \in featureQ, WriteFeature(f) PROVE SummaryInv'
  <2>1. Reports' = Reports /\ featureQ' \cup features' = featureQ \cup features
    BY <1>7 DEF WriteFeature
  <2>. QED BY <1>7, <2>1, QuietSummary DEF WriteFeature
<1>8. ASSUME WriteFeatureFails PROVE SummaryInv'
  BY <1>8, QuietSummary DEF WriteFeatureFails
<1>9. ASSUME UNCHANGED <<pools, launches, completed, featureQ, features, rowQ, rows, failed>>
      PROVE  SummaryInv'
  BY <1>9, QuietSummary
<1>10. ASSUME Interrupt \/ Return \/ UNCHANGED vars PROVE SummaryInv'
  BY <1>9, <1>10 DEF Interrupt, Return, vars
<1>11. ASSUME Tick PROVE SummaryInv'
  <2>1. Open' = Open
    BY <1>11 DEF Tick
  <2>2. ASSUME NEW p \in Open
        PROVE  pools'[p].launch = pools[p].launch /\ pools'[p].sent = pools[p].sent
    <3>. DEFINE age == IF pools[p].age < Horizon THEN pools[p].age + 1 ELSE pools[p].age
    <3>1. pools'[p] = [pools[p] EXCEPT !.age = age] /\ pools[p] \in PoolState
      BY <1>11, <2>2 DEF Tick, TypeInv, TypeOK
    <3>. HIDE DEF age
    <3>. QED BY <3>1 DEF PoolState
  <2>. QED BY <1>11, <2>1, <2>2, QuietSummary DEF Tick
<1>12. ASSUME Process \/ ProcessFails PROVE SummaryInv'
  <2>1. UNCHANGED <<rowQ, featureQ, features>>
    BY <1>12 DEF Process, ProcessFails
  <2>. QED BY <1>12, <2>1, ProcessRegisters, RegisteringSummary
<1>. HIDE DEF Rows, Reports
<1>. QED
  BY <1>1, <1>2, <1>3, <1>4, <1>5, <1>6, <1>7, <1>8, <1>10, <1>11, <1>12, NextCases

\* The rows of a launch are one for each window of its summary.
LEMMA OneRowEach ==
  ASSUME TypeInv, ReportInv, NEW f \in Reports, NEW m \in Windows, Summary(f, m)
  PROVE  Cardinality(RowsOf(f.pool, f.launch)) = m
<1>. DEFINE mine == RowsOf(f.pool, f.launch)
            at == [w \in 1..m |-> CHOOSE r \in mine : r.window = w]
<1>1. \A r \in mine : r \in RowType /\ r \in Rows /\ r.pool = f.pool /\ r.launch = f.launch
  BY DEF RowsOf, Rows, TypeInv, TypeOK
<1>2. ASSUME NEW r \in mine, NEW s \in mine, r.window = s.window PROVE r = s
  <2>1. r.tx = f.tx[r.window] /\ s.tx = f.tx[s.window]
    BY <1>1 DEF ReportInv
  <2>2. r.complete = s.complete
    BY <1>1, <1>2 DEF Summary, RowType
  <2>. QED BY <1>1, <1>2, <2>1, <2>2 DEF RowType
<1>3. \A w \in 1..m : at[w] \in mine /\ at[w].window = w
  BY DEF Summary
<1>4. \A r \in mine : r.window \in 1..m /\ at[r.window] = r
  BY <1>2, <1>3 DEF Summary
<1>5. at \in Bijection(1..m, mine)
  <2>1. at \in [1..m -> mine]
    BY <1>3
  <2>. HIDE DEF at, mine
  <2>2. \A v, w \in 1..m : at[v] = at[w] => v = w
    BY <1>3
  <2>3. \A r \in mine : \E w \in 1..m : at[w] = r
    BY <1>4
  <2>. QED BY <2>1, <2>2, <2>3 DEF Bijection, Injection, Surjection, IsInjective
<1>6. ExistsBijection(1..m, mine)
  BY <1>5 DEF ExistsBijection
<1>7. IsFiniteSet(1..m) /\ Cardinality(1..m) = m
  BY Constants, FS_Interval
<1>. QED BY <1>6, <1>7, FS_Bijection

\* Unless a write failed, a written feature comes after the rows it summarises: one
\* for each window, all complete, or cut off by the shutdown at the last of them.
THEOREM FeaturesSummariseRows == Spec => []RowsPrecedeFeature
<1>1. Init => SummaryInv
  BY DEF Init, SummaryInv, Reports
<1>2. Spec => [](TypeInv /\ PhaseInv /\ ReportInv /\ SummaryInv)
  BY <1>1, ReportCorrect, NextSummary, PTL DEF Spec
<1>3. TypeInv /\ ReportInv /\ SummaryInv => RowsPrecedeFeature
  <2>. SUFFICES ASSUME TypeInv, ReportInv, SummaryInv, ~failed, NEW f \in features
       PROVE  LET mine == {r \in rows : r.pool = f.pool /\ r.launch = f.launch}
                  cut == Cardinality(mine)
              IN
              /\ {r.window : r \in mine} = 1..cut
              /\ \A r \in mine : r.complete <=> (f.complete \/ r.window < cut)
              /\ f.complete => cut = Last
    BY DEF RowsPrecedeFeature
  <2>. DEFINE mine == {r \in rows : r.pool = f.pool /\ r.launch = f.launch}
  <2>1. f \in Reports
    BY DEF Reports
  <2>2. RowsOf(f.pool, f.launch) = mine
    BY DEF SummaryInv, RowsOf, Rows
  <2>3. PICK m \in Windows : Summary(f, m)
    BY <2>1 DEF SummaryInv
  <2>4. Cardinality(mine) = m
    BY <2>1, <2>2, <2>3, OneRowEach
  <2>. HIDE DEF mine
  <2>5. {r.window : r \in mine} = 1..m
    BY <2>2, <2>3 DEF Summary
  <2>6. \A r \in mine : r.complete <=> (f.complete \/ r.window < m)
    BY <2>2, <2>3 DEF Summary
  <2>7. f.complete => m = Last
    BY <2>3 DEF Summary
  <2>. QED BY <2>4, <2>5, <2>6, <2>7 DEF mine
<1>. QED BY <1>2, <1>3, PTL
=============================================================================
