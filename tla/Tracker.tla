------------------------------ MODULE Tracker ------------------------------
(***************************************************************************)
(* The tracker of launches (ingestion/src/momentum.rs) and the coordinator *)
(* that owns it (the select loop, process() and the shutdown of main.rs).  *)
(*                                                                         *)
(* The coordinator is one task: it advances the tracker, writes the rows   *)
(* that are due, writes the finished features, and only then processes the *)
(* event it received.  Every write is an await: time passes while it runs, *)
(* and it may fail, which ends the loop.  Time is relative: a pool and an  *)
(* event have an age.  What a transaction is beyond the pools that it      *)
(* creates and touches (swaps, payers, rates, the score) is left out.      *)
(***************************************************************************)
EXTENDS Integers, FiniteSets, Functions

CONSTANTS
  Pools, Txs,
  Creates,    \* the pools that a transaction creates: detect_new_pools
  Touches,    \* the pools that its Raydium instructions refer to
  Ends,       \* 10, 30 and 60 seconds in the code: a function on Windows
  Windows,
  MaxPools, MaxTransactions,
  MaxAge,     \* max_momentum_event_age_ms
  MaxEvents   \* bound of the model: events received

Last == Cardinality(Windows)
Start(w) == IF w = 1 THEN 0 ELSE Ends[w - 1]
Horizon == Ends[Last] + 2 * MaxAge  \* no fresh event falls into a pool this old

ASSUME TrackerAssumption ==
  /\ IsFiniteSet(Pools) /\ IsFiniteSet(Txs) /\ Txs # {}
  /\ Creates \in [Txs -> SUBSET Pools] /\ Touches \in [Txs -> SUBSET Pools]
  /\ Last \in Nat \ {0} /\ Windows = 1..Last
  /\ Ends \in [Windows -> Nat \ {0}] /\ \A v, w \in Windows : v < w => Ends[v] < Ends[w]
  /\ {MaxPools, MaxTransactions, MaxAge, MaxEvents} \subseteq Nat

VARIABLES
  pools,      \* Tracker.pools
  rejected,   \* Tracker.rejected_pools
  completed,  \* Tracker.completed_features
  pc, task,   \* where the coordinator is, and what for
  ev,         \* the event in hand: its age, and how long ago `now` was read
  rowQ, rows,           \* snapshots still to be written, and those written
  featureQ, features,   \* the same for features
  launches,   \* history: how often each pool was registered
  failed,     \* a write has failed
  received    \* events received

tracker == <<pools, rejected, completed, launches>>
outputs == <<rowQ, rows, featureQ, features>>
vars == <<tracker, outputs, pc, task, ev, failed, received>>

Tasks == {"timer", "event", "shutdown"}
Open == DOMAIN pools
NoEvent == [tx |-> CHOOSE t \in Txs : TRUE, age |-> 0, delay |-> 0]

Init ==
  /\ pools = [p \in {} |-> 0] /\ rejected = 0 /\ completed = {}
  /\ pc = "idle" /\ task = "timer" /\ ev = NoEvent
  /\ rowQ = {} /\ rows = {} /\ featureQ = {} /\ features = {}
  /\ launches = [p \in Pools |-> 0]
  /\ failed = FALSE /\ received = 0

-----------------------------------------------------------------------------
(* advance(): emit the windows that have ended, then forget the old pools. *)

\* `sent` stands for `next`: the windows before it.
Due(p) == {w \in Windows \ pools[p].sent : pools[p].age >= Ends[w]}
Finished == {p \in Open : Last \in Due(p)}

Row(p, w, complete) ==
  [pool |-> p, launch |-> pools[p].launch, window |-> w,
   tx |-> pools[p].tx[w], complete |-> complete]
Feature(p, complete) ==
  [pool |-> p, launch |-> pools[p].launch, tx |-> pools[p].tx, complete |-> complete]

DueRows == UNION {{Row(p, w, TRUE) : w \in Due(p)} : p \in Open}

Advance ==
  /\ rowQ' = DueRows
  /\ completed' = completed \cup {Feature(p, TRUE) : p \in Finished}
  /\ pools' = [p \in Open \ Finished |-> [pools[p] EXCEPT !.sent = @ \cup Due(p)]]

\* Mutant of TimerTick: only events close windows.
TimerTick_Idle == pc = "idle" /\ DueRows # {} /\ UNCHANGED vars

TimerTick ==
  /\ pc = "idle" /\ DueRows # {}
  /\ Advance
  /\ pc' = "rows" /\ task' = "timer"
  /\ UNCHANGED <<rejected, launches, rows, featureQ, features, ev, failed, received>>

Recv(t, age) ==
  /\ pc = "idle" /\ received < MaxEvents
  /\ Advance
  /\ pc' = "rows" /\ task' = "event"
  /\ ev' = [tx |-> t, age |-> age, delay |-> 0]
  /\ received' = received + 1
  /\ UNCHANGED <<rejected, launches, rows, featureQ, features, failed>>

\* Ctrl+C, a task that ended, or a closed channel.
Interrupt ==
  /\ pc = "idle"
  /\ pc' = "stopping"
  /\ UNCHANGED <<tracker, outputs, task, ev, failed, received>>

\* Mutant of Shutdown: the partial pools are reported but not forgotten.
Shutdown_KeepsPools ==
  /\ pc = "stopping"
  /\ LET partial == Open \ Finished IN
     /\ rowQ' = DueRows \cup
          {Row(p, Cardinality(pools[p].sent \cup Due(p)) + 1, FALSE) : p \in partial}
     /\ completed' = completed \cup {Feature(p, TRUE) : p \in Finished}
                               \cup {Feature(p, FALSE) : p \in partial}
     /\ pools' = [p \in partial |-> pools[p]]
  /\ pc' = "rows" /\ task' = "shutdown"
  /\ UNCHANGED <<rejected, launches, rows, featureQ, features, ev, failed, received>>

\* shutdown(): what is due, then one partial row and feature for each open pool.
Shutdown ==
  /\ pc = "stopping"
  /\ LET partial == Open \ Finished IN
     /\ rowQ' = DueRows \cup
          {Row(p, Cardinality(pools[p].sent \cup Due(p)) + 1, FALSE) : p \in partial}
     /\ completed' = completed \cup {Feature(p, TRUE) : p \in Finished}
                               \cup {Feature(p, FALSE) : p \in partial}
  /\ pools' = [p \in {} |-> 0]
  /\ pc' = "rows" /\ task' = "shutdown"
  /\ UNCHANGED <<rejected, launches, rows, featureQ, features, ev, failed, received>>

-----------------------------------------------------------------------------
(* snapshots() and features(): write what was drained, one row at a time. *)

WriteRow(r) ==
  /\ pc = "rows" /\ r \in rowQ
  /\ rowQ' = rowQ \ {r} /\ rows' = rows \cup {r}
  /\ UNCHANGED <<tracker, featureQ, features, pc, task, ev, failed, received>>

\* The other rows are lost; the features are still in the tracker.
WriteRowFails ==
  /\ pc = "rows" /\ rowQ # {}
  /\ failed' = TRUE /\ rowQ' = {}
  /\ pc' = (IF task = "shutdown" THEN "rows" ELSE "stopping") /\ ev' = NoEvent
  /\ UNCHANGED <<tracker, rows, featureQ, features, task, received>>

\* Mutant of TakeFeatures: the features do not wait for the rows.
TakeFeatures_Early ==
  /\ pc = "rows"
  /\ featureQ' = completed /\ completed' = {}
  /\ pc' = "features"
  /\ UNCHANGED <<pools, rejected, launches, rowQ, rows, features, task, ev, failed, received>>

TakeFeatures ==
  /\ pc = "rows" /\ rowQ = {}
  /\ featureQ' = completed /\ completed' = {}
  /\ pc' = "features"
  /\ UNCHANGED <<pools, rejected, launches, rowQ, rows, features, task, ev, failed, received>>

WriteFeature(f) ==
  /\ pc = "features" /\ f \in featureQ
  /\ featureQ' = featureQ \ {f} /\ features' = features \cup {f}
  /\ UNCHANGED <<tracker, rowQ, rows, pc, task, ev, failed, received>>

\* The features that were taken and not yet written are lost.
WriteFeatureFails ==
  /\ pc = "features" /\ featureQ # {}
  /\ failed' = TRUE /\ featureQ' = {}
  /\ pc' = (IF task = "shutdown" THEN "stopped" ELSE "stopping") /\ ev' = NoEvent
  /\ UNCHANGED <<tracker, rowQ, rows, features, task, received>>

Return ==
  /\ pc = "features" /\ featureQ = {} /\ task # "event"
  /\ pc' = IF task = "shutdown" THEN "stopped" ELSE "idle"
  /\ UNCHANGED <<tracker, outputs, task, ev, failed, received>>

-----------------------------------------------------------------------------
(* process(): register the pools created, then count the transaction. *)

Stale == ev.age > MaxAge

\* observed_now is `now` less the age, which is read later: the delay counts twice.
ObservedAge(r) == r.age - ev.delay - ev.age

\* Mutant of NewPool: the age is added to `now` instead of subtracted.
NewPool_Future(p) ==
  [launch |-> launches[p] + 1, age |-> ev.delay - ev.age, sent |-> {},
   tx |-> [w \in Windows |-> 0], seen |-> {}, capped |-> FALSE]

NewPool(p) ==
  [launch |-> launches[p] + 1, age |-> ev.age + ev.delay, sent |-> {},
   tx |-> [w \in Windows |-> 0], seen |-> {}, capped |-> FALSE]

\* register_with_lag() for each pool created: known pools are left alone, and
\* those above the capacity are rejected.
Register(wanted, admitted) ==
  /\ admitted \subseteq wanted
  /\ Cardinality(Open) + Cardinality(admitted) <= MaxPools
  /\ launches' = [p \in Pools |-> launches[p] + (IF p \in admitted THEN 1 ELSE 0)]

\* Mutant of Wanted: contains_key is not asked.
Wanted_Again == IF Stale THEN {} ELSE Creates[ev.tx]

Wanted == IF Stale THEN {} ELSE Creates[ev.tx] \ Open

Registered(admitted) == [p \in Open \cup admitted |-> IF p \in admitted THEN NewPool(p) ELSE pools[p]]

\* Mutant of Inside: a window takes in its end, where the timer has closed it.
Inside_Closed(r) ==
  {w \in Windows : /\ 0 <= ObservedAge(r) /\ ObservedAge(r) <= Ends[w]
                   /\ w = 1 \/ Start(w) < ObservedAge(r)}

\* The window that a transaction of the event's age falls into, as a set.
Inside(r) ==
  {w \in Windows : /\ 0 <= ObservedAge(r) /\ ObservedAge(r) < Ends[w]
                   /\ Start(w) <= ObservedAge(r)}
Add(r) ==
  [r EXCEPT !.seen = @ \cup {ev.tx},
            !.tx = [w \in Windows |-> @[w] + (IF w \in Inside(r) THEN 1 ELSE 0)]]

\* Mutant of Observed: a window that was emitted still counts.
Observed_Late(p, r) ==
  IF Stale \/ p \notin Touches[ev.tx] \/ Inside(r) = {} \/ ev.tx \in r.seen
  THEN r
  ELSE IF Cardinality(r.seen) >= MaxTransactions THEN [r EXCEPT !.capped = TRUE] ELSE Add(r)

\* observe() for one pool.
Observed(p, r) ==
  IF Stale \/ p \notin Touches[ev.tx] \/ Inside(r) \subseteq r.sent \/ ev.tx \in r.seen
  THEN r
  ELSE IF Cardinality(r.seen) >= MaxTransactions THEN [r EXCEPT !.capped = TRUE] ELSE Add(r)

Process ==
  /\ pc = "features" /\ featureQ = {} /\ task = "event"
  /\ \E admitted \in SUBSET Wanted :
       LET tracked == Registered(admitted) IN
       /\ Register(Wanted, admitted)
       /\ admitted # Wanted => Cardinality(Open) + Cardinality(admitted) = MaxPools
       /\ rejected' = rejected + Cardinality(Wanted \ admitted)
       /\ pools' = [p \in DOMAIN tracked |-> Observed(p, tracked[p])]
  /\ pc' = "idle" /\ ev' = NoEvent
  /\ UNCHANGED <<completed, outputs, task, failed, received>>

\* A write of process() fails: some pools may be registered, nothing is counted.
ProcessFails ==
  /\ pc = "features" /\ featureQ = {} /\ task = "event"
  /\ \E admitted \in SUBSET Wanted :
       /\ Register(Wanted, admitted)
       /\ pools' = Registered(admitted)
       /\ \E k \in 0..Cardinality(Wanted \ admitted) :
            /\ k > 0 => Cardinality(Open) + Cardinality(admitted) = MaxPools
            /\ rejected' = rejected + k
  /\ failed' = TRUE /\ ev' = NoEvent
  /\ pc' = "stopping"
  /\ UNCHANGED <<completed, outputs, task, received>>

-----------------------------------------------------------------------------
\* Time passes in the loop's select, while something is written, and while the
\* tasks are joined.
Tick ==
  /\ pc \in {"idle", "stopping"} \/ rowQ # {} \/ featureQ # {}
  /\ pools' = [p \in Open |-> [pools[p] EXCEPT !.age = IF @ < Horizon THEN @ + 1 ELSE @]]
  /\ ev' = IF pc \in {"rows", "features"} /\ task = "event"
           THEN IF ev.age < MaxAge
                THEN [ev EXCEPT !.age = @ + 1, !.delay = @ + 1]
                ELSE [ev EXCEPT !.age = MaxAge + 1, !.delay = 0]
           ELSE ev
  /\ UNCHANGED <<rejected, completed, launches, outputs, pc, task, failed, received>>

Terminating == pc = "stopped" /\ UNCHANGED vars

Write == (\E r \in rowQ : WriteRow(r)) \/ (\E f \in featureQ : WriteFeature(f))
Continue == TakeFeatures \/ Return \/ Process \/ Shutdown
Fail == WriteRowFails \/ WriteFeatureFails \/ ProcessFails

Next ==
  \/ TimerTick \/ (\E t \in Txs, age \in 0..(MaxAge + 1) : Recv(t, age)) \/ Interrupt
  \/ Write \/ Continue \/ Fail
  \/ Tick \/ Terminating

Spec == Init /\ [][Next]_vars

\* The select is biased: the timer comes before the events.  Writes return.
FairSpec ==
  Spec /\ WF_vars(Tick) /\ WF_vars(TimerTick) /\ WF_vars(Write) /\ WF_vars(Continue)

-----------------------------------------------------------------------------
PoolState == [launch : Nat, age : 0..Horizon, sent : SUBSET Windows,
              tx : [Windows -> Nat], seen : SUBSET Txs, capped : BOOLEAN]
RowType == [pool : Pools, launch : Nat, window : Windows, tx : Nat, complete : BOOLEAN]
FeatureType == [pool : Pools, launch : Nat, tx : [Windows -> Nat], complete : BOOLEAN]

TypeOK ==
  /\ Open \subseteq Pools /\ \A p \in Open : pools[p] \in PoolState
  /\ rejected \in Nat /\ launches \in [Pools -> Nat]
  /\ completed \cup featureQ \cup features \subseteq FeatureType
  /\ rowQ \cup rows \subseteq RowType
  /\ pc \in {"idle", "rows", "features", "stopping", "stopped"} /\ task \in Tasks
  /\ ev \in [tx : Txs, age : 0..(MaxAge + 1), delay : 0..MaxAge]
  /\ failed \in BOOLEAN /\ received \in 0..MaxEvents

\* The event in hand is processed in the very moment it was received.
Prompt == pc \in {"rows", "features"} /\ task = "event" /\ ev.age = 0 /\ ev.delay = 0

\* Memory is bounded, and a transaction is in one window of a pool, once, whatever
\* the order in which notifications are processed (register_with_lag, observe).
\* One that is processed in the moment it is received finds its window open, also
\* on an edge, where advance() has just closed the window before.
Counted ==
  /\ Cardinality(Open) <= MaxPools
  /\ \A p \in Open :
       /\ Cardinality(pools[p].seen) <= MaxTransactions
       /\ SumFunctionOnSet(pools[p].tx, Windows) = Cardinality(pools[p].seen)
       /\ Prompt => ~(Inside(pools[p]) \subseteq pools[p].sent)

\* Late arrivals cannot rewrite emitted windows: what a row said of a window is
\* what the tracker, and the feature written minutes later, say of it (observe).
EmittedWindowsFinal ==
  \A r \in rowQ \cup rows :
    /\ \A p \in Open :
         p = r.pool /\ pools[p].launch = r.launch => pools[p].tx[r.window] = r.tx
    /\ \A f \in completed \cup featureQ \cup features :
         f.pool = r.pool /\ f.launch = r.launch => f.tx[r.window] = r.tx

\* Every launch ever registered is in exactly one place: open, about to be written,
\* or written.  None is reset by a second creation and none is lost between
\* advance, take_features, shutdown and the writes.  A write that fails may lose
\* what was drained; the shutdown after it still reports no launch twice.
LaunchesAccounted ==
  \A p \in Pools : \A k \in 1..launches[p] :
    LET Is(f) == f.pool = p /\ f.launch = k
        open == p \in Open /\ pools[p].launch = k
        places == <<completed, featureQ, features>>
    IN
    /\ ~failed => open \/ \E i \in 1..3 : \E f \in places[i] : Is(f)
    /\ \A i, j \in 1..3 : \A f \in places[i], g \in places[j] :
         Is(f) /\ Is(g) => ~open /\ i = j /\ f = g

\* Unless a write failed, a feature is written after the rows it summarises: all
\* the windows, complete, or at a shutdown those up to the one that was cut off.
RowsPrecedeFeature ==
  ~failed =>
    \A f \in features :
      LET mine == {r \in rows : r.pool = f.pool /\ r.launch = f.launch}
          cut == Cardinality(mine)
      IN
      /\ {r.window : r \in mine} = 1..cut
      /\ \A r \in mine : r.complete <=> (f.complete \/ r.window < cut)
      /\ f.complete => cut = Last

\* freshness.rs: momentum windows begin when this process receives the
\* notification.  They begin earlier, by the time the writes before process() took.
WindowsBeginAtReceipt ==
  [][\A p \in DOMAIN pools' \ DOMAIN pools : pools'[p].age = ev.age]_vars

\* Every launch registered is reported in the end, silence or not, unless a write
\* fails: the timer alone closes the windows.
LaunchesReported ==
  \A p \in Pools, k \in 1..MaxEvents :
    launches[p] >= k ~> failed \/ \E f \in features : f.pool = p /\ f.launch = k

\* A coordinator that leaves its loop stops, with nothing open, whatever fails.
StopsEmpty == pc = "stopping" ~> pc = "stopped" /\ Open = {} /\ completed = {}
=============================================================================
