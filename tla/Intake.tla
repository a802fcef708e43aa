------------------------------- MODULE Intake -------------------------------
(***************************************************************************)
(* The intake of the scanner: the log listeners (ingestion/src/listener.rs)*)
(* push notifications into FreshQueue (queue.rs), and the fetch dispatcher *)
(* (fetcher.rs) receives from it.  Listeners and dispatcher are tasks of a *)
(* multi-threaded runtime, so a step here is one critical section or one   *)
(* atomic call: everything between two of them may interleave.             *)
(*                                                                         *)
(* The deque is a set of entries numbered in the order of their push: the  *)
(* back of the deque is the entry with the largest number.  Reconnection   *)
(* of a listener is a pause in its stream.  The fetch jobs are seen from   *)
(* here as the number of occupied slots; module Fetcher models them.       *)
(***************************************************************************)
EXTENDS Dedup

CONSTANTS
  Listeners,    \* one task per program; they share the queue and the history
  Sigs,         \* transaction signatures
  Capacity,     \* of the queue
  MaxAge,       \* max_fetch_start_age_ms, in ticks
  Limit,        \* fetch jobs at once
  None,         \* no event in hand, no entry taken
  MaxReceived,  \* bound of the model: notifications received by all listeners
  MaxTime       \* bound of the model: ticks of the clock

ASSUME IntakeAssumption ==
  /\ IsFiniteSet(Listeners)
  /\ Capacity \in Nat \ {0}
  /\ MaxAge \in Nat \ {0}
  /\ Limit \in Nat \ {0}
  /\ MaxReceived \in Nat
  /\ MaxTime \in Nat

VARIABLES
  now,         \* tokio's Instant
  early,       \* the EarlyDedup shared by the listeners
  lpc, hand,   \* where each listener is, and the event it has in hand
  evicting,    \* the entries its push evicted, not yet recorded
  items, pushes, closed,      \* State of FreshQueue; pushes numbers the entries
  permit, broadcast,          \* tokio's Notify: a stored permit; notify_waiters was called
  dpc, heard, taken, busy,    \* the dispatcher: see the receive protocol below
  gauge,       \* Metrics.queued, which the occupancy report reads
  n,           \* the counters of Metrics
  log          \* history: the signatures early dedup let through, in order

queueVars == <<items, pushes, closed>>
notifyVars == <<permit, broadcast>>
listenerVars == <<lpc, hand, evicting>>
dispatcherVars == <<dpc, heard, taken, busy>>
vars == <<now, early, listenerVars, queueVars, notifyVars, dispatcherVars, gauge, n, log>>

Time == 0..MaxTime
Event == [sig : Sigs, at : Time]
Entry == [ord : Nat \ {0}, sig : Sigs, at : Time]
Counter == {"received", "failed", "duplicates", "dropped", "admitted",
            "evicted", "discarded", "passed"}

ASSUME NoneAssumption == None \notin Event \cup Entry

Init ==
  /\ now = 0
  /\ early = NoHistory
  /\ lpc = [l \in Listeners |-> "stream"]
  /\ hand = [l \in Listeners |-> None]
  /\ evicting = [l \in Listeners |-> {}]
  /\ items = {} /\ pushes = 0 /\ closed = FALSE
  /\ permit = FALSE /\ broadcast = FALSE
  /\ dpc = "idle" /\ heard = FALSE /\ taken = None /\ busy = 0
  /\ gauge = {}
  /\ n = [c \in Counter |-> 0]
  /\ log = <<>>

Goto(l, pc) == lpc' = [lpc EXCEPT ![l] = pc]
Count(S) == n' = [c \in Counter |-> IF c \in S THEN n[c] + 1 ELSE n[c]]

Stale(e) == now - e.at > MaxAge
Fresh == {e \in items : ~Stale(e)}

-----------------------------------------------------------------------------
(* A listener: one notification at a time. *)

\* The transaction failed on chain.
ReceiveFailed(l) ==
  /\ lpc[l] = "stream" /\ n.received < MaxReceived
  /\ Count({"received", "failed"})
  /\ UNCHANGED <<now, early, listenerVars, queueVars, notifyVars, dispatcherVars, gauge, log>>

\* The signature is in the shared history: another listener, or this one, had it.
ReceiveDuplicate(l, s) ==
  /\ lpc[l] = "stream" /\ n.received < MaxReceived
  /\ Knows(early, s)
  /\ Count({"received", "duplicates"})
  /\ UNCHANGED <<now, early, listenerVars, queueVars, notifyVars, dispatcherVars, gauge, log>>

\* A new signature is remembered before the queue has accepted it.
ReceiveNew(l, s) ==
  /\ lpc[l] = "stream" /\ n.received < MaxReceived
  /\ ~Knows(early, s)
  /\ early' = Remember(early, s)
  /\ log' = Append(log, s)
  /\ hand' = [hand EXCEPT ![l] = [sig |-> s, at |-> now]]
  /\ Goto(l, "push")
  /\ Count({"received"})
  /\ UNCHANGED <<now, evicting, queueVars, notifyVars, dispatcherVars, gauge>>

PushClosed(l) ==
  /\ lpc[l] = "push" /\ closed
  /\ Goto(l, "returned")
  /\ hand' = [hand EXCEPT ![l] = None]
  /\ UNCHANGED <<now, early, evicting, queueVars, notifyVars, dispatcherVars, gauge, n, log>>

\* Mutant of PushFull: the refusal is not counted.
PushFull_Uncounted(l) ==
  /\ lpc[l] = "push" /\ ~closed
  /\ Cardinality(Fresh) >= Capacity
  /\ items' = Fresh
  /\ hand' = [hand EXCEPT ![l] = None]
  /\ Goto(l, "stream")
  /\ UNCHANGED <<now, early, evicting, pushes, closed, notifyVars, dispatcherVars, gauge, n, log>>

\* Mutant of PushFull: the capacity is looked at before stale entries leave.
PushFull_BeforeEviction(l) ==
  /\ lpc[l] = "push" /\ ~closed
  /\ Cardinality(items) >= Capacity
  /\ hand' = [hand EXCEPT ![l] = None]
  /\ Goto(l, "stream")
  /\ Count({"dropped"})
  /\ UNCHANGED <<now, early, evicting, queueVars, notifyVars, dispatcherVars, gauge, log>>

\* Stale entries leave before the capacity is looked at.
PushFull(l) ==
  /\ lpc[l] = "push" /\ ~closed
  /\ Cardinality(Fresh) >= Capacity
  /\ items' = Fresh
  /\ Goto(l, "stream")
  /\ hand' = [hand EXCEPT ![l] = None]
  /\ Count({"dropped"})
  /\ UNCHANGED <<now, early, evicting, pushes, closed, notifyVars, dispatcherVars, gauge, log>>

PushAccepted(l) ==
  /\ lpc[l] = "push" /\ ~closed
  /\ Cardinality(Fresh) < Capacity
  /\ pushes' = pushes + 1
  /\ items' = Fresh \cup {[ord |-> pushes + 1, sig |-> hand[l].sig, at |-> hand[l].at]}
  /\ evicting' = [evicting EXCEPT ![l] = items \ Fresh]
  /\ Goto(l, "notify")
  /\ UNCHANGED <<now, early, hand, closed, notifyVars, dispatcherVars, gauge, n, log>>

\* Mutant of NotifyOne: no permit is stored when nobody waits.
NotifyOne_NoPermit(l) ==
  /\ lpc[l] = "notify"
  /\ Goto(l, "record")
  /\ dpc' = IF dpc = "waiting" THEN "notified" ELSE dpc
  /\ UNCHANGED <<now, early, hand, evicting, queueVars, notifyVars, heard, taken, busy, gauge, n, log>>

\* notify_one, after the queue's lock is released: wake the receiver if it waits,
\* else store a permit.
NotifyOne(l) ==
  /\ lpc[l] = "notify"
  /\ Goto(l, "record")
  /\ \/ dpc = "waiting" /\ dpc' = "notified" /\ permit' = permit
     \/ dpc # "waiting" /\ dpc' = dpc /\ permit' = TRUE
  /\ UNCHANGED <<now, early, hand, evicting, queueVars, broadcast, heard, taken, busy, gauge, n, log>>

\* Mutant of Record: a push that evicted forgets to enter its own signature.
Record_EvictedOnly(l) ==
  /\ lpc[l] = "record"
  /\ gauge' = IF evicting[l] = {} THEN gauge \cup {hand[l].sig}
              ELSE gauge \ {e.sig : e \in evicting[l]}
  /\ n' = [c \in Counter |-> CASE c = "admitted" -> n[c] + 1
                            [] c = "evicted" -> n[c] + Cardinality(evicting[l])
                            [] OTHER -> n[c]]
  /\ evicting' = [evicting EXCEPT ![l] = {}]
  /\ hand' = [hand EXCEPT ![l] = None]
  /\ Goto(l, "stream")
  /\ UNCHANGED <<now, early, queueVars, notifyVars, dispatcherVars, log>>

\* The gauge and the counters follow, under the gauge's own lock.
Record(l) ==
  /\ lpc[l] = "record"
  /\ gauge' = (gauge \cup {hand[l].sig}) \ {e.sig : e \in evicting[l]}
  /\ n' = [c \in Counter |-> CASE c = "admitted" -> n[c] + 1
                            [] c = "evicted" -> n[c] + Cardinality(evicting[l])
                            [] OTHER -> n[c]]
  /\ evicting' = [evicting EXCEPT ![l] = {}]
  /\ hand' = [hand EXCEPT ![l] = None]
  /\ Goto(l, "stream")
  /\ UNCHANGED <<now, early, queueVars, notifyVars, dispatcherVars, log>>

-----------------------------------------------------------------------------
(* The receive protocol of FreshQueue::recv under tokio's Notify:          *)
(*   idle      recv is not being polled (other select! branch, slots full) *)
(*   armed     notified() was created; try_recv is next                    *)
(*   checking  try_recv found nothing; is_closed is next                   *)
(*   polling   the queue was open; notified.await is polled next           *)
(*   waiting   registered as a waiter                                      *)
(*   notified, released    woken by notify_one, by notify_waiters          *)
(*   taken     an entry was received; ended: recv returned None            *)

Arm == dpc' = "armed" /\ heard' = broadcast

\* Mutant of StartRecv: recv is polled with every job slot taken.
StartRecv_Unlimited ==
  /\ dpc = "idle"
  /\ Arm
  /\ UNCHANGED <<now, early, listenerVars, queueVars, notifyVars, taken, busy, gauge, n, log>>

StartRecv ==
  /\ dpc = "idle" /\ busy < Limit
  /\ Arm
  /\ UNCHANGED <<now, early, listenerVars, queueVars, notifyVars, taken, busy, gauge, n, log>>

\* pop_back: the entry pushed last.
TryRecv ==
  /\ dpc = "armed"
  /\ \/ /\ items = {}
        /\ dpc' = "checking"
        /\ UNCHANGED <<items, taken>>
     \/ \E e \in items :
          /\ \A f \in items : f.ord <= e.ord
          /\ taken' = e
          /\ items' = items \ {e}
          /\ dpc' = "taken"
  /\ UNCHANGED <<now, early, listenerVars, pushes, closed, notifyVars, heard, busy, gauge, n, log>>

CheckClosed ==
  /\ dpc = "checking"
  /\ dpc' = IF closed THEN "ended" ELSE "polling"
  /\ UNCHANGED <<now, early, listenerVars, queueVars, notifyVars, heard, taken, busy, gauge, n, log>>

\* Mutant of PollNotified: only a permit completes it at once.
PollNotified_PermitOnly ==
  /\ dpc = "polling"
  /\ \/ permit /\ permit' = FALSE /\ Arm
     \/ ~permit /\ dpc' = "waiting" /\ UNCHANGED <<heard, permit>>
  /\ UNCHANGED <<now, early, listenerVars, queueVars, broadcast, taken, busy, gauge, n, log>>

\* A permit, or a notify_waiters since notified() was created, completes at once.
PollNotified ==
  /\ dpc = "polling"
  /\ \/ permit /\ permit' = FALSE /\ Arm
     \/ ~permit /\ broadcast # heard /\ Arm /\ UNCHANGED permit
     \/ ~permit /\ broadcast = heard /\ dpc' = "waiting" /\ UNCHANGED <<heard, permit>>
  /\ UNCHANGED <<now, early, listenerVars, queueVars, broadcast, taken, busy, gauge, n, log>>

Wake ==
  /\ dpc \in {"notified", "released"}
  /\ Arm
  /\ UNCHANGED <<now, early, listenerVars, queueVars, notifyVars, taken, busy, gauge, n, log>>

\* Mutant of Dispatch: a stale entry is skipped without being counted.
Dispatch_StaleUncounted ==
  /\ dpc = "taken"
  /\ gauge' = gauge \ {taken.sig}
  /\ dpc' = "idle" /\ taken' = None
  /\ \/ Stale(taken) /\ busy' = busy /\ n' = n
     \/ ~Stale(taken) /\ Count({"passed"}) /\ busy' \in {busy, busy + 1}
  /\ UNCHANGED <<now, early, listenerVars, queueVars, notifyVars, heard, log>>

\* The dispatcher leaves recv with an entry: it drops it from the gauge, then
\* discards it if it is stale.  A fresh one takes a job slot unless it repeats.
Dispatch ==
  /\ dpc = "taken"
  /\ gauge' = gauge \ {taken.sig}
  /\ dpc' = "idle" /\ taken' = None
  /\ \/ Stale(taken) /\ Count({"discarded"}) /\ busy' = busy
     \/ ~Stale(taken) /\ Count({"passed"}) /\ busy' \in {busy, busy + 1}
  /\ UNCHANGED <<now, early, listenerVars, queueVars, notifyVars, heard, log>>

\* A finished job wins the biased select! and drops the pending recv: a
\* notification that had already reached it goes back to the Notify.
JobDone ==
  /\ busy > 0
  /\ dpc \in {"idle", "waiting", "notified", "released", "ended"}
  /\ busy' = busy - 1
  /\ dpc' = IF dpc = "ended" THEN "ended" ELSE "idle"
  /\ permit' = (permit \/ dpc = "notified")
  /\ UNCHANGED <<now, early, listenerVars, queueVars, broadcast, heard, taken, gauge, n, log>>

-----------------------------------------------------------------------------
(* close() on shutdown: the flag under the lock, then notify_waiters. *)

Close ==
  /\ ~closed /\ closed' = TRUE
  /\ UNCHANGED <<now, early, listenerVars, items, pushes, notifyVars, dispatcherVars, gauge, n, log>>

NotifyWaiters ==
  /\ closed /\ ~broadcast /\ broadcast' = TRUE
  /\ dpc' = IF dpc = "waiting" THEN "released" ELSE dpc
  /\ UNCHANGED <<now, early, listenerVars, queueVars, permit, heard, taken, busy, gauge, n, log>>

Tick ==
  /\ now < MaxTime /\ now' = now + 1
  /\ UNCHANGED <<early, listenerVars, queueVars, notifyVars, dispatcherVars, gauge, n, log>>

\* dispatch() has returned: nothing has to happen any more.
Returned == dpc = "ended" /\ busy = 0
Terminating == Returned /\ UNCHANGED vars

Listener(l) == PushClosed(l) \/ PushFull(l) \/ PushAccepted(l) \/ NotifyOne(l) \/ Record(l)
Receive(l) == ReceiveFailed(l) \/ \E s \in Sigs : ReceiveDuplicate(l, s) \/ ReceiveNew(l, s)
Dispatcher == StartRecv \/ TryRecv \/ CheckClosed \/ PollNotified \/ Wake \/ Dispatch

Next ==
  \/ \E l \in Listeners : Receive(l) \/ Listener(l)
  \/ Dispatcher \/ JobDone
  \/ Close \/ NotifyWaiters \/ Tick \/ Terminating

Spec == Init /\ [][Next]_vars

\* A task that can run is run; a job finishes (module Fetcher); close() runs to
\* its end.  Nothing makes a notification arrive, time pass or the scanner stop.
Fairness ==
  /\ \A l \in Listeners : WF_vars(Listener(l))
  /\ WF_vars(Dispatcher) /\ WF_vars(JobDone) /\ WF_vars(NotifyWaiters)

FairSpec == Spec /\ Fairness

-----------------------------------------------------------------------------
TypeOK ==
  /\ now \in Time
  /\ early \in [seen : SUBSET Sigs, order : Seq(Sigs)]
  /\ lpc \in [Listeners -> {"stream", "push", "notify", "record", "returned"}]
  /\ hand \in [Listeners -> Event \cup {None}]
  /\ evicting \in [Listeners -> SUBSET Entry]
  /\ items \subseteq Entry /\ pushes \in Nat /\ closed \in BOOLEAN
  /\ permit \in BOOLEAN /\ broadcast \in BOOLEAN
  /\ dpc \in {"idle", "armed", "checking", "polling", "waiting", "notified",
              "released", "taken", "ended"}
  /\ heard \in BOOLEAN /\ taken \in Entry \cup {None} /\ busy \in 0..Limit
  /\ gauge \subseteq Sigs
  /\ n \in [Counter -> Nat]
  /\ log \in Seq(Sigs)

\* Entries evicted and not yet counted; where the listeners are.
Pending == UNION {evicting[l] : l \in Listeners}
At(pcs) == {l \in Listeners : lpc[l] \in pcs}

\* Shared history: a signature enters the queue once, and enters again only after
\* HistoryCap others have pushed it out of the history (EarlyDedup, dedup.rs).
EnteredOnce ==
  \A i, j \in 1..Len(log) : i < j /\ log[i] = log[j] => j - i > HistoryCap

\* A notification is refused as "full" only while the queue holds Capacity entries
\* that are all fresh, and then nothing leaves the queue: the evictions of a refused
\* push, which push() drops uncounted, do not exist (queue.rs push).
RefusedOnlyWhenFreshFull ==
  [][n'.dropped # n.dropped => /\ items' = items
                               /\ Cardinality(items) = Capacity
                               /\ \A e \in items : ~Stale(e)]_vars

\* Every notification received is in exactly one counter, or still in the hands of
\* its listener, or was the one a closed queue sent back (listener.rs).
NotificationsAccounted ==
  n.received = n.failed + n.duplicates + n.dropped + n.admitted
               + Cardinality(At({"push", "notify", "record", "returned"}))

\* Every entry the queue accepted is still queued, was evicted and will be counted,
\* was discarded as stale, or was passed on: admission loses no work silently.
WorkAccounted ==
  n.admitted + Cardinality(At({"notify", "record"})) =
    Cardinality(items) + Cardinality(Pending) + n.evicted + n.discarded
    + n.passed + (IF dpc = "taken" THEN 1 ELSE 0)

\* The receiver never sleeps through work or through the close: while it waits and
\* nothing has woken it, the queue is empty or a listener is about to notify, and
\* notify_waiters is still to come (queue.rs recv, push and close).
NoLostWakeup ==
  dpc = "waiting" => /\ items = {} \/ At({"notify"}) # {}
                     /\ ~broadcast

\* The occupancy gauge never misses queued work: a queued signature that entered the
\* queue once is in the gauge or its listener is about to put it there.
GaugeCoversQueue ==
  \A e \in items :
    \/ e.sig \in gauge
    \/ \E l \in At({"notify", "record"}) : hand[l].sig = e.sig
    \/ \E i, j \in 1..Len(log) : i # j /\ log[i] = e.sig /\ log[j] = e.sig

\* docs/architecture.md:33 promises fixed capacities for what the scanner keeps in
\* memory.  Between notifications the gauge holds what is queued, hence at most
\* Capacity signatures.  The code does not keep this: see the findings.
GaugeBounded ==
  At({"stream", "returned"}) = Listeners /\ dpc # "taken" => Cardinality(gauge) <= Capacity

\* Queued work reaches the dispatcher: with an entry in the queue the dispatcher
\* takes one, or eviction empties the queue, or dispatch ends after the close.
WorkIsTaken == items # {} ~> dpc \in {"taken", "ended"} \/ items = {}

\* A close always ends the dispatcher, wherever its recv was, without an abort.
CloseEndsDispatch == closed ~> Returned
=============================================================================
