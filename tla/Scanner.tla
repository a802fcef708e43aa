------------------------------ MODULE Scanner ------------------------------
(***************************************************************************)
(* The scanner from the notification to the feature: the listeners, the    *)
(* queue, the fetch jobs, the output channel and the coordinator with the  *)
(* tracker and the quality flags, for one launch. Every other transaction  *)
(* trades on it.                                                           *)
(*                                                                         *)
(* A step is one handler of one task. The steps inside the handlers are    *)
(* modelled where they matter: Intake (the queue's protocol), Fetcher (the *)
(* gate and the retries), Tracker (windows, rows and writes).              *)
(* Left out: notifications of failed transactions, malformed signatures,   *)
(* which the endpoint does not send, and whatever comes after Ctrl+C.      *)
(***************************************************************************)
EXTENDS Dedup

CONSTANTS
    Sig, Creation,      \* signatures; the one whose transaction creates the launch
    Capacity, Limit, OutCap,    \* of the queue, the jobs and the output channel
    MaxFetchAge, MaxMomentumAge,
    MaxTransactions,    \* that the tracker counts of a launch
    Ends,               \* the windows' ends, ascending
    LaunchLab,          \* whether the launchlab program is configured
    MaxReceived, MaxTime    \* Bounds: notifications; ticks

ASSUME ScannerAssumption ==
    /\ Creation \in Sig
    /\ {Capacity, Limit, OutCap, MaxFetchAge, MaxMomentumAge, MaxTransactions} \subseteq Nat \ {0}
    /\ Ends \in Seq(Nat) /\ Ends # <<>>
    /\ \A v, w \in DOMAIN Ends : v < w => Ends[v] < Ends[w]
    /\ LaunchLab \in BOOLEAN
    /\ {MaxReceived, MaxTime} \subseteq Nat

VARIABLES
    now,
    early, late,        \* the histories of the listeners and of the dispatcher
    queue,              \* events [sig, at, no], numbered as they arrive
    jobs, out,          \* events [sig, at]: a set and a sequence
    launch,             \* "none", "open", "due" (its feature is to be written), "over"
    start, closed, counted,     \* of the launch: its start, the windows that
                                \* are over, the signatures observed
    feature,            \* the written feature, or NoFeature
    n,                  \* the counters of Metrics
    running,
    arrived, fate       \* history: the events of the notifications that were
                        \* no duplicates; <<signature, how it was lost>>

vars == <<now, early, late, queue, jobs, out, launch, start, closed, counted,
          feature, n, running, arrived, fate>>

Outcomes == {"duplicates", "dropped", "evicted", "stale_fetch", "failures", "processed"}
Counter == Outcomes \cup {"received", "stale_momentum", "rate_limits"}
NoFeature == [written |-> FALSE]

Init ==
    /\ now = 0
    /\ early = NoHistory /\ late = NoHistory
    /\ queue = {} /\ jobs = {} /\ out = <<>>
    /\ launch = "none" /\ start = 0 /\ closed = 0 /\ counted = {}
    /\ feature = NoFeature
    /\ n = [c \in Counter |-> 0]
    /\ running = TRUE /\ arrived = {} /\ fate = {}

Older(e, age) == now - e.at > age
Count(S) == n' = [c \in Counter |-> IF c \in S THEN n[c] + 1 ELSE n[c]]
Lose(sig, how) == fate' = fate \cup {<<sig, how>>}

trackerVars == <<launch, start, closed, counted, feature>>

-----------------------------------------------------------------------------
(* The listeners *)

Duplicate(s) ==
    /\ Knows(early, s)
    /\ Count({"received", "duplicates"})
    /\ UNCHANGED <<now, early, late, queue, jobs, out, trackerVars, running, arrived, fate>>

Event(e) == [sig |-> e.sig, at |-> e.at]
Stale == {e \in queue : Older(e, MaxFetchAge)}
Refuses == Cardinality(queue \ Stale) >= Capacity
Received(s) == [sig |-> s, at |-> now, no |-> n.received]

\* A signature that is not known, and is remembered before the queue accepts it.
New(s) ==
    /\ ~Knows(early, s)
    /\ early' = Remember(early, s)
    /\ arrived' = arrived \cup {Event(Received(s))}
    /\ UNCHANGED <<now, late, jobs, out, trackerVars, running>>

\* Mutant of Push: what was evicted is not counted.
Push_EvictedUncounted(s) ==
    /\ New(s) /\ ~Refuses
    /\ queue' = (queue \ Stale) \cup {Received(s)}
    /\ Count({"received"}) /\ UNCHANGED fate

\* What is stale leaves the queue first.
Push(s) ==
    /\ New(s) /\ ~Refuses
    /\ queue' = (queue \ Stale) \cup {Received(s)}
    /\ n' = [n EXCEPT !["received"] = @ + 1, !["evicted"] = @ + Cardinality(Stale)]
    /\ fate' = fate \cup {<<e.sig, "evicted">> : e \in Stale}

\* A queue full of fresh entries refuses.
Refuse(s) ==
    /\ New(s) /\ Refuses
    /\ queue' = queue \ Stale
    /\ Count({"received", "dropped"}) /\ Lose(s, "full")

\* Two listeners may be notified of one transaction.
Notify(s) == running /\ n.received < MaxReceived /\ (Duplicate(s) \/ Push(s) \/ Refuse(s))

-----------------------------------------------------------------------------
(* The dispatcher and its jobs *)

\* The dispatcher takes the newest event: it discards a stale one and one whose
\* signature it remembers or has a job for, and starts a job for another.
Take(e) == queue' = queue \ {e} /\ UNCHANGED <<now, early, out, trackerVars, running, arrived>>

DispatchStale(e) ==
    /\ Older(e, MaxFetchAge)
    /\ Take(e) /\ Count({"stale_fetch"}) /\ Lose(e.sig, "stale fetch")
    /\ UNCHANGED <<late, jobs>>

DispatchDuplicate(e) ==
    /\ ~Older(e, MaxFetchAge)
    /\ Knows(late, e.sig) \/ \E j \in jobs : j.sig = e.sig
    /\ Take(e) /\ Count({"duplicates"})
    /\ UNCHANGED <<late, jobs, fate>>

DispatchJob(e) ==
    /\ ~Older(e, MaxFetchAge)
    /\ ~Knows(late, e.sig) /\ \A j \in jobs : j.sig # e.sig
    /\ Take(e)
    /\ late' = Remember(late, e.sig) /\ jobs' = jobs \cup {Event(e)}
    /\ UNCHANGED <<n, fate>>

Dispatch ==
    /\ running /\ Cardinality(jobs) < Limit
    /\ \E e \in queue :
        /\ \A f \in queue : f.no <= e.no
        /\ DispatchStale(e) \/ DispatchDuplicate(e) \/ DispatchJob(e)

JobStale(e) ==
    /\ Older(e, MaxFetchAge)
    /\ jobs' = jobs \ {e}
    /\ Count({"stale_fetch"}) /\ Lose(e.sig, "stale fetch")
    /\ UNCHANGED <<now, early, late, queue, out, trackerVars, running, arrived>>

JobFails(e) ==
    /\ jobs' = jobs \ {e}
    /\ Count({"failures"}) /\ Lose(e.sig, "failed")
    /\ UNCHANGED <<now, early, late, queue, out, trackerVars, running, arrived>>

\* Of the answers with a 429 the first one counts: the flag is read as > 0.
JobLimited ==
    /\ n.rate_limits = 0
    /\ Count({"rate_limits"})
    /\ UNCHANGED <<now, early, late, queue, jobs, out, trackerVars, running, arrived, fate>>

JobDone(e) ==
    /\ Len(out) < OutCap
    /\ jobs' = jobs \ {e}
    /\ out' = Append(out, e)
    /\ UNCHANGED <<now, early, late, queue, trackerVars, n, running, arrived, fate>>

Job(e) == running /\ (JobStale(e) \/ JobFails(e) \/ JobLimited \/ JobDone(e))

-----------------------------------------------------------------------------
(* The coordinator *)

\* The windows that are over by the clock.
Over == Cardinality({w \in DOMAIN Ends : now - start >= Ends[w]})

\* Mutant of Due: the bounds of the loop in advance() meet.
Due_Again == launch = "open" /\ Over >= closed

Due == launch = "open" /\ Over > closed

\* advance(): by the timer, or before an event is processed. After the last
\* window the feature is written by the same handler, which awaits the file.
Advance ==
    /\ running /\ Due
    /\ closed' = Over
    /\ launch' = IF Over = Len(Ends) THEN "due" ELSE "open"
    /\ UNCHANGED <<now, early, late, queue, jobs, out, start, counted, feature, n, running, arrived, fate>>

\* Mutant of Flags: a full queue is left to the metrics report.
Flags_NoDrops ==
    [drops |-> FALSE, stale |-> n.stale_momentum > 0, limited |-> n.rate_limits > 0,
     partial |-> ~LaunchLab]

\* apply_quality_flags, from the counters as they are when the row is written.
Flags ==
    [drops |-> n.dropped > 0, stale |-> n.stale_momentum > 0, limited |-> n.rate_limits > 0,
     partial |-> ~LaunchLab \/ n.dropped > 0]

Feature(complete) == [written |-> TRUE, complete |-> complete, counted |-> counted, flags |-> Flags]

WriteFeature ==
    /\ running /\ launch = "due"
    /\ feature' = Feature(TRUE)
    /\ launch' = "over"
    /\ UNCHANGED <<now, early, late, queue, jobs, out, start, closed, counted, n, running, arrived, fate>>

\* The window an event of this age falls into, past the last if it is too old.
WindowAt(age) == 1 + Cardinality({w \in DOMAIN Ends : age >= Ends[w]})

\* process() and Tracker::observe: a stale event is neither registered nor
\* observed, one whose window is closed is passed over, and so is one that would
\* be counted beyond MaxTransactions. A creation that comes when the launch is
\* over would start another one.
Process ==
    /\ running /\ ~Due /\ launch # "due" /\ out # <<>>
    /\ LET e     == Head(out)
           stale == Older(e, MaxMomentumAge)
           opens == launch = "none" /\ e.sig = Creation /\ ~stale
           age   == e.at - start
           seen  == ~stale /\ (opens \/ (/\ launch = "open" /\ age >= 0
                                         /\ WindowAt(age) \in closed + 1 .. Len(Ends)))
           fits  == e.sig \in counted \/ Cardinality(counted) < MaxTransactions
       IN  /\ out' = Tail(out)
           /\ launch' = IF opens THEN "open" ELSE launch
           /\ start' = IF opens THEN e.at ELSE start
           /\ counted' = IF seen /\ fits THEN counted \cup {e.sig} ELSE counted
           /\ Count({"processed"} \cup IF stale THEN {"stale_momentum"} ELSE {})
           /\ IF seen /\ fits THEN UNCHANGED fate
              ELSE Lose(e.sig, IF seen THEN "capped"
                               ELSE IF launch = "over" THEN "late"
                               ELSE IF stale THEN "stale"
                               ELSE IF launch = "none" THEN "before launch" ELSE "late")
    /\ UNCHANGED <<now, early, late, queue, jobs, closed, feature, running, arrived>>

\* Ctrl+C: the tasks are aborted, the windows that are over are closed and the
\* feature is written. What the queue, the jobs and the channel hold is
\* discarded.
Shutdown ==
    /\ running /\ launch # "due"
    /\ running' = FALSE
    /\ queue' = {} /\ jobs' = {} /\ out' = <<>>
    /\ launch' = IF launch = "open" THEN "over" ELSE launch
    /\ closed' = IF launch = "open" THEN Over ELSE closed
    /\ feature' = IF launch = "open" THEN Feature(Over = Len(Ends)) ELSE feature
    /\ fate' = fate \cup {<<e.sig, "discarded">> : e \in queue \cup jobs \cup ToSet(out)}
    /\ UNCHANGED <<now, early, late, start, counted, n, arrived>>

Tick ==
    /\ running /\ now < MaxTime
    /\ now' = now + 1
    /\ UNCHANGED <<early, late, queue, jobs, out, trackerVars, n, running, arrived, fate>>

Next ==
    \/ \E s \in Sig : Notify(s)
    \/ Dispatch
    \/ \E e \in jobs : Job(e)
    \/ Advance \/ WriteFeature \/ Process \/ Shutdown \/ Tick

Spec == Init /\ [][Next]_vars

\* The tasks of the runtime: the dispatcher, the jobs (their calls time out)
\* and the coordinator go on; nobody has to notify or to stop.
FairSpec ==
    /\ Spec
    /\ WF_vars(Dispatch) /\ WF_vars(Advance) /\ WF_vars(WriteFeature) /\ WF_vars(Process)
    /\ WF_vars(\E e \in jobs : JobStale(e) \/ JobDone(e))
    /\ WF_vars(Tick)

-----------------------------------------------------------------------------
(* Properties *)

Underway == Cardinality(queue) + Cardinality(jobs) + Len(out)

Promise == INSTANCE Ledger WITH
    received <- n.received, underway <- Underway, left <- [o \in Outcomes |-> n[o]]

\* The pipeline keeps the ledger: through the listeners' lock, the queue's
\* eviction, the dispatcher's two discards, the jobs and the coordinator, every
\* notification is on its way or in exactly one counter, until Ctrl+C.
LedgerKept == Promise!Spec

Clean(f) ==
    /\ f.written /\ f.complete
    /\ ~f.flags.drops /\ ~f.flags.stale /\ ~f.flags.limited /\ ~f.flags.partial

\* The losses no flag of a feature tells of: work that aged before the tracker,
\* failed fetches, events after their window or before the launch's, those Ctrl+C
\* discards, and those beyond MaxTransactions, which the rows tell of
\* (counts_capped) but the flags do not.
Untold == {"evicted", "stale fetch", "failed", "late", "before launch", "discarded", "capped"}

\* A feature the quality gate accepts counts every transaction received in its
\* windows, but for those on their way and those lost in an untold way: a full
\* queue and an event stale at the tracker never leave it clean.
CleanFeatureExplained ==
    Clean(feature) =>
        \A e \in arrived : e.at - start \in 0 .. Last(Ends) - 1 =>
            \/ e.sig \in counted
            \/ \E how \in Untold : <<e.sig, how>> \in fate
            \/ \E f \in queue \cup jobs \cup ToSet(out) : f.sig = e.sig

\* Whatever is underway gets through or out: a full channel, full job slots and
\* a full queue never wait for each other for good.
UnderwaySettles == Underway > 0 ~> Underway = 0
=============================================================================
