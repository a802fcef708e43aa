------------------------------ MODULE Fetcher ------------------------------
(***************************************************************************)
(* The fetch stage (ingestion/src/fetcher.rs): dispatch() starts at most   *)
(* Limit jobs, each job asks the RequestGate before every attempt, retries *)
(* with a growing delay, and sends its result into a bounded channel.      *)
(*                                                                         *)
(* All jobs are futures of the one dispatcher task (FuturesUnordered), so  *)
(* what runs between two awaits is one step, and a job that completes is   *)
(* taken out of `pending` in the same step (jobs.next()).  Time is         *)
(* relative: timers count down, ages and the history variables count up to *)
(* the point after which they no longer matter.  A timer may fire late.    *)
(***************************************************************************)
EXTENDS Dedup, Integers

CONSTANTS
  Slots,         \* places for jobs: Limit is their number
  Sigs,          \* signatures offered by the queue
  Malformed,     \* those that Signature::from_str refuses
  None,
  MaxAge,        \* max_fetch_start_age_ms
  Spacing,       \* rpc_request_interval_ms
  Timeout,       \* of one RPC call
  Attempts,      \* 5 in the code
  Backoff,       \* the delay after each attempt: 500 << attempt in the code
  RetryAfters,   \* what a 429 may ask for: 1..120 s in the code
  OutCap,        \* capacity of the channel to the coordinator
  MaxSubmitted, MaxDuplicates   \* bounds of the model: jobs started; duplicates skipped

ASSUME FetcherAssumption ==
  /\ IsFiniteSet(Slots) /\ Slots # {}
  /\ None \notin Sigs
  /\ MaxAge \in Nat /\ Spacing \in Nat /\ Timeout \in Nat /\ OutCap \in Nat \ {0}
  /\ Attempts \in Nat \ {0}
  /\ Backoff \in [0..(Attempts - 1) -> Nat]
  /\ RetryAfters \subseteq Nat
  /\ MaxSubmitted \in Nat /\ MaxDuplicates \in Nat

VARIABLES
  running,       \* dispatch() has not returned
  inputClosed,   \* recv() returned None
  history, pending,   \* the dispatcher's own deduplication
  job,           \* what each slot runs
  gateWait,      \* RequestGate.next - now
  out,           \* events in the output channel
  n,             \* counters of Metrics; `delivered` counts the sends that succeeded
  since, cool    \* history: ticks since the last RPC started; what is left of a 429

vars == <<running, inputClosed, history, pending, job, gateWait, out, n, since, cool>>

Counter == {"submitted", "duplicates", "stale", "successes", "delivered", "failures",
            "cancelled", "jobs", "current"}
Job == [pc : {"free", "gate", "rpc", "send"}, sig : Sigs \cup {None},
        attempt : 0..(Attempts - 1), timer : Nat, age : 0..(MaxAge + 1)]
Free == [pc |-> "free", sig |-> None, attempt |-> 0, timer |-> 0, age |-> 0]

Active == {i \in Slots : job[i].pc # "free"}
Pc(p) == {i \in Slots : job[i].pc = p}

Init ==
  /\ running = TRUE /\ inputClosed = FALSE
  /\ history = NoHistory /\ pending = {}
  /\ job = [i \in Slots |-> Free]
  /\ gateWait = 0 /\ out = 0
  /\ n = [c \in Counter |-> 0]
  /\ since = Spacing /\ cool = 0

\* Counters go up and gauges go up and down: each name is given its change.
Update(change) == n' = [c \in Counter |-> n[c] + (IF c \in DOMAIN change THEN change[c] ELSE 0)]

\* Job i goes on in the given state, with its signature.
Move(i, pc, attempt, timer, age) ==
  job' = [job EXCEPT ![i] = [pc |-> pc, sig |-> job[i].sig, attempt |-> attempt,
                             timer |-> timer, age |-> age]]

Larger(a, b) == IF a >= b THEN a ELSE b
Less(t) == IF t > 0 THEN t - 1 ELSE 0

-----------------------------------------------------------------------------
(* dispatch(): a new entry is taken only while a slot is free. *)

Offered == running /\ ~inputClosed /\ Active # Slots

SkipDuplicate(s) ==
  /\ Offered
  /\ s \in pending \/ Knows(history, s)
  /\ n.duplicates < MaxDuplicates
  /\ Update([duplicates |-> 1])
  /\ UNCHANGED <<running, inputClosed, history, pending, job, gateWait, out, since, cool>>

\* Remembered, but it starts no job and is counted nowhere.
SkipMalformed(s) ==
  /\ Offered
  /\ s \notin pending /\ ~Knows(history, s) /\ s \in Malformed
  /\ history' = Remember(history, s)
  /\ UNCHANGED <<running, inputClosed, pending, job, gateWait, out, n, since, cool>>

\* Mutant of Submit: only the history is asked, not `pending`.
Submit_HistoryOnly(i, s, age) ==
  /\ Offered
  /\ job[i].pc = "free" /\ n.submitted < MaxSubmitted
  /\ ~Knows(history, s) /\ s \notin Malformed
  /\ history' = Remember(history, s)
  /\ pending' = pending \cup {s}
  /\ job' = [job EXCEPT ![i] = [pc |-> "gate", sig |-> s, attempt |-> 0, timer |-> 0, age |-> age]]
  /\ Update([submitted |-> 1, jobs |-> 1])
  /\ UNCHANGED <<running, inputClosed, gateWait, out, since, cool>>

\* A fresh entry of some age becomes the job of a free slot (JobGuard::new).
Submit(i, s, age) ==
  /\ Offered
  /\ job[i].pc = "free" /\ n.submitted < MaxSubmitted
  /\ s \notin pending /\ ~Knows(history, s) /\ s \notin Malformed
  /\ history' = Remember(history, s)
  /\ pending' = pending \cup {s}
  /\ job' = [job EXCEPT ![i] = [pc |-> "gate", sig |-> s, attempt |-> 0, timer |-> 0, age |-> age]]
  /\ Update([submitted |-> 1, jobs |-> 1])
  /\ UNCHANGED <<running, inputClosed, gateWait, out, since, cool>>

CloseInput ==
  /\ Offered
  /\ inputClosed' = TRUE
  /\ UNCHANGED <<running, history, pending, job, gateWait, out, n, since, cool>>

\* Mutant of Exit: the end is looked for when a job completes, and only then.
Exit_AfterJob ==
  /\ running /\ inputClosed /\ Active = {} /\ n.submitted > 0
  /\ running' = FALSE
  /\ UNCHANGED <<inputClosed, history, pending, job, gateWait, out, n, since, cool>>

Exit ==
  /\ running /\ inputClosed /\ Active = {}
  /\ running' = FALSE
  /\ UNCHANGED <<inputClosed, history, pending, job, gateWait, out, n, since, cool>>

\* Mutant of Cancel: without AttemptGuard the open calls are never subtracted.
Cancel_NoAttemptGuard ==
  /\ running
  /\ running' = FALSE
  /\ pending' = {}
  /\ job' = [i \in Slots |-> Free]
  /\ Update([cancelled |-> Cardinality(Active), jobs |-> -Cardinality(Active)])
  /\ UNCHANGED <<inputClosed, history, gateWait, out, since, cool>>

\* The task is aborted, or the receiver of the channel is gone: every job is
\* dropped where it is, and its guards count it as cancelled.
Cancel ==
  /\ running
  /\ running' = FALSE
  /\ pending' = {}
  /\ job' = [i \in Slots |-> Free]
  /\ Update([cancelled |-> Cardinality(Active), jobs |-> -Cardinality(Active),
             current |-> -Cardinality(Pc("rpc"))])
  /\ UNCHANGED <<inputClosed, history, gateWait, out, since, cool>>

-----------------------------------------------------------------------------
(* fetch_one(): one job. *)

\* The job's future completes; jobs.next() yields its signature.
Complete(i) ==
  /\ job' = [job EXCEPT ![i] = Free]
  /\ pending' = pending \ {job[i].sig}

\* acquire() wakes and looks at the gate again: closed, so sleep until it opens.
GateClosed(i) ==
  /\ job[i].pc = "gate" /\ job[i].timer = 0 /\ gateWait > 0
  /\ Move(i, "gate", job[i].attempt, gateWait, job[i].age)
  /\ UNCHANGED <<running, inputClosed, history, pending, gateWait, out, n, since, cool>>

\* The gate lets it through, but the event has grown stale meanwhile.
StartStale(i) ==
  /\ job[i].pc = "gate" /\ job[i].timer = 0 /\ gateWait = 0
  /\ job[i].age > MaxAge
  /\ gateWait' = Spacing
  /\ Complete(i)
  /\ Update([stale |-> 1, jobs |-> -1])
  /\ UNCHANGED <<running, inputClosed, history, out, since, cool>>

\* Mutant of StartRpc: a waiter that wakes does not look at the gate again.
StartRpc_NoRecheck(i) ==
  /\ job[i].pc = "gate" /\ job[i].timer = 0
  /\ job[i].age <= MaxAge
  /\ gateWait' = Spacing
  /\ Move(i, "rpc", job[i].attempt, Timeout, job[i].age)
  /\ Update([current |-> 1])
  /\ since' = 0
  /\ UNCHANGED <<running, inputClosed, history, pending, out, cool>>

StartRpc(i) ==
  /\ job[i].pc = "gate" /\ job[i].timer = 0 /\ gateWait = 0
  /\ job[i].age <= MaxAge
  /\ gateWait' = Spacing
  /\ Move(i, "rpc", job[i].attempt, Timeout, job[i].age)
  /\ Update([current |-> 1])
  /\ since' = 0
  /\ UNCHANGED <<running, inputClosed, history, pending, out, cool>>

RpcOk(i) ==
  /\ job[i].pc = "rpc"
  /\ Move(i, "send", job[i].attempt, 0, 0)
  /\ Update([successes |-> 1, current |-> -1])
  /\ UNCHANGED <<running, inputClosed, history, pending, gateWait, out, since, cool>>

\* After a failed attempt: give up, or sleep for the delay and try again.
AfterFailure(i, permanent) ==
  \/ /\ permanent \/ job[i].attempt = Attempts - 1
     /\ Complete(i)
     /\ Update([failures |-> 1, jobs |-> -1, current |-> -1])
  \/ /\ ~permanent /\ job[i].attempt < Attempts - 1
     /\ Move(i, "gate", job[i].attempt + 1, Backoff[job[i].attempt], job[i].age)
     /\ Update([current |-> -1])
     /\ UNCHANGED pending

RpcError(i, permanent) ==
  /\ job[i].pc = "rpc"
  /\ AfterFailure(i, permanent)
  /\ UNCHANGED <<running, inputClosed, history, gateWait, out, since, cool>>

\* Mutant of RpcTimeout: the call is not wrapped in timeout().
RpcTimeout_Never(i) == i \notin Slots /\ RpcError(i, FALSE)

\* timeout() gives up on a call the server never answers: a transient failure.
RpcTimeout(i) == job[i].timer = 0 /\ RpcError(i, FALSE)

\* Mutant of RpcLimited: the new opening time replaces the old one.
RpcLimited_Replaces(i, r) ==
  /\ job[i].pc = "rpc"
  /\ gateWait' = Larger(r, Backoff[job[i].attempt])
  /\ cool' = Larger(cool, Larger(r, Backoff[job[i].attempt]))
  /\ AfterFailure(i, FALSE)
  /\ UNCHANGED <<running, inputClosed, history, out, since>>

\* A 429 closes the gate to every job, even when it was the last attempt.
RpcLimited(i, r) ==
  /\ job[i].pc = "rpc"
  /\ gateWait' = Larger(gateWait, Larger(r, Backoff[job[i].attempt]))
  /\ cool' = Larger(cool, Larger(r, Backoff[job[i].attempt]))
  /\ AfterFailure(i, FALSE)
  /\ UNCHANGED <<running, inputClosed, history, out, since>>

\* Mutant of Send: the channel is taken as unbounded.
Send_Unbounded(i) ==
  /\ job[i].pc = "send"
  /\ out' = out + 1
  /\ Complete(i)
  /\ Update([delivered |-> 1, jobs |-> -1])
  /\ UNCHANGED <<running, inputClosed, history, gateWait, since, cool>>

Send(i) ==
  /\ job[i].pc = "send" /\ out < OutCap
  /\ out' = out + 1
  /\ Complete(i)
  /\ Update([delivered |-> 1, jobs |-> -1])
  /\ UNCHANGED <<running, inputClosed, history, gateWait, since, cool>>

-----------------------------------------------------------------------------
\* The coordinator receives an event.
Consume ==
  /\ out > 0 /\ out' = out - 1
  /\ UNCHANGED <<running, inputClosed, history, pending, job, gateWait, n, since, cool>>

Tick ==
  /\ running
  /\ job' = [i \in Slots |->
       [pc |-> job[i].pc, sig |-> job[i].sig, attempt |-> job[i].attempt,
        timer |-> Less(job[i].timer),
        age |-> IF job[i].pc \in {"gate", "rpc"} /\ job[i].age <= MaxAge
                THEN job[i].age + 1 ELSE job[i].age]]
  /\ gateWait' = Less(gateWait)
  /\ since' = IF since < Spacing THEN since + 1 ELSE since
  /\ cool' = Less(cool)
  /\ UNCHANGED <<running, inputClosed, history, pending, out, n>>

Terminating == ~running /\ out = 0 /\ UNCHANGED vars

Step(i) == GateClosed(i) \/ StartStale(i) \/ StartRpc(i) \/ RpcTimeout(i) \/ Send(i)
Answer(i) == RpcOk(i) \/ (\E p \in BOOLEAN : RpcError(i, p)) \/ (\E r \in RetryAfters : RpcLimited(i, r))
Dispatch ==
  \/ \E s \in Sigs : SkipDuplicate(s) \/ SkipMalformed(s)
  \/ \E i \in Slots, s \in Sigs, age \in 0..MaxAge : Submit(i, s, age)
  \/ CloseInput \/ Exit \/ Cancel

Next ==
  \/ Dispatch
  \/ \E i \in Slots : Step(i) \/ Answer(i)
  \/ Consume \/ Tick \/ Terminating

Spec == Init /\ [][Next]_vars

\* Timers fire, time passes, the coordinator drains the channel and dispatch
\* notices that it is done.  No RPC has to be answered.
Fairness ==
  /\ \A i \in Slots : WF_vars(Step(i))
  /\ WF_vars(Consume) /\ WF_vars(Tick) /\ WF_vars(Exit)

FairSpec == Spec /\ Fairness

-----------------------------------------------------------------------------
TypeOK ==
  /\ running \in BOOLEAN /\ inputClosed \in BOOLEAN
  /\ history \in [seen : SUBSET Sigs, order : Seq(Sigs)]
  /\ pending \subseteq Sigs
  /\ job \in [Slots -> Job]
  /\ gateWait \in Nat /\ out \in 0..OutCap
  /\ n \in [Counter -> Nat]
  /\ since \in 0..Spacing /\ cool \in Nat

\* However long a job lives and whatever the history forgets meanwhile, no two
\* jobs work on the same signature (dispatch: pending).
OneJobPerSignature ==
  \A i, j \in Active : job[i].sig = job[j].sig => i = j

\* Every job started ends in exactly one of delivered, failed, stale or cancelled,
\* and the gauges active_jobs and current_fetch_concurrency say what is running,
\* also after a cancellation (JobGuard, AttemptGuard).
JobsAccounted ==
  /\ n.submitted = n.delivered + n.failures + n.stale + n.cancelled + Cardinality(Active)
  /\ n.jobs = Cardinality(Active)
  /\ n.current = Cardinality(Pc("rpc"))

\* RPC calls of all jobs and all retries start at least Spacing apart, even when
\* waiters of the gate wake together or late (RequestGate::acquire).
StartsSpaced ==
  [][\A i \in Slots : job[i].pc = "gate" /\ job'[i].pc = "rpc" => since >= Spacing]_vars

\* No call starts before the cooldowns of all earlier 429 answers are over: a
\* later, shorter one does not cut an earlier one short, and a waiter that slept
\* until the old opening time looks again (RequestGate::cooldown).
CooldownRespected ==
  [][\A i \in Slots : job[i].pc = "gate" /\ job'[i].pc = "rpc" => cool = 0]_vars

\* Every job ends, even when no call is ever answered and the channel fills up.
JobsFinish == \A i \in Slots : job[i].pc # "free" ~> job[i].pc = "free"

\* Once the input is closed, dispatch() drains its jobs and returns.
DrainsAndReturns == inputClosed ~> ~running
=============================================================================
