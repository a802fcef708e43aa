# A TLA+ model of Solana Trenches

This directory holds TLA+ specifications of the scanner in `ingestion/` and of
the offline research tools in `research/`, the TLC configurations that check
them on small instances, and TLAPS proofs of their main properties. Paths are
relative to the root of the repository.

## The system

```
 listeners (2 or 3 tasks)        dispatcher (1 task)            coordinator (1 task)
 +-------------------+  push   +-----------+  recv  +--------+  mpsc(128)  +-----------+
 | EarlyDedup        | ------> |FreshQueue | -----> | jobs,  | ----------> | tracker,  | -> JSONL
 | (shared history)  |         | + Notify  |        | gate   |             | process() |
 +-------------------+         +-----------+        +--------+             +-----------+
            \__________________ Metrics: counters and gauges _________________/
```

All of these are tasks of tokio's multi-threaded runtime. Listeners and the
dispatcher share the queue, the deduplication history, the occupancy map and
the counters; the coordinator alone owns the tracker and the files. Everything
lives in memory and is lost at a restart, so there is no recovery to model in
the scanner: a run starts empty and appends to its files.

The research tools are sequential commands that meet in files:

```
 fetch-transactions -> raw JSONL -> derive-prices -> price CSV -> backfill -> cache, labels
   (History)                          (Derive)                     (Labels)   (Research)
```

A command may fail or die anywhere, and the next one starts from the files it
left. There the hard behaviour is recovery, not concurrency.

### Inventory

| Component | State | Operations | Hard behaviour | What makes it correct |
|---|---|---|---|---|
| Listeners, `listener.rs` | the notification in hand, the reconnect delay | receive, deduplicate, push, record, reconnect | several tasks on one queue and one map, two locks taken one after the other | every notification is counted once; a signature enters once while it is remembered |
| History, `dedup.rs` | a set and a deque | `admit`, `remember_signature` | forgetting at the capacity | set and deque agree; exactly the last `HistoryCap` signatures are known |
| Queue, `queue.rs` | the deque, `closed`, tokio's `Notify` | `push`, `recv`, `try_recv`, `close` | lost wakeups, cancellation of `recv` in a `select!`, eviction | the receiver never sleeps through work or the close; only fresh work makes the queue full |
| Fetch stage, `fetcher.rs` | history, `pending`, jobs, the request gate | `dispatch`, `fetch_one`, `acquire`, `cooldown` | retries, 429 cooldowns, timeouts, a full output channel, cancellation | calls are paced, a cooldown is kept, a job ends and is counted once |
| RPC, `rpc.rs` | none | one call | no answer, errors, `Retry-After` | an input of the fetch stage |
| Metrics, `metrics.rs` | counters, `queued`, two gauges | guards, `report` | a guard dropped at any await | gauges say what is there |
| Tracker, `momentum.rs` | launches with buckets and signatures | `register_with_lag`, `observe`, `advance`, `shutdown`, `take_features` | late events and late timers, capacities | an emitted window is final; a launch is reported once |
| Coordinator, `main.rs`, `freshness.rs` | the event in hand, `now` | the `select!` loop, `snapshots`, `features`, `process`, shutdown | time passes during awaited writes, a write fails, shutdown anywhere | rows come before the feature; nothing stays open |
| Quality flags, `features.rs` | none | `feature_quality` | flags read global counters | a loss of data sets a flag |
| Decoder, `raydium.rs` | none | `collect_instruction_records`, `detect_new_pools` | ambiguous layouts | a pool is only detected from a verified creation; classifier and detector, each with a table of its own, agree; a swap counts for one pool |
| Persistence, `persistence.rs` | open files | `write`, `flush` | I/O | external to the models: a write takes time, then succeeds or fails |
| Labels and backtest, `research/src/lib.rs` | none | `label_outcome`, the quality gate, the backtest | time boundaries | no label looks past its horizon; extremes are those of the window |
| Price derivation, `derive.rs` | none | attribution of a swap to a price | ambiguous transfers | fail closed; the launch it prices is the one the scanner counted |
| Historical fetch, `fetch.rs` | files of earlier runs | paging, fetching, appending | resumed runs, failures, equal timestamps | a window called complete is complete, but for the creation second itself (`fetch.rs:109`); a file may be resumed |
| Research commands, `research/src/main.rs` | the observation cache, the labels | `fetch-transactions`, `derive-prices`, `backfill`, the command without a name | a file rewritten in place, a death half way | no backfill changes a cached price |
| Paper simulation, `paper.rs` | none | one pass over labelled rows | none | costs are applied once |
| Anchor program, `programs/` | one counter account | `initialize`, `increment` | none: the runtime serialises | the owner alone counts, up to the maximum |
| Configuration, event rows, clients, scripts | none | reading, formatting | none | not modelled |

`PROJECT.json` repeats this list with the state of each part, and lists the
hazards of the code, each at its line and with the properties that cover it.

## The modules

| Module | Models | Extended by |
|---|---|---|
| `Dedup` | `dedup.rs`, used before the queue and again in the dispatcher | `Intake`, `Fetcher`, `Scanner` |
| `Intake` | `listener.rs`, `queue.rs`, and the receive side of `fetcher.rs` | `MCIntake`, `IntakeProofs` |
| `Fetcher` | the jobs, the gate and the guards of `fetcher.rs` and `metrics.rs` | `MCFetcher`, `FetcherProofs` |
| `Tracker` | `momentum.rs`, the loop, `process()` and the shutdown of `main.rs`, `freshness.rs` | `MCTracker`, `TrackerProofs` |
| `Ledger` | nothing of the code: what the scanner promises of its notifications | instantiated by `Scanner` |
| `Scanner` | the composition of the three stages, with `features.rs` | `MCScanner`, `ScannerProofs` |
| `Decoder` | `raydium.rs`, the event rows and launches `process()` makes of a transaction | `Derive` |
| `Derive` | `derive.rs`, on the transactions that `Decoder` builds | `MCDecoder`, `DecoderProofs` |
| `Labels` | validation, merging and `label_outcome` of `research/src/lib.rs` | `Research`, `LabelsProofs` |
| `History` | `fetch.rs` and `fetch-transactions` | `Research` |
| `Research` | the commands over the raw export, the cache and the labels | `MCResearch`, `ResearchProofs` |
| `Induction` | nothing of the code: induction over numbers and finite sets, and sums | `TrackerProofs`, `DecoderProofs`, `LabelsProofs` |

The boundaries follow the tasks. `Intake` sees the fetch jobs only as the
number of occupied slots (`busy`), which may fall at any time; `Fetcher` sees
the queue only as a source of entries of any age up to the limit; `Tracker`
sees the fetch stage as a source of transactions of any age, in any order,
with repetitions. `Scanner` puts them together again, with one step for each
handler, for the questions that no stage can answer alone.

### Intake

One step is one critical section or one atomic call, so all that lies between
two of them interleaves.

* A listener goes `stream -> push -> notify -> record -> stream`. `ReceiveNew`
  is `early_dedup.admit` and the construction of the event; `PushAccepted` and
  `PushFull` are the critical section of `push`; `NotifyOne` comes after that
  lock is released, and `Record`, under the lock of `metrics.queued`, after
  that. `PushClosed` ends the listener.
* The deque is a set of entries numbered by push: `pop_back` takes the largest
  number, `retain` removes the stale ones. This gives the order of the code
  without positions.
* `recv` is `Arm`, `TryRecv`, `CheckClosed`, `PollNotified` and `Wake`.
  tokio's `Notify` is external and modelled as it documents itself:
  `notify_one` wakes a waiter or stores one permit; `notify_waiters` stores
  none, but completes a `notified()` created before it (`heard` against
  `broadcast`); a waiter that is dropped after it was notified passes its
  notification on (`JobDone`, when the `select!` in the dispatcher takes the
  other branch).
* A reconnection is a pause in which the listener receives nothing; after it
  the node may send anything again. `ReceiveDuplicate` and `ReceiveNew` allow
  every signature at every time, so this needs no action of its own. The
  counter of reconnects and the backoff are left out.

### Fetcher

All jobs are futures of one task, so what runs between two awaits is one step,
including the removal from `pending` when a job is done. A job is `gate`,
`rpc` or `send`; failure goes back to `gate` with the retry delay in its
timer. Time is relative: a timer, the opening time of the gate and what is
left of a cooldown count down, ages count up to where they stop mattering, and
a timer that has run out may be noticed late. An answer of an RPC call is any
of: the transaction, a transient or a permanent error, a 429 with any delay,
or none at all until the timeout. `Cancel` is the abort of the task or the end
of the coordinator's receiver: every job is dropped where it is and the two
guards count. The counters of attempts, retries and rate limits and the
histograms are left out.

### Tracker

The coordinator is one task, in `idle` (the `select!`), `rows` (inside
`snapshots`), `features` (inside `features`), `stopping` or `stopped`. Each
write is an await: `Tick` may come before it returns, and it may fail, which
drops the rest of what had been drained and leaves the loop. A pool carries
its age, the set of windows already emitted (`sent`, the code's `next`), its
buckets and its signatures. `Counted` has two parts: the buckets add up to the
signatures, and an event processed at the moment it was received (`Prompt`)
finds a window that is still open, also when its age is exactly an end and
`advance` has just closed the window before. `LaunchesAccounted` says that a
launch is never reported twice, whatever failed; that none is lost holds only
while no write has failed, because a failing write drops what was drained with
it. The event in hand carries its age and, in `delay`, how long ago the
coordinator read `now`; `process` combines the two, as the code does. In a
bucket only the transactions are counted: invocations, swaps, payers and rates
are changed in the same statements and no property tells them apart. Ages stop
at `Horizon`, past which no fresh event can fall into a window. `launches` is
a history variable: the n-th registration of a pool has the number n.

### Scanner

One step is one handler of one task, for one launch and its trades.

* `Push` and `Refuse` are a listener's whole handling of a signature that the
  early history does not know: it is remembered, stale entries leave the queue
  and are counted, then the event is queued or refused. `DispatchStale`,
  `DispatchDuplicate` and `DispatchJob` are what the dispatcher does with the
  newest entry. A job ends by its age, by a failure, or by sending; a 429
  raises `rate_limits` at any time while there is a job. Only whether this
  counter is above 0 is ever read, so its first increment is the only one
  modelled.
* `Advance` closes the windows that are over, `WriteFeature` writes the row
  with the flags as the counters are at that moment (`Flags`); `Process` is
  `process()` with `Tracker::observe`. `Advance` before an event is the call
  inside `process()`. `Advance` and `Process` read one `now`: the gap between
  the two readings is `Tracker`'s subject (`WindowsBeginAtReceipt`).
* `Shutdown` aborts the other tasks, so what they and the channel hold is
  discarded, and closes the launch.
* `arrived` and `fate` are history variables: which notifications got past the
  early history and how each lost one was lost.
* `Promise == INSTANCE Ledger WITH underway <- ..., left <- ...` is the
  refinement: `LedgerKept` is `Ledger`'s specification under this mapping.

A transaction is not counted beyond `MaxTransactions` (`momentum.rs:117`). The
rows say so in `counts_capped`; the flags, and with them the quality gate, do
not, so `capped` is one of the losses in `Untold`.

A creation that comes when the launch is over would start another launch of
the same account; the model follows the first only.

### Decoder and Derive

A transaction is built one instruction at a time, the outer ones and then the
inner ones, from a vocabulary; the decoder and the derivation are operators on
it, and the properties are invariants over all transactions so built. The
operators keep the code's tables, each where the code has it. The classifier
has `Creations`, `Swaps` and `Activities` with the pool positions `SwapIndex`
(`raydium.rs:174`); the detector has its own chain of discriminators with the
positions of pool and mints (`Layouts`, `raydium.rs:364`); the derivation has
its own `SwapDiscriminators` (`derive.rs:11`). That they agree is what
`CreationsDetected` and `DecodersAgree` state, and an entry that is missing
from one of them breaks the property. What the eight bytes of a discriminator
are is left out: an operation's name stands for them in every table, so a
wrong byte shows in the model only as a missing or a wrong name. `Account`
says what a short account list does. `EventType` is
`classify_raw_instruction`, `Detected` is `detect_pool_instruction`, `RowPool`
is the pool `process()` writes into a row, and `SwapsOf` is what
`Tracker::observe` counts.

`DeriveOne` is `derive_one`: one swap, a known target, then either the parsed
transfers (`Transfers`, `Repeated`, `TransferPrice`) or, if there are none,
the balances (`Exchanged`, `BalancePrice`). A balance is what the transfers of
the transaction have left, parsed or not. `principal` marks a swap's own
transfers, which the code cannot see and the properties need. Decimals are
left out.

The properties of the derivation are about a transaction in which one swap of
a known launch has happened (`Settled`): each mint was moved once, by a
checked transfer between the payer's one account of that mint and another
account of the swap, the input by the swap's argument. That is what the chain
lets a LaunchLab swap do; all other movements (`Strays`) are free, of any
number, of any amount, before or after.

### History, Labels and Research

* `Page` is one page of signatures with the selection and the end of the
  paging; `FetchTransaction` decides on one selected signature; `Finish`
  appends the lines and sets the exit. `Die` may come in any state, and in the
  last one with some lines written and the next one cut. A line holds the
  transactions written to it: after a cut line without its end, the next run
  continues that line, which then cannot be read. A line may be cut inside a
  character, and then it is not UTF-8 (`utf8`).
* `Existing` is `existing_signatures`. It passes over lines that are not a
  transaction, but its `map_while(Result::ok)` (`fetch.rs:170`) stops at the
  first line that is not UTF-8. What stands behind that line is not seen by
  any later run: it is fetched and appended again, and after a third run the
  file has a transaction in two lines that can be read. `derive-prices`
  rejects the whole file because of the torn line, so no price is derived from
  a twin. `TwinsOnlyBehindTornText` states exactly this: twins only behind a
  line that is not UTF-8, and so never in a file that is accepted.
* `Due` leaves out the creation second. A page that ends within that second
  ends the paging (`fetch.rs:109`), so further signatures of the same second
  may be missing from a window that is reported complete. What `history` holds
  of later seconds is what `CompleteWindowIsSelected` and
  `SuccessCoversWindow` promise.
* A price series is a function from seconds to prices. `Merge` is what the
  sort and the removal of duplicates come to, and `Normal` is the removal of
  prices that are not positive, which a `.jsonl` import and `--prices` go
  through before anything looks at them. `Used`, `Walk` and `Label` are
  `horizon`, the loop over the window and `label_outcome`.
* `Write` truncates the cache and rewrites it line by line, then writes the
  labels; a death in the first leaves a prefix (`Prefix`), perhaps with a torn
  line, and the old label; one in the second, whose file is truncated as well
  (`lib.rs:546`), leaves the whole cache and no label that can be read.
  `BackfillFetched` reads what `derive-prices` makes of an accepted export,
  `BackfillImport` another file, and `Unnamed` is the command without a name,
  which replaces the cache by `--prices` without validating it, or by nothing
  (`research/src/main.rs:80`). The history variable `early` remembers that it
  was given a price from before the creation.

## What is checked

Twelve runs, each under three minutes on two workers. Two of them are about
the research tools, three about the decoders.

| Run | Instance | Shows |
|---|---|---|
| `intake` | 2 listeners, 2 signatures, capacity, history and job limit 1, 4 notifications, 3 instants | types; `EnteredOnce`; `NotificationsAccounted`; `WorkAccounted`; `NoLostWakeup`; `GaugeCoversQueue`; `RefusedOnlyWhenFreshFull` |
| `intake_live` | the same with 2 notifications, no symmetry | `WorkIsTaken`, `CloseEndsDispatch` |
| `intake_gauge` | as `intake` | finding: `GaugeBounded` fails |
| `fetcher` | 2 slots, 3 signatures, one malformed, 3 jobs, 3 attempts, spacing and timeout 1, cooldowns of 1 and 4, channel of 1 | types; `OneJobPerSignature`; `JobsAccounted`; `StartsSpaced`; `CooldownRespected`; `JobsFinish`; `DrainsAndReturns` |
| `tracker` | 3 pools, 2 places, 3 transactions, windows ending at 1, 2 and 4, 3 events | types; `Counted`; `EmittedWindowsFinal`; `LaunchesAccounted`; `RowsPrecedeFeature`; `LaunchesReported`; `StopsEmpty` |
| `tracker_receipt` | the same with 2 events | finding: `WindowsBeginAtReceipt` fails |
| `scanner` | a launch and two trades, 4 notifications, capacity, job limit and channel of 1, histories of 2, a tracker that counts 2, ages of 1, windows ending at 1 and 2, 4 instants | `LedgerKept` (the refinement); `CleanFeatureExplained`; `UnderwaySettles` |
| `decoder` | all transactions of up to 2 outer and 3 inner instructions over 14 outer and 15 inner ones | `CreationsDetected`; `SwapsAttributedOnce`; `CreationRowNamesItsPool`; `DecodersAgree`; `CleanSwapIsPriced`; `PricesAreExact` |
| `decoder_rows` | 2 outer, 1 inner | finding: `RowsAreInstructionScoped` fails |
| `decoder_price` | 1 outer, 4 inner | finding: `UnrelatedMovementsRejected` fails |
| `research` | 5 endpoint histories, pages of 2, at most 2 pages, an hour of 4 seconds, 3 commands | types; `CompleteWindowIsSelected`; `SuccessCoversWindow`; `TwinsOnlyBehindTornText`; `LeaksNeedEarlyPrices`; `ExtremesAreExact`; `CompleteNeedsLastSecond`; `PricesAreKept` |
| `labels_leak` | 2 commands, replacements from before the creation | finding: `LabelsDoNotLookAhead` fails |

`CleanFeatureExplained` names the losses that leave no flag on a feature which
the quality gate accepts (`Untold`). It is the answer to a question the code
leaves open: what does a feature without flags promise? Not that every
transaction of its windows was counted, but that one which was not counted was
evicted or discarded as stale before the tracker, failed, came after its
window or before the launch's event, was beyond the capacity of a launch, or
was dropped at Ctrl+C; never that the queue refused it, or that the tracker
found it stale. The hazards at `momentum.rs:107`, `features.rs:8` and
`main.rs:118` are of this kind: the property documents them and shows that
there is no further one, it does not exclude them.

Each property has a mutant, an operator beside the definition it replaces,
which changes the code the way a plausible bug would; with it, the run finds
the property violated. They are the definitions commented `Mutant of ...`.

### Bounds, and why they are enough

* `Intake`: with a history of 1 and two signatures a signature is forgotten
  and comes back; with a capacity of 1 a push meets a full, a stale and an
  empty queue; three instants and an age limit of 1 make an entry stale in the
  queue, in the hand of a listener, and in that of the dispatcher; two
  listeners in `record` and one dispatcher give every order on the gauge.
  `MaxReceived` (4 notifications) is enough for two rounds of both listeners.
* `Fetcher`: the retry delays are 1, 2 and 4 ticks, so a `Retry-After` of 1 is
  no longer than any of them and one of 4 longer than those between three
  attempts; with `MaxAge` 3 an event grows stale in the gate. Three jobs
  (`MaxSubmitted`) are one more than the slots: one transaction fills the
  channel of 1 while both slots are blocked on it. `MaxDuplicates` bounds the
  duplicates skipped. The input may close with jobs under way, with none, and
  before the first.
* `Tracker`: `create` creates p, `both` creates q and r and trades p, `swap`
  trades p and q; with two places one transaction fills them or finds no
  place; a launch may be created again after it was reported; a signature set
  of 2 fills up; the three windows have unequal lengths, so a late timer
  closes several at once. Ages fall on the ends of the windows and beside
  them. `MaxEvents` bounds the events received.
* `Scanner`: four notifications for three signatures are one more than the
  queue, the jobs and the channel hold together, so each is full at some time;
  histories of 2 forget a signature of 3, and a tracker that counts 2 refuses
  the third. With ages of 1 and four instants (`MaxTime` 3) work becomes stale
  in every stage, and the last window ends while transactions are under way.
  Both windows can be closed at once.
* `Decoder`: two outer instructions are enough for two creations of one
  protocol, of two protocols, and for two swaps; three inner ones are a swap's
  two transfers with one stray, in any order. The vocabulary has a creation, a
  swap and an activity, a Token-2022 launch, account lists that are too short,
  data that is too short, a foreign program, both CLMM creations (one of them
  an account short of its last mint), and a swap that mentions another tracked
  pool. Every property reads single instructions, pairs, or one swap with its
  transfers. Two strays that agree are one of the inner instructions and one
  outside the swap, or, in `decoder_price`, the fourth inner one. Both
  exceptions of `PricesAreExact` are reached, and prices that strays leave
  right, from either evidence.
* `Research`: three commands are a run that dies, one that resumes and one
  that derives prices; or a run that dies inside a character and two more,
  which leave a transaction twice. Imports have a price of 0, a second before
  the creation, and seconds that are cached already; so have replacements. The
  five histories put a page's edge inside the window, in the creation second
  and behind rows without a block time, exceed the pages, and end before the
  creation. The horizons are all seconds of the window.

### Fairness

* `Intake`: a task that can run is run, job slots are freed (the property
  `JobsFinish` of `Fetcher`), and `close()` runs to its end. Nothing makes a
  notification arrive, time pass, or the scanner stop.
* `Fetcher`: timers fire, time passes, the coordinator reads the channel, and
  `dispatch` notices that it is done. No RPC call has to be answered:
  `JobsFinish` rests on the timeout of each call alone. The gate is no queue:
  whoever wakes first takes it. A waiter is not overtaken for ever here
  because an instance has finitely many jobs with finitely many attempts; with
  an endless supply of fresh work the code promises no order among waiters,
  and the model claims none.
* `Tracker`: the `select!` is `biased` and the timer comes before the channel,
  so a timer that is due is taken; writes return; time passes. The interrupt,
  a failure and the arrival of events are not fair.
* `Scanner`: the dispatcher and the coordinator take what is there, some job
  ends (`JobsFinish` again), and time passes. No notification and no Ctrl+C
  has to come.
* `Decoder` and `Research` state no liveness: a command may be given or not.

## What is proved

The `...Proofs` modules prove the safety properties for every value of the
constants. They use only the named assumptions of the modules on their
constants (`HistoryCapAssumption`, `IntakeAssumption`, `NoneAssumption`,
`FetcherAssumption`, `TrackerAssumption`, `ScannerAssumption`,
`DecoderAssumption`, `DeriveAssumption`, `HistoryAssumption`,
`ResearchAssumption`), which TLC evaluates on each instance. Every safety
property of a passing run is proved; `PROJECT.json` lists the theorems.

`Induction` holds what the proofs share. The library's induction theorems take
an operator as a parameter, which the provers cannot instantiate, so the two
principles are stated for sets: a set of numbers with 0 and each successor has
all numbers (`NumberInduction`), and a set of sets with the empty one and each
extension by an element has every finite set (`SetInduction`). Both come from
the well-foundedness of `<`. With them the recursive function inside
`SumFunctionOnSet` exists, does not depend on the order of its visits, and
loses exactly an element's term with the element (`SumSplits`); `SumAdds` and
`SumSingleton` follow.

* `Intake`. Type correctness needs `InHand`: a listener that pushes has an
  event, the dispatcher polls only with a slot free, and the queue is finite.
  `NoLostWakeup` is inductive with `WakeInv`, which follows the receiver
  through its states: between `armed` and `waiting` a permit, a new broadcast
  or a listener about to notify covers what it may have missed. `EnteredOnce`
  follows from `HistoryInv`: set and deque agree, the deque has no repetition,
  and it is the end of the log of entered signatures. The two accounting
  properties and `RefusedOnlyWhenFreshFull` follow from `LedgerInv`, which
  also says that entries have different numbers and that there are at most
  `Capacity`; its lemmas count the listeners that move from one place to the
  next (`Move`) and the entries that an eviction takes out (`Eviction`).
  `GaugeCoversQueue` needs `GaugeInv`: what was taken is no longer queued,
  whatever is queued or past the push is in the log, two entries or two
  listeners with one signature mean that it entered twice, and while a
  listener has not pushed yet, no entry has its signature unless it entered
  twice. So the one entry a removal from the gauge is for is the one it takes.
* `Fetcher`. `PaceInv` says that the gate opens no earlier than every cooldown
  ends and no earlier than `Spacing` after the last start; both action
  properties follow because a call starts only at an open gate. `PendingInv`
  says that `pending` is the set of signatures of the running jobs, each of
  one job, whatever the history forgot. `JobsAccounted` is inductive once the
  types are known; the lemmas count the slots that fill, move and empty. Types
  come last: that a gauge stays in `Nat` follows from `JobsAccounted`.
* `Tracker`. `ReportInv` relates launches, rows and features: an open pool has
  the latest launch, its rows say what its buckets say and are of windows
  already emitted, and every other launch is known by exactly one feature that
  agrees with its rows. Every step is one of two kinds: it closes pools and
  tells of them (`Closing`; a quiet step closes none), or it registers pools
  and counts a transaction (`Registering`). `OneWindow` and `EmittedKept` show
  that `observe` cannot touch an emitted window. `LaunchesAccounted` adds that
  the three places of a feature are disjoint; `RowsPrecedeFeature` adds
  `SummaryInv`, where `Prefix` shows that the emitted windows are always 1..k:
  the code's `next` and the model's `sent` are the same thing. `Counted` needs
  the sums, where `observe` adds a signature and one to one bucket and nothing
  else touches either, and `EdgeInv`: a window that was emitted has ended, and
  right after the advance that precedes an event those that are not emitted
  have not. `PromptFindsWindow` puts an age on an edge between the two.
* `Scanner`. `KeepsLedger` is the refinement: initial states are the ledger's,
  and each step is a `Receive`, a `Settle`, the `Stop` or a stutter under the
  mapping (`StepRefines`). It needs `Types`, which says that queued events
  have different numbers and that there are at most `Capacity`, because
  `underway` counts a set. `CleanMeansExplained` needs `Explained`. `Flow`
  says that what a history remembers or what arrived has gone on, is queued,
  or was refused; `Flagged` that a refusal and a stale event leave their
  counter above zero; `Ended` that a complete feature comes after its last
  window; `CleanKept` that under a clean feature nothing of its windows was
  refused and nothing found stale, then or later. `Moves` sums up what a step
  does to an event, and each action satisfies it. The last part is where a
  counter that rises too late would matter: a clean feature is written once
  the windows are over, so what arrives later is of no window.
* `Decoder` and `Derive`. The six theorems hold for every transaction of any
  length over any vocabulary whose accounts are sequences of accounts. Types
  are all that has to be inductive. Four of them are an argument about the
  tables. `LayoutsAreCreations` compares the detector's chain with the
  classifier's table, protocol by protocol: the same operations, with
  positions whose greatest is the last account a creation needs;
  `DetectorAgrees` follows with what a short account list does.
  `DerivationAgrees` compares `SwapDiscriminators` and the account it reads
  with the classifier's. `CleanSwapPriced` and `OnlyStraysMislead` are about
  amounts. `SettledTrades` takes a settled transaction apart once: the swap,
  its target, and one own transfer of each mint. `TransfersOfSwap` says that
  both are among the transfers the code reads, if it reads any of their
  program. Then the vote: an amount repeated more often than the others is the
  swap's own, or two strays have it (`OwnAmountRepeats`, `TakenIsOwn`); and
  the balances: the payer's one account of a mint has changed by exactly what
  the swap moved unless a stray touched it (`BalanceMoved`, with the sums of
  `Induction`).
* `Research`. The inductive invariant is `HistInv /\ CacheInv`. In `HistInv`,
  `RunTypes` includes that only the last line of the export may lack its end;
  `Listing` says that the selection is exactly the hour's positions before the
  cursor, and that at the boundary no due position is behind it (the list is
  in order of time, with unknown times anywhere); `Fetching` that the lines to
  be written are new to the file and all different, and that without a failure
  every position dealt with is in the file, in the lines, or missing at the
  endpoint; `Succeeded` carries this past the write. `Appended` and `Begun`
  describe a file after whole and after cut writes: the first new line may
  continue the last one, which is then unreadable for good. That is why a twin
  of a readable line can only arise behind a line that is not UTF-8 (`Single`
  in `HistInv`), where the new run cannot see what it has, and why an accepted
  file has lost nothing. `CacheInv` says that the cache is a finite series of
  numbers, and that one that was only fetched stays within the hour.
  `CacheIsKept` counts the seconds of a prefix (`PrefixInTime`).
  `LeaksAreExplained` is about labels and has no hypothesis on what is
  imported or replaced. That no label looks ahead is false, as `labels_leak`
  shows; what holds, and is proved, is which labels may: only after the
  command without a name was given a price from before the creation, only in a
  return whose horizon ends before the baseline, and beside a window that is
  empty. `LabelInv` carries it: early prices in the cache were given to that
  command, and so were those of the label, which may be of an older cache
  (`WriteExplained`). `backfill` alone, with any imports, never leads to such
  a label. `WalksAreExact` is about the cache. Its argument is in
  `LabelsProofs`: the loop of `label_outcome` is a recursive function over the
  seconds of the window, and after each second its peak is the greatest rise
  over the baseline and its drawdown the least fall between two observations
  so far. That this function exists is itself an induction (`WalkExists`);
  that a second with an observation takes the old extremes to the new ones is
  `ExtremesStep`, and `WalkIsExact` puts them together for every series.

`HistoryAssumption` says that the endpoint lists a signature once and the
newest first; `Time` may be unknown for any row. `TrackerAssumption` and
`ScannerAssumption` ask for increasing `Ends`, a property of the literal array
in `momentum.rs:10`. `DecoderAssumption` says only that an instruction's
accounts are a sequence. `DeriveAssumption` says that amounts are numbers from
0 up (`u64` in the code), that each token account has an owner and a mint, and
that a transfer which happened names two accounts of its own mint: the token
programs reject any other. `ResearchAssumption` asks of the imports that they
are series of numbers over finitely many seconds, as a parsed file is, and
that a derived price is not 0: `derive_one` rejects amounts of 0.

Only model-checked are the liveness properties: `WorkIsTaken`,
`CloseEndsDispatch`, `JobsFinish`, `DrainsAndReturns`, `LaunchesReported`,
`StopsEmpty` and `UnderwaySettles`. They need `ENABLED` and fairness, which
the provers do not handle.

The properties of the five findings do not hold.

## Findings

* `intake_gauge`. A listener enters its signature into `metrics.queued` after
  `push` has released the queue's lock and woken the dispatcher
  (`listener.rs:75`). If the dispatcher, or an eviction by another listener,
  removes the signature before, the later insert stays for good:
  `queue_occupancy` and `oldest_queued_age_ms` report a phantom, and the map
  is not bounded by the queue, against `docs/architecture.md:33`.
* `tracker_receipt`. `process` subtracts the age of the notification, read
  after the snapshot and feature writes, from a `now` read before them
  (`main.rs:106` and `:176`). The writes are subtracted twice: a launch begins
  before its notification was received, against `freshness.rs:1`. Ages of
  transactions shift by the same amount, so a window may close early.
* `decoder_rows`. `process` writes every creation row of a transaction with
  the first new pool of the row's protocol (`main.rs:232`). Two launches
  created in one transaction get two rows with one account, against
  `docs/architecture.md:37`. What holds is `CreationRowNamesItsPool`: the pool
  is one that the transaction created, by the same protocol.
* `decoder_price`. `unique_repeated_amount` takes the most frequent amount of
  the output mint (`derive.rs:375`). Two equal transfers between accounts of
  the swap outvote its own single one and become the price, against
  `docs/architecture.md:43`. What holds is `PricesAreExact`: from the
  transfers a price is wrong only if two strays agree in mint and amount, from
  the balances only if a stray touched the payer's accounts. Fees that all
  differ never outvote the swap's own transfer.
* `labels_leak`. The baseline is the first observation at or after creation,
  but what a horizon uses may be from before it (`lib.rs:362`): with one early
  price and a first later one behind the horizon, a return is computed from a
  baseline in its future, against `docs/architecture.md:45`. `backfill`
  rejects early prices; the command without a name does not. What holds is
  `LeaksNeedEarlyPrices`.

## What is not modelled

* `backtest`, `score_report`, `inventory` and the paper simulation. They are
  sums and averages of floating-point numbers over a finished file, in one
  pass, without state that outlives a call: nothing interleaves or fails half
  way. The quality gate before them is `Clean` in `Scanner`.
* Configuration, the client and the demo script: reading and printing.
* The Anchor program: two instructions on one account, serialised by the
  runtime, independent of the scanner.
* The reconnect loop's backoff. It is a pause in the notifications, which
  every model allows anywhere; no property reads its length.
* The metrics report, histograms and high-water marks: they only observe.
* Formatting, HTTP, JSON, base58, and the search for the fee payer. Files are
  modelled where their content is read again (`History`, `Research`); the
  scanner's own rows are an await that succeeds or fails.
* In `Scanner`: notifications of failed transactions, a second launch of the
  same account, and the steps inside a handler, which `Intake`, `Fetcher` and
  `Tracker` have.
* In `Derive`: decimals, and fees of the transaction. A launch with a
  Token-2022 base has its quote's transfers parsed and its base's not, so
  every swap of it is rejected as ambiguous; `ShownAlike` excludes it from
  `CleanSwapIsPriced`.
* In `History`: the attempts inside a call and the pauses between calls.
