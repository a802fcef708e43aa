------------------------------ MODULE Research -----------------------------
(***************************************************************************)
(* The commands of research/src/main.rs over their files, for one launch:  *)
(* fetch-transactions (History) leaves the raw export, derive-prices reads *)
(* it, backfill merges prices into the observation cache and writes the    *)
(* labels (Labels), and the command without a name replaces the cache. One *)
(* command runs at a time; each may die with its file half written.        *)
(***************************************************************************)
EXTENDS History, Labels

CONSTANTS
    PriceOf,    \* signature -> the price derive.rs gives its transaction, never 0
    Imports,    \* price exports from elsewhere: series
    Replacements    \* those given to the command without a name

ASSUME ResearchAssumption ==
    /\ Horizons \in [1..4 -> Nat] /\ Horizons[4] = Window
    /\ None \notin Int
    /\ \A sig \in Sig : PriceOf[sig] \in Nat \ {0}
    /\ \A series \in Imports \cup Replacements : IsSeries(series)

VARIABLES
    cache,      \* the observation cache, a series; lines are in its order
    torn,       \* whether its last line is cut
    label,      \* the label of the launch, or None
    fetched,    \* history: the cache was only fed from the raw export
    early       \* history: a price before creation was given to the command without a name

vars == <<history, file, pc, run, exit, runs, cache, torn, label, fetched, early>>

fileVars == <<cache, torn, label, fetched, early>>

Init ==
    /\ HistInit
    /\ cache = NoSeries /\ torn = FALSE /\ label = None
    /\ fetched = TRUE /\ early = FALSE

TimeOf(sig) == (CHOOSE row \in ToSet(history) : row.sig = sig).time

\* derive-prices over an accepted export: the first line of a second counts.
Derived ==
    LET line(t)  == {i \in DOMAIN file : TimeOf(file[i].txs[1]) = t}
        seconds == {TimeOf(sig) : sig \in Existing}
    IN  [t \in seconds |-> PriceOf[file[Min(line(t))].txs[1]]]

Prefix(series, n) ==
    LET kept == {t \in DOMAIN series : Cardinality({u \in DOMAIN series : u <= t}) <= n}
    IN  [t \in kept |-> series[t]]

\* The cache is truncated and rewritten line by line, then the labels are; the
\* command may die with either half written: a label that is not there whole
\* is none.
Write(series) ==
    \/ cache' = series /\ torn' = FALSE /\ label' \in {Label(series), None}
    \/ \E n \in 0..Cardinality(DOMAIN series), cut \in BOOLEAN :
        /\ cut => n < Cardinality(DOMAIN series)
        /\ cache' = Prefix(series, n) /\ torn' = cut
        /\ UNCHANGED label

\* backfill of a price file.
Backfill(imported) ==
    /\ ~torn
    /\ Valid(imported)
    /\ Write(Merge(cache, imported))

Command(A) == pc = "idle" /\ runs < MaxRuns /\ runs' = runs + 1 /\ A

BackfillFetched ==
    /\ Command(Accepted /\ Backfill(Derived))
    /\ UNCHANGED <<history, file, pc, run, exit, fetched, early>>

\* An export in CSV is validated as it is, one in JSON lines when it is normal.
BackfillImport ==
    /\ Command(\E series \in Imports : Backfill(series) \/ Backfill(Normal(series)))
    /\ fetched' = FALSE
    /\ UNCHANGED <<history, file, pc, run, exit, early>>

\* Without a command, the cache is replaced by the prices of --prices, made
\* normal and not validated, or by nothing; the labels follow it.
Unnamed ==
    /\ Command(\E series \in Replacements \cup {NoSeries} :
                /\ Write(Normal(series))
                /\ early' = (early \/ \E t \in DOMAIN Normal(series) : t < 0))
    /\ fetched' = FALSE
    /\ UNCHANGED <<history, file, pc, run, exit>>

Next ==
    \/ HistNext /\ UNCHANGED fileVars
    \/ BackfillFetched
    \/ BackfillImport
    \/ Unnamed

Spec == Init /\ [][Next]_vars

-----------------------------------------------------------------------------
(* Properties *)

TypeOK ==
    /\ pc \in {"idle", "paging", "fetching"}
    /\ exit \in {"none", "success", "failure", "died"}
    /\ run.pages \in 0..MaxPages /\ run.listed \in 0..Len(history)
    /\ \A i \in DOMAIN file : file[i].txs # <<>> /\ ToSet(file[i].txs) \subseteq Sig
    /\ \A i \in DOMAIN file : file[i].ended \/ i = Len(file)
    /\ \A i \in DOMAIN file : file[i].whole => file[i].utf8
    /\ {torn, fetched, early} \subseteq BOOLEAN
    /\ label # None => label.status \in {"complete", "partial", "missing"}

\* Which observation a label uses. A return is made of two, the baseline, at
\* or after creation, and one at or before its horizon that is not before the
\* baseline. The one exception: prices of before the creation were put into
\* the cache by the command without a name, and none stands between creation
\* and horizon. Then the return compares a price of before the launch with one
\* of after the horizon (lib.rs:362), and the window of that horizon has no
\* extremes beside it. No backfill, death or merge makes another.
LeaksNeedEarlyPrices ==
    label # None =>
        \A i \in 1..4 : label.used[i] # None =>
            /\ 0 <= label.base
            /\ label.used[i] <= Horizons[i]
            /\ \/ label.base <= label.used[i]
               \/ /\ early
                  /\ label.used[i] < 0 /\ Horizons[i] < label.base
                  /\ i \in {2, 3} => label.windows[i - 1] = None

\* docs/architecture.md:45, the observations a label is made of: the baseline
\* is at or after creation, and what a return uses is not before the baseline
\* nor after its horizon.
LabelsDoNotLookAhead ==
    label # None =>
        \A i \in 1..4 : label.used[i] # None =>
            /\ 0 <= label.base
            /\ label.base <= label.used[i]
            /\ label.used[i] <= Horizons[i]

\* No backfill changes the price of a second in the cache, whatever it imports,
\* and one that dies loses the last prices at most: what is left of the old
\* cache and of the import is a prefix in time.
PricesAreKept ==
    [][\/ Unnamed
       \/ /\ \A t \in DOMAIN cache \cap DOMAIN cache' : cache'[t] = cache[t]
          /\ \A t \in DOMAIN cache \ DOMAIN cache' : \A u \in DOMAIN cache' : u < t]_vars

\* The extremes of a window, computed in one walk, are those of its
\* observations: the highest rise over the baseline and the deepest fall from
\* an earlier observation of the window.
ExtremesAreExact ==
    \A h \in {Horizons[2], Horizons[3]} :
        WindowOf(cache, h) # None =>
            LET seen == {t \in DOMAIN cache : 0 <= t /\ t <= h}
            IN  WindowOf(cache, h) =
                    [peak |-> Max({cache[t] - cache[Baseline(cache)] : t \in seen}),
                     drawdown |-> Min({cache[p[2]] - cache[p[1]] :
                                        p \in {q \in seen \X seen : q[1] <= q[2]}})]

\* A fetch ends its window with the hour (fetch.rs:51), while a complete label
\* needs an observation at the hour or after it (lib.rs:363): from fetched
\* prices alone, only a trade in that very second completes a label.
CompleteNeedsLastSecond ==
    fetched /\ label # None => (label.status = "complete" => label.used[4] = Horizons[4])
=============================================================================
