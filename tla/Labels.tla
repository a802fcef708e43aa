------------------------------- MODULE Labels ------------------------------
(***************************************************************************)
(* The labels of research/src/lib.rs, as operators on the price series of  *)
(* one launch: a function from the seconds that have an observation to its *)
(* price. The launch is created at second 0. A return is a difference of   *)
(* prices: the code divides it by the price of the baseline.               *)
(***************************************************************************)
EXTENDS Integers, FiniteSetsExt

CONSTANTS
    Horizons,   \* <<1 minute, 5 minutes, 15 minutes, 1 hour>>
    None

\* The seconds and the prices are numbers; a negative second is before the
\* creation, which only the command without a name lets in.
IsSeries(series) ==
    /\ DOMAIN series \subseteq Int /\ IsFiniteSet(DOMAIN series)
    /\ \A t \in DOMAIN series : series[t] \in Int

NoSeries == [t \in {} |-> 0]

\* The part of normalize_observations that is about the prices: only positive
\* ones are kept.
Normal(series) == [t \in {u \in DOMAIN series : series[u] > 0} |-> series[t]]

\* Mutant of Merge: the imported observation of a second wins.
Merge_Imported(existing, imported) ==
    [t \in DOMAIN existing \cup DOMAIN imported |->
        IF t \in DOMAIN imported THEN imported[t] ELSE existing[t]]

\* merge_observations with normalize_observations: the stable sort keeps the
\* first observation of a second, and the existing ones come first.
Merge(existing, imported) ==
    [t \in DOMAIN existing \cup DOMAIN imported |->
        IF t \in DOMAIN existing THEN existing[t] ELSE imported[t]]

\* Mutant of Valid: the seconds are not compared with the creation.
Valid_AnySecond(series) == \A t \in DOMAIN series : series[t] > 0

\* validate_price_export, of one launch: one bad row rejects the import.
Valid(series) == \A t \in DOMAIN series : series[t] > 0 /\ t >= 0

After(series, t) == {u \in DOMAIN series : u >= t}

UpTo(series, t) == {u \in DOMAIN series : u <= t}

Baseline(series) == IF After(series, 0) = {} THEN None ELSE Min(After(series, 0))

\* The observation a return is computed from: the last one at or before the
\* horizon, if the series reaches the horizon.
Used(series, horizon) ==
    IF After(series, horizon) = {} \/ UpTo(series, horizon) = {} THEN None
    ELSE Max(UpTo(series, horizon))

\* Mutant of Walk: the drawdown is measured from the final peak.
Walk_FinalPeak(series, horizon) ==
    LET base == series[Baseline(series)]
        seen == {series[t] - base : t \in {u \in DOMAIN series : 0 <= u /\ u <= horizon}}
    IN  IF seen = {} THEN None
        ELSE [peak |-> Max(seen \cup {0}), drawdown |-> Min(seen) - Max(seen \cup {0})]

\* The peak and the drawdown after the observations up to t: the loop over
\* the window, from (0, 0).
Walk(series, horizon) ==
    LET base == series[Baseline(series)]
        seen == {t \in DOMAIN series : 0 <= t /\ t <= horizon}
        after[t \in -1..horizon] ==
            IF t = -1 THEN [peak |-> 0, drawdown |-> 0]
            ELSE LET before == after[t - 1]
                     value  == series[t] - base
                     peak   == Max({before.peak, value})
                 IN  IF t \notin seen THEN before
                     ELSE [peak |-> peak, drawdown |-> Min({before.drawdown, value - peak})]
    IN  IF seen = {} THEN None ELSE after[horizon]

\* The window of a horizon is filled when its return is.
WindowOf(series, horizon) ==
    IF Used(series, horizon) = None THEN None ELSE Walk(series, horizon)

Unavailable == [base |-> None, used |-> [i \in 1..4 |-> None], available |-> FALSE,
                windows |-> <<None, None>>, status |-> "missing"]

\* label_outcome: the observations used by the returns, the extremes of the
\* windows of 5 and 15 minutes, whether the label is available, and its status.
\* The two are decided separately: a series that has nothing up to the fifth
\* minute and one observation at the hour is complete and not available.
Label(series) ==
    IF Baseline(series) = None THEN Unavailable
    ELSE [base |-> Baseline(series),
          used |-> [i \in 1..4 |-> Used(series, Horizons[i])],
          available |-> Used(series, Horizons[2]) # None,
          windows |-> <<WindowOf(series, Horizons[2]), WindowOf(series, Horizons[3])>>,
          status |-> IF Used(series, Horizons[4]) # None THEN "complete"
                     ELSE IF Used(series, Horizons[2]) # None THEN "partial" ELSE "missing"]
=============================================================================
