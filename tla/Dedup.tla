------------------------------- MODULE Dedup -------------------------------
(***************************************************************************)
(* The bounded signature history of ingestion/src/dedup.rs.  It is used    *)
(* twice: once by all the listeners, before the queue (EarlyDedup), and    *)
(* once by the fetch dispatcher, after the queue.                          *)
(***************************************************************************)
EXTENDS Naturals, FiniteSets, Sequences, SequencesExt

CONSTANT HistoryCap  \* 10_000 in the code

ASSUME HistoryCapAssumption == HistoryCap \in Nat \ {0}

NoHistory == [seen |-> {}, order |-> <<>>]

Knows(h, sig) == sig \in h.seen

\* Mutant of Remember: the oldest leaves as soon as the history is full.
Remember_OneShort(h, sig) ==
  LET order == Append(h.order, sig) IN
  IF Len(order) >= HistoryCap
  THEN [seen |-> (h.seen \cup {sig}) \ {Head(order)}, order |-> Tail(order)]
  ELSE [seen |-> h.seen \cup {sig}, order |-> order]

\* remember_signature for a signature that is not in h: push it at the back and,
\* above the capacity, forget the one at the front.
Remember(h, sig) ==
  LET order == Append(h.order, sig) IN
  IF Len(order) > HistoryCap
  THEN [seen |-> (h.seen \cup {sig}) \ {Head(order)}, order |-> Tail(order)]
  ELSE [seen |-> h.seen \cup {sig}, order |-> order]

\* The set and the deque of the code describe the same bounded history.
HistoryOK(h) ==
  /\ h.seen = ToSet(h.order)
  /\ IsInjective(h.order)
  /\ Len(h.order) <= HistoryCap
=============================================================================
