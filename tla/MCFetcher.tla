----------------------------- MODULE MCFetcher -----------------------------
(* Instance of Fetcher for TLC.  A tick is half a second: the delays of the  *)
(* code are 1, 2, 4, ... ticks.                                              *)
EXTENDS Fetcher

MCBackoff == [k \in 0..(Attempts - 1) |-> 2^k]
=============================================================================
