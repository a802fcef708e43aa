----------------------------- MODULE MCTracker -----------------------------
(***************************************************************************)
(* Three launches in a tracker with places for two: `create` creates p,    *)
(* `both` creates q and r and trades p, `swap` trades p and q.             *)
(***************************************************************************)
EXTENDS Tracker, TLC

CONSTANTS p, q, r, create, both, swap

MCCreates == create :> {p} @@ both :> {q, r} @@ swap :> {}
MCTouches == create :> {p} @@ both :> {p, q, r} @@ swap :> {p, q}
MCEnds == <<1, 2, 4>>
=============================================================================
