----------------------------- MODULE MCScanner -----------------------------
(***************************************************************************)
(* A launch c and two trades of it, of which four notifications arrive:    *)
(* one more than each stage has places for, in histories of two, under a   *)
(* tracker that counts two.                                                *)
(***************************************************************************)
EXTENDS Scanner, TLC

CONSTANTS c, t, u

MCEnds == <<1, 2>>
=============================================================================
