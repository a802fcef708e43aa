------------------------------ MODULE MCIntake ------------------------------
(* Instance of Intake for TLC. *)
EXTENDS Intake, TLC

Symmetry == Permutations(Listeners) \cup Permutations(Sigs)
=============================================================================
