------------------------------- MODULE Ledger ------------------------------
(***************************************************************************)
(* What the scanner promises of its notifications ("bound work ... counted,*)
(* not silently recast as coverage", README.md): each one it receives is   *)
(* on its way through the stages or has left them by one counted outcome,  *)
(* until the process stops and discards what is on its way.                *)
(***************************************************************************)
EXTENDS Naturals

CONSTANT Outcomes

VARIABLES running, received, underway, left

vars == <<running, received, underway, left>>

Init ==
    /\ running = TRUE
    /\ received = 0 /\ underway = 0 /\ left = [o \in Outcomes |-> 0]

Leaves(o) == left' = [left EXCEPT ![o] = @ + 1]

\* A notification arrives, and may push one that is underway out of its way;
\* or it is refused at once.
Receive ==
    /\ running /\ UNCHANGED running
    /\ received' = received + 1
    /\ \/ underway' = underway + 1 /\ UNCHANGED left
       \/ \E o \in Outcomes : Leaves(o) /\ underway' = underway
       \/ \E o \in Outcomes, k \in 1..underway :
            /\ left' = [left EXCEPT ![o] = @ + k]
            /\ underway' = underway + 1 - k

Settle ==
    /\ running /\ underway > 0
    /\ underway' = underway - 1
    /\ \E o \in Outcomes : Leaves(o)
    /\ UNCHANGED <<running, received>>

Stop ==
    /\ running /\ running' = FALSE
    /\ underway' = 0
    /\ UNCHANGED <<received, left>>

Next == Receive \/ Settle \/ Stop

Spec == Init /\ [][Next]_vars
=============================================================================
