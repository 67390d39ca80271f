------------------------------ MODULE Counting ------------------------------
(* What the counter demo promises: a number that is counted up by ones and *)
(* never past its limit.                                                   *)
EXTENDS Integers

VARIABLES count, limit

vars == <<count, limit>>

Init == count \in Int /\ limit \in Int

Increment == count < limit /\ count' = count + 1 /\ UNCHANGED limit

Spec == Init /\ [][Increment]_vars

=============================================================================
