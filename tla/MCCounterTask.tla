--------------------------- MODULE MCCounterTask ---------------------------
(* A small instance of CounterTask.                                        *)
EXTENDS CounterTask

CONSTANTS p1, p2

(* From the start, from further on, at the limit, and not readable.        *)
SomeInputs == {[count |-> 0, limit |-> 2], [count |-> 1, limit |-> 2],
               [count |-> 2, limit |-> 1], [count |-> 0, limit |-> Malformed]}
=============================================================================
