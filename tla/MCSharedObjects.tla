-------------------------- MODULE MCSharedObjects --------------------------
(* A small instance of SharedObjects.                                      *)
EXTENDS SharedObjects, TLC

CONSTANTS t1, t2, v1, v2, p1, c1

FirstAreBare == {t1, t2, p1, c1} \X {1}

Symmetry == Permutations({t1, t2}) \cup Permutations({v1, v2})
=============================================================================
