-------------------------- MODULE MCTaskController --------------------------
(* Small instances of TaskController.                                      *)
EXTENDS TaskController, TLC

CONSTANTS t1, t2, o1, c1, c2, p1, p2, w1, w2, pause

(* One Task that waits for a TaskObject.                                   *)
OneInput == (t1 :> o1)
NoInput == (t1 :> NoObject)
OneCluster == (t1 :> c1)

(* Two Tasks of one TaskCluster, without inputs.                           *)
NoInputs == (t1 :> NoObject) @@ (t2 :> NoObject)
SameCluster == (t1 :> c1) @@ (t2 :> c1)

OnePodLabel == (p1 :> c1)
TwoPodLabels == (p1 :> c1) @@ (p2 :> c1)
(* A Pod of the Task's TaskCluster, and one of another.                    *)
OtherPodLabels == (p1 :> c1) @@ (p2 :> c2)

FaultsSymmetry == Permutations({p1, p2}) \cup Permutations({w1, w2})
PairSymmetry == Permutations({t1, t2}) \cup Permutations({w1, w2})
=============================================================================
