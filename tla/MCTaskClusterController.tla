---------------------- MODULE MCTaskClusterController ----------------------
(* Small instances of TaskClusterController.                               *)
EXTENDS TaskClusterController, TLC

CONSTANTS c1, d1, w1, w2

Asks(d, n) == [deployment |-> d, account |-> TRUE, replicas |-> n]

(* One Deployment, in two sizes.                                           *)
Resizing == {Asks(d1, 1), Asks(d1, 2)}

(* A size, no size, no service account, and no Deployment.                 *)
AllKinds == {Asks(d1, 2), Asks(d1, NoReplicas), Asks(NoDeployment, 1),
             [deployment |-> d1, account |-> FALSE, replicas |-> 1]}

WorkerSymmetry == Permutations({w1, w2})
=============================================================================
