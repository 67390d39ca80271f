SPECIFICATION Spec
CONSTANTS
  c1 = c1  d1 = d1  w1 = w1  w2 = w2
  Clusters = {c1}
  Deployments = {d1}
  Workers = {w1, w2}
  NoCluster = NoCluster  NoDeployment = NoDeployment
  Specs <- Resizing
  ForeignNames = {}
  Releasable = {}
  Relists = FALSE
  MaxReplicas = 2
  MaxUid = 2
  MaxRv = 3
  MaxDeploymentRv = 2
  MaxFaults = 1
  MaxRestarts = 1
SYMMETRY WorkerSymmetry
INVARIANT TypeOK
INVARIANT NoLostWakeup
PROPERTY OwnerNeverReplaced
PROPERTY UpdatesRollForward
CHECK_DEADLOCK FALSE
