SPECIFICATION FairSpec
CONSTANTS
  c1 = c1  d1 = d1  w1 = w1  w2 = w2
  Clusters = {c1}
  Deployments = {d1}
  Workers = {w1}
  NoCluster = NoCluster  NoDeployment = NoDeployment
  Specs <- AllKinds
  ForeignNames = {d1}
  Releasable = {d1}
  Relists = TRUE
  MaxReplicas = 2
  MaxUid = 1
  MaxRv = 2
  MaxDeploymentRv = 3
  MaxFaults = 1
  MaxRestarts = 0
PROPERTY Settles
CHECK_DEADLOCK FALSE
