SPECIFICATION Spec
CONSTANTS
  t1 = t1  t2 = t2  o1 = o1  c1 = c1  c2 = c2  p1 = p1  p2 = p2  w1 = w1  w2 = w2  pause = pause
  Tasks = {t1}
  Objects = {o1}
  Clusters = {c1}
  Pods = {p1, p2}
  Workers = {w1, w2}
  NoTask = NoTask  NoObject = NoObject  NoPod = NoPod  NoCluster = NoCluster
  InputOf <- OneInput
  ClusterOf <- OneCluster
  PodCluster <- TwoPodLabels
  PodContainers = {pause}
  MountedPods = {p1, p2}
  Standing = {c1}
  MaxUid = 1
  MaxRv = 2
  MaxPodRv = 0
  MaxRev = 1
  MaxFaults = 1
  MaxRestarts = 1
SYMMETRY FaultsSymmetry
INVARIANT TypeOK
INVARIANT BindingHonoured
INVARIANT NoLostWakeup
PROPERTY StatusMovesForward
PROPERTY OneLaunchAtATime
PROPERTY SettledIsNotLaunchedAgain
CHECK_DEADLOCK FALSE
