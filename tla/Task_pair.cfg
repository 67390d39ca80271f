SPECIFICATION Spec
CONSTANTS
  t1 = t1  t2 = t2  o1 = o1  c1 = c1  c2 = c2  p1 = p1  p2 = p2  w1 = w1  w2 = w2  pause = pause
  Tasks = {t1, t2}
  Objects = {}
  Clusters = {c1}
  Pods = {p1}
  Workers = {w1, w2}
  NoTask = NoTask  NoObject = NoObject  NoPod = NoPod  NoCluster = NoCluster
  InputOf <- NoInputs
  ClusterOf <- SameCluster
  PodCluster <- OnePodLabel
  PodContainers = {pause}
  MountedPods = {p1}
  Standing = {c1}
  MaxUid = 1
  MaxRv = 0
  MaxPodRv = 0
  MaxRev = 1
  MaxFaults = 0
  MaxRestarts = 0
SYMMETRY PairSymmetry
INVARIANT BindingHonoured
INVARIANT FinishedOnlyIfTerminated
CHECK_DEADLOCK FALSE
