SPECIFICATION EventSpec
CONSTANTS
  t1 = t1  t2 = t2  o1 = o1  c1 = c1  c2 = c2  p1 = p1  p2 = p2  w1 = w1  w2 = w2  pause = pause
  Tasks = {t1}
  Objects = {o1}
  Clusters = {c1, c2}
  Pods = {p1, p2}
  Workers = {w1}
  NoTask = NoTask  NoObject = NoObject  NoPod = NoPod  NoCluster = NoCluster
  InputOf <- OneInput
  ClusterOf <- OneCluster
  PodCluster <- OtherPodLabels
  PodContainers = {pause}
  MountedPods = {p1, p2}
  Standing = {c2}
  MaxUid = 1
  MaxRv = 0
  MaxPodRv = 0
  MaxRev = 1
  MaxFaults = 1
  MaxRestarts = 1
INVARIANT PlacedWhereAllowed
PROPERTY EventsBindTasks
PROPERTY EveryTaskFinishes
CHECK_DEADLOCK FALSE
