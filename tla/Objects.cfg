SPECIFICATION Spec
CONSTANTS
  t1 = t1  t2 = t2  v1 = v1  v2 = v2  p1 = p1  c1 = c1
  Tasks = {t1, t2}
  Pods = {p1}
  TaskClusters = {c1}
  TaskWorkers = {v1, v2}
  ClusterWorkers = {u1}
  MaxVersion = 2
  Bare <- FirstAreBare
  Nil = Nil
  Finished = Finished
  Available = Available
SYMMETRY Symmetry
INVARIANT TypeOK
INVARIANT CopiesArePrivate
INVARIANT RequestsAreWhole
PROPERTY CachedIsReadOnly
