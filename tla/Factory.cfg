SPECIFICATION FairSpec
CONSTANTS
  all = all  demo = demo  c1 = c1  c2 = c2  s1 = s1  s2 = s2
  Types = {"Task", "TaskObject"}
  Resources = {"tasks", "taskobjects", "jobs"}
  Callers = {c1, c2}
  Channels = {s1, s2}
  ChannelOf <- OwnChannel
  Options <- SomeOptions
  Settings = {all, demo, Nil}
  Periods = {10, 30, 60}
  DefaultResync = 30
  AllNamespaces = all
  Nil = Nil
INVARIANT TypeOK
INVARIANT HandlesAreShared
INVARIANT RunsOnce
INVARIANT ShutdownIsFinal
INVARIANT InformersAreConfigured
INVARIANT SyncedAsTold
PROPERTY CallsReturn
CHECK_DEADLOCK FALSE
