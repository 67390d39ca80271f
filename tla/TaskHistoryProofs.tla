------------------------- MODULE TaskHistoryProofs -------------------------
(***************************************************************************)
(* Theorems about TaskController that speak of the order in which versions *)
(* of an object reach the informers: no wake-up is lost, a settled Task is *)
(* not launched again, and an orphaned Task stays one.  All three rest on  *)
(* the versions that are around at one time, in the API server, the watch, *)
(* the cache and a worker's copy, being those of one history.              *)
(***************************************************************************)
EXTENDS TaskControllerProofs

-----------------------------------------------------------------------------
(* The inductive invariant, on top of IInv.                                *)

(* Of two versions of a Task in one history, the later one is of the same  *)
(* incarnation or of a later one, and within an incarnation a deleted Task *)
(* stays deleted and a binding stays as it is.                             *)
Follows(u, v) ==
  u.rv <= v.rv =>
    /\ u.uid <= v.uid
    /\ u.uid = v.uid /\ v.exists =>
         u.exists /\ (u.podName # NoPod => v.podName = u.podName)

(* A Pod that is gone does not come back.                                  *)
Gone(pod) == pod.rv > 0 /\ ~pod.exists
PodFollows(u, v) == u.rv <= v.rv => (Gone(u) => Gone(v))

TaskVersions(t) == taskWatch[t] \cup {taskCache[t], tasks[t]}
PodVersions(p) == podWatch[p] \cup {podCache[p], pods[p]}

(* What a watch still holds is later than what the cache shows.            *)
TaskHistory(t) ==
  /\ \A u, v \in TaskVersions(t) : Follows(u, v)
  /\ \A v \in taskWatch[t] : v.rv > taskCache[t].rv

PodHistory(p) ==
  /\ \A u, v \in PodVersions(p) : PodFollows(u, v)
  /\ \A v \in podWatch[p] : v.rv > podCache[p].rv
  /\ \A v \in PodVersions(p) : v.rv <= pods[p].rv

(* The work queue hands a key to one worker at a time.                     *)
OneWorkerPerKey ==
  \A v, w \in Workers : pc[v] # "idle" /\ pc[w] # "idle" /\ key[v] = key[w] => v = w

(* A worker's copy came from the cache, which has not gone back since.     *)
CopyRead(w) ==
  pc[w] \in Holding =>
    Follows(seen[w], tasks[key[w]]) /\ seen[w].rv <= taskCache[key[w]].rv

(* A binding was written from a copy of its own incarnation: the cache has *)
(* seen this incarnation, and so has a worker that holds the key.          *)
BindingSeen ==
  \A t \in Tasks : tasks[t].podName # NoPod =>
    /\ taskCache[t].uid = tasks[t].uid
    /\ \A w \in Workers : key[w] = t /\ pc[w] \in Holding => seen[w].uid = tasks[t].uid

HInv ==
  /\ \A t \in Tasks : TaskHistory(t)
  /\ \A p \in Pods : PodHistory(p)
  /\ OneWorkerPerKey
  /\ \A w \in Workers : CopyRead(w)
  /\ BindingSeen

(* A TaskCluster that stood before the controller started, and was not     *)
(* touched since, is in the cache.                                         *)
StandingSeen ==
  \A c \in Standing : clusterSeen[c] >= 1 /\ clusterSeen[c] <= clusterRev[c]

(* w will not end its work on t with nil: it has read an unbound Task, or  *)
(* is still to read it.                                                    *)
Attends(w, t) ==
  /\ key[w] = t
  /\ \/ pc[w] \in {"getTask", "listPods", "patch", "markRunning", "err"}
     \/ pc[w] \in {"getCluster", "getInput"} /\ seen[w].podName = NoPod

(* NoLostWakeup, where a worker counts only while it attends to the Task.  *)
Attended(t) ==
  \/ t \in dirty \cup retry
  \/ \E w \in Workers : Attends(w, t)
  \/ notify \cap {<<"Task", t>>, <<"TaskObject", InputOf[t]>>} # {}

WInv == StandingSeen /\ \A t \in Tasks : Schedulable(t) => Attended(t)

-----------------------------------------------------------------------------
(* Lemmas about versions.                                                  *)

LEMMA FollowsChain ==
  ASSUME NEW u \in TaskVersion, NEW v \in TaskVersion, NEW w \in TaskVersion,
         Follows(u, v), Follows(v, w), u.rv <= v.rv, v.rv <= w.rv
  PROVE  Follows(u, w)
<1>1. u.uid \in Nat /\ v.uid \in Nat /\ w.uid \in Nat
  BY DEF TaskVersion
<1> QED BY <1>1 DEF Follows

LEMMA PodFollowsChain ==
  ASSUME NEW u \in PodVersion, NEW v \in PodVersion, NEW w \in PodVersion,
         PodFollows(u, v), PodFollows(v, w), u.rv <= v.rv, v.rv <= w.rv
  PROVE  PodFollows(u, w)
BY DEF PodFollows

LEMMA VersionTypes ==
  ASSUME Typed
  PROVE  /\ \A t \in Tasks : /\ taskWatch[t] \subseteq TaskVersion /\ taskCache[t] \in TaskVersion
                             /\ tasks[t] \in TaskVersion /\ TaskVersions(t) \subseteq TaskVersion
         /\ \A p \in Pods : /\ podWatch[p] \subseteq PodVersion /\ podCache[p] \in PodVersion
                            /\ pods[p] \in PodVersion /\ PodVersions(p) \subseteq PodVersion
BY DEF Typed, TypeOK, TaskVersions, PodVersions

(* A write is the next version of its Task and follows the one before.     *)
LEMMA NextTaskVersion ==
  ASSUME IInv, [Next]_vars, NEW t \in Tasks
  PROVE  /\ tasks'[t] = tasks[t] \/ tasks'[t].rv = tasks[t].rv + 1
         /\ Follows(tasks[t], tasks'[t])
<1>1. tasks[t] \in TaskVersion /\ tasks'[t] \in TaskVersion
  BY TypedStep DEF IInv, Typed, TypeOK
<1>2. tasks[t].uid \in Nat /\ tasks[t].rv \in Nat /\ tasks'[t].uid \in Nat
  BY <1>1 DEF TaskVersion
<1>3. tasks'[t] = tasks[t] \/ (tasks'[t].rv = tasks[t].rv + 1 /\ tasks[t].uid <= tasks'[t].uid)
  BY TasksGrow DEF TaskGrows
<1>4. CASE tasks'[t] = tasks[t]
  BY <1>2, <1>4 DEF Follows
<1>5. CASE Created(t, tasks'[t])
  BY <1>2, <1>3, <1>5 DEF Created, Follows
<1>6. CASE Deleted(t, tasks'[t])
  BY <1>2, <1>3, <1>6 DEF Deleted, Follows
<1>7. CASE Edited(t, tasks'[t]) \/ MadeFinished(t, tasks'[t])
  BY <1>2, <1>3, <1>7 DEF Edited, MadeFinished, SameObject, Follows
<1>8. CASE MadeRunning(t, tasks'[t])
  <2>1. PICK w \in Workers : pc[w] = "markRunning" /\ seen[w] = tasks[t]
    BY <1>8 DEF MadeRunning
  <2>2. tasks[t].podName = NoPod
    BY <2>1 DEF IInv, WorkerInv, Unassigned
  <2> QED BY <1>2, <1>3, <1>8, <2>2 DEF MadeRunning, SameObject, Follows
<1> QED BY <1>3, <1>4, <1>5, <1>6, <1>7, <1>8, StatusStep

LEMMA NextPodVersion ==
  ASSUME IInv, [Next]_vars, NEW p \in Pods
  PROVE  /\ pods'[p] = pods[p] \/ pods'[p].rv = pods[p].rv + 1
         /\ PodFollows(pods[p], pods'[p])
<1>1. pods[p] \in PodVersion
  BY DEF IInv, Typed, TypeOK
<1>2. CASE UNCHANGED pods
  BY <1>2 DEF PodFollows
<1>3. ASSUME NEW q \in Pods, NEW v \in PodVersion, PodWrite(q, v)
      PROVE  /\ pods'[p] = pods[p] \/ pods'[p].rv = pods[p].rv + 1
             /\ PodFollows(pods[p], pods'[p])
  <2>1. CASE q # p
    BY <1>3, <2>1 DEF PodWrite, PodFollows, IInv, Typed, TypeOK
  <2>2. CASE q = p
    <3>1. pods'[p] = v /\ v.rv = pods[p].rv + 1 /\ (v.exists => pods[p].exists \/ pods[p].rv = 0)
      BY <1>3, <2>2 DEF PodWrite, IInv, Typed, TypeOK
    <3>2. pods[p].rv \in Nat
      BY <1>1 DEF PodVersion
    <3> QED BY <3>1, <3>2 DEF PodFollows, Gone
  <2> QED BY <2>1, <2>2
<1> QED BY <1>2, <1>3, StepEffect DEF ApiStep, PodsKept

(* A cache stays, moves to a version its watch holds, or is listed anew.   *)
TaskCacheMove(t) ==
  \/ taskCache'[t] = taskCache[t]
  \/ taskCache'[t] \in taskWatch[t] /\ taskWatch'[t] = LaterThan(taskCache'[t], taskWatch[t])
  \/ taskCache'[t] = tasks[t] /\ tasks'[t] = tasks[t] /\ taskWatch'[t] = {}

PodCacheMove(p) ==
  \/ podCache'[p] = podCache[p]
  \/ podCache'[p] \in podWatch[p] /\ podWatch'[p] = LaterThan(podCache'[p], podWatch[p])
  \/ podCache'[p] = pods[p] /\ pods'[p] = pods[p] /\ podWatch'[p] = {}

LEMMA CachesMove ==
  ASSUME IInv, [Next]_vars
  PROVE  (\A t \in Tasks : TaskCacheMove(t)) /\ (\A p \in Pods : PodCacheMove(p))
<1> USE DEF TaskCacheMove, PodCacheMove
<1>1. CASE UNCHANGED <<taskCache, podCache>>
  BY <1>1
<1>2. ASSUME NEW t \in Tasks, SeeTask(t)
      PROVE  (\A u \in Tasks : TaskCacheMove(u)) /\ (\A p \in Pods : PodCacheMove(p))
  BY <1>2 DEF SeeTask, IInv, Typed, TypeOK
<1>3. ASSUME NEW p \in Pods, SeePod(p)
      PROVE  (\A t \in Tasks : TaskCacheMove(t)) /\ (\A q \in Pods : PodCacheMove(q))
  BY <1>3 DEF SeePod, IInv, Typed, TypeOK
<1>4. CASE Restart
  BY <1>4 DEF Restart, Filled, Waited, apiVars
<1>5. CASE UNCHANGED vars
  BY <1>1, <1>5 DEF vars, informerVars
<1>6. CASE Environment
  BY <1>1, <1>6, ApiStepEnvironment DEF IInv
<1>7. CASE Informers
  BY <1>1, <1>2, <1>3, <1>7 DEF Informers, SeeObject, SeeCluster, Resync
<1>8. CASE (\E n \in notify : Handle(n)) \/ (\E t \in retry : RetryDue(t))
  BY <1>1, <1>8 DEF Handle, RetryDue, informerVars
<1>9. CASE \E w \in Workers : Worker(w)
  BY <1>1, <1>9, ApiStepWorker
<1> QED BY <1>4, <1>5, <1>6, <1>7, <1>8, <1>9 DEF Next

-----------------------------------------------------------------------------
(* Histories are kept.                                                     *)

LEMMA TaskHistoryKept ==
  ASSUME IInv, [Next]_vars, NEW t \in Tasks, TaskHistory(t)
  PROVE  TaskHistory(t)'
<1>1. /\ TaskVersions(t) \subseteq TaskVersion /\ tasks[t] \in TaskVersion
      /\ tasks'[t] \in TaskVersion /\ tasks[t] \in TaskVersions(t)
  BY VersionTypes, TypedStep DEF IInv, Typed, TypeOK, TaskVersions
<1>2. \A v \in TaskVersions(t) : v.rv \in Nat /\ v.rv <= tasks[t].rv
  BY <1>1 DEF TaskVersions, TaskVersion, IInv, TaskCopies, OldVersion
<1>3. /\ tasks'[t] = tasks[t] \/ tasks'[t].rv = tasks[t].rv + 1
      /\ Follows(tasks[t], tasks'[t])
  BY NextTaskVersion
<1>4. tasks[t].rv \in Nat /\ tasks'[t].rv \in Nat /\ tasks[t].rv <= tasks'[t].rv
      /\ tasks'[t].uid \in Nat
  BY <1>1, <1>3 DEF TaskVersion
<1>5. taskWatch'[t] \subseteq taskWatch[t] \cup {tasks'[t]}
      /\ (taskWatch'[t] \subseteq taskWatch[t] \/ tasks'[t] # tasks[t])
  <2>1. CASE TasksKept
    BY <2>1 DEF TasksKept
  <2>2. ASSUME NEW u \in Tasks, NEW v \in TaskVersion, TaskWrite(u, v)
        PROVE  taskWatch'[t] \subseteq taskWatch[t] \cup {tasks'[t]}
               /\ (taskWatch'[t] \subseteq taskWatch[t] \/ tasks'[t] # tasks[t])
    <3>1. CASE u # t
      BY <2>2, <3>1 DEF TaskWrite, IInv, Typed, TypeOK
    <3>2. CASE u = t
      <4>1. tasks'[t] = v /\ v.rv = tasks[t].rv + 1 /\ taskWatch'[t] = taskWatch[t] \cup {v}
        BY <2>2, <3>2 DEF TaskWrite, IInv, Typed, TypeOK
      <4>2. v # tasks[t]
        BY <1>4, <4>1
      <4> QED BY <4>1, <4>2
    <3> QED BY <3>1, <3>2
  <2> QED BY <2>1, <2>2, StepEffect DEF ApiStep
<1>6. TaskVersions(t)' \subseteq TaskVersions(t) \cup {tasks'[t]}
  <2>1. taskCache'[t] \in taskWatch[t] \cup {taskCache[t], tasks[t]}
    BY StepEffect DEF CacheStep
  <2> QED BY <1>5, <2>1 DEF TaskVersions
<1>7. ASSUME NEW u \in TaskVersions(t)', NEW v \in TaskVersions(t)' PROVE Follows(u, v)
  <2>1. CASE u \in TaskVersions(t) /\ v \in TaskVersions(t)
    BY <2>1 DEF TaskHistory
  <2>2. CASE u \in TaskVersions(t) /\ v = tasks'[t]
    <3>1. Follows(u, tasks[t])
      BY <1>1, <2>2 DEF TaskHistory
    <3> QED BY <1>1, <1>2, <1>3, <1>4, <2>2, <3>1, FollowsChain
  <2>3. CASE u = tasks'[t] /\ v \in TaskVersions(t) /\ tasks'[t] # tasks[t]
    <3>1. ~(u.rv <= v.rv)
      BY <1>2, <1>3, <1>4, <2>3
    <3> QED BY <3>1 DEF Follows
  <2>4. CASE u = tasks'[t] /\ v = tasks'[t]
    BY <1>4, <2>4 DEF Follows
  <2> QED BY <1>1, <1>6, <2>1, <2>2, <2>3, <2>4
<1>8. ASSUME NEW v \in taskWatch'[t] PROVE v.rv > taskCache'[t].rv
  <2>1. CASE taskCache'[t] = taskCache[t] /\ v \in taskWatch[t]
    BY <2>1 DEF TaskHistory
  <2>2. CASE taskCache'[t] = taskCache[t] /\ v = tasks'[t] /\ tasks'[t] # tasks[t]
    BY <1>2, <1>3, <1>4, <2>2 DEF TaskVersions
  <2>3. CASE taskWatch'[t] = LaterThan(taskCache'[t], taskWatch[t])
    BY <2>3 DEF LaterThan
  <2>4. CASE taskWatch'[t] = {}
    BY <2>4
  <2> QED BY <1>5, <2>1, <2>2, <2>3, <2>4, CachesMove DEF TaskCacheMove
<1> QED BY <1>7, <1>8 DEF TaskHistory

LEMMA PodHistoryKept ==
  ASSUME IInv, [Next]_vars, NEW p \in Pods, PodHistory(p)
  PROVE  PodHistory(p)'
<1>1. /\ PodVersions(p) \subseteq PodVersion /\ pods[p] \in PodVersion
      /\ pods'[p] \in PodVersion /\ pods[p] \in PodVersions(p)
  BY VersionTypes, TypedStep DEF IInv, Typed, TypeOK, PodVersions
<1>2. \A v \in PodVersions(p) : v.rv \in Nat /\ v.rv <= pods[p].rv
  BY <1>1 DEF PodVersion, PodHistory
<1>3. /\ pods'[p] = pods[p] \/ pods'[p].rv = pods[p].rv + 1
      /\ PodFollows(pods[p], pods'[p])
  BY NextPodVersion
<1>4. pods[p].rv \in Nat /\ pods'[p].rv \in Nat /\ pods[p].rv <= pods'[p].rv
  BY <1>1, <1>3 DEF PodVersion
<1>5. podWatch'[p] \subseteq podWatch[p] \cup {pods'[p]}
      /\ (podWatch'[p] \subseteq podWatch[p] \/ pods'[p] # pods[p])
  <2>1. CASE PodsKept
    BY <2>1 DEF PodsKept
  <2>2. ASSUME NEW q \in Pods, NEW v \in PodVersion, PodWrite(q, v)
        PROVE  podWatch'[p] \subseteq podWatch[p] \cup {pods'[p]}
               /\ (podWatch'[p] \subseteq podWatch[p] \/ pods'[p] # pods[p])
    <3>1. CASE q # p
      BY <2>2, <3>1 DEF PodWrite, IInv, Typed, TypeOK
    <3>2. CASE q = p
      <4>1. pods'[p] = v /\ v.rv = pods[p].rv + 1 /\ podWatch'[p] = podWatch[p] \cup {v}
        BY <2>2, <3>2 DEF PodWrite, IInv, Typed, TypeOK
      <4>2. v # pods[p]
        BY <1>4, <4>1
      <4> QED BY <4>1, <4>2
    <3> QED BY <3>1, <3>2
  <2> QED BY <2>1, <2>2, StepEffect DEF ApiStep
<1>6. PodVersions(p)' \subseteq PodVersions(p) \cup {pods'[p]}
  <2>1. podCache'[p] \in podWatch[p] \cup {podCache[p], pods[p]}
    BY StepEffect DEF CacheStep
  <2> QED BY <1>5, <2>1 DEF PodVersions
<1>7. ASSUME NEW u \in PodVersions(p)', NEW v \in PodVersions(p)' PROVE PodFollows(u, v)
  <2>1. CASE u \in PodVersions(p) /\ v \in PodVersions(p)
    BY <2>1 DEF PodHistory
  <2>2. CASE u \in PodVersions(p) /\ v = pods'[p]
    <3>1. PodFollows(u, pods[p])
      BY <1>1, <2>2 DEF PodHistory
    <3> QED BY <1>1, <1>2, <1>3, <1>4, <2>2, <3>1, PodFollowsChain
  <2>3. CASE u = pods'[p] /\ v \in PodVersions(p) /\ pods'[p] # pods[p]
    <3>1. ~(u.rv <= v.rv)
      BY <1>2, <1>3, <1>4, <2>3
    <3> QED BY <3>1 DEF PodFollows
  <2>4. CASE u = pods'[p] /\ v = pods'[p]
    BY <2>4 DEF PodFollows
  <2> QED BY <1>1, <1>6, <2>1, <2>2, <2>3, <2>4
<1>8. ASSUME NEW v \in podWatch'[p] PROVE v.rv > podCache'[p].rv
  <2>1. CASE podCache'[p] = podCache[p] /\ v \in podWatch[p]
    BY <2>1 DEF PodHistory
  <2>2. CASE podCache'[p] = podCache[p] /\ v = pods'[p] /\ pods'[p] # pods[p]
    BY <1>2, <1>3, <1>4, <2>2 DEF PodVersions
  <2>3. CASE podWatch'[p] = LaterThan(podCache'[p], podWatch[p])
    BY <2>3 DEF LaterThan
  <2>4. CASE podWatch'[p] = {}
    BY <2>4
  <2> QED BY <1>5, <2>1, <2>2, <2>3, <2>4, CachesMove DEF PodCacheMove
<1>9. \A v \in PodVersions(p)' : v.rv <= pods'[p].rv
  BY <1>2, <1>4, <1>6
<1> QED BY <1>7, <1>8, <1>9 DEF PodHistory

(* The cache never goes back, and within one incarnation of a Task it      *)
(* keeps the binding.                                                      *)
LEMMA CacheGoesForward ==
  ASSUME IInv, [Next]_vars, NEW t \in Tasks, TaskHistory(t)
  PROVE  /\ taskCache'[t] \in TaskVersions(t)
         /\ taskCache[t].rv <= taskCache'[t].rv /\ taskCache'[t].rv <= tasks[t].rv
         /\ Follows(taskCache[t], taskCache'[t])
<1>1. /\ taskCache'[t] \in TaskVersions(t) /\ taskCache[t] \in TaskVersions(t)
      /\ \A v \in TaskVersions(t) : v \in TaskVersion /\ v.rv \in Nat /\ v.rv <= tasks[t].rv
  <2>1. /\ TaskVersions(t) \subseteq TaskVersion
        /\ taskCache'[t] \in taskWatch[t] \cup {taskCache[t], tasks[t]}
    BY VersionTypes, StepEffect DEF IInv, CacheStep
  <2> QED BY <2>1 DEF TaskVersions, TaskVersion, IInv, TaskCopies, OldVersion
<1>2. taskCache[t].rv <= taskCache'[t].rv
  BY <1>1 DEF TaskVersions, TaskHistory
<1> QED BY <1>1, <1>2 DEF TaskHistory

LEMMA PodStaysGone ==
  ASSUME IInv, [Next]_vars, NEW p \in Pods, PodHistory(p), Gone(podCache[p])
  PROVE  Gone(podCache'[p])
<1>1. podCache'[p] \in PodVersions(p) /\ podCache[p] \in PodVersions(p)
  BY StepEffect DEF CacheStep, PodVersions
<1>2. \A v \in PodVersions(p) : v.rv \in Nat
  BY VersionTypes DEF IInv, PodVersion
<1>3. podCache[p].rv <= podCache'[p].rv
  BY <1>1, <1>2 DEF PodVersions, PodHistory
<1> QED BY <1>1, <1>3 DEF PodHistory, PodFollows

-----------------------------------------------------------------------------
(* What one step may do to a worker.                                       *)

Early == {"getCluster", "getInput", "listPods", "patch"}

(* It holds no copy afterwards, has just read one from the cache, or keeps *)
(* the copy it held.                                                       *)
WorkerMove(w) ==
  \/ pc'[w] \notin Holding
  \/ /\ pc[w] = "getTask" /\ pc'[w] = "getCluster"
     /\ key'[w] = key[w] /\ seen'[w] = taskCache[key[w]]
  \/ /\ pc[w] \in Holding /\ key'[w] = key[w] /\ seen'[w] = seen[w]
     /\ pc'[w] \in Early => pc[w] \in Early
     /\ pc'[w] = "markFinished" =>
          \/ pc[w] = "markFinished"
          \/ pc[w] = "getPod" /\ FoundEnded(podCache[seen[w].podName], key[w])

LEMMA OwnMove == ASSUME Typed, NEW w \in Workers, Worker(w) PROVE WorkerMove(w)
<1> USE DEF WorkerMove, Holding, Early, Goto
<1>1. /\ pc \in [Workers -> Steps] /\ key \in [Workers -> Tasks \cup {NoTask}]
      /\ seen \in [Workers -> TaskVersion]
  BY DEF Typed, TypeOK
<1>2. CASE GetWork(w) \/ FinishWork(w) \/ CallFails(w) \/ MarkRunning(w) \/ MarkFinished(w)
  BY <1>1, <1>2 DEF GetWork, FinishWork, CallFails, MarkRunning, MarkFinished
<1>3. CASE GetTask(w)
  BY <1>1, <1>3 DEF GetTask
<1>4. CASE GetCluster(w)
  BY <1>1, <1>4 DEF GetCluster
<1>5. CASE GetInput(w)
  BY <1>1, <1>5 DEF GetInput
<1>6. CASE GetPod(w)
  BY <1>1, <1>6 DEF GetPod
<1>7. CASE ListPods(w)
  BY <1>1, <1>7 DEF ListPods
<1>8. CASE PatchPod(w)
  BY <1>1, <1>8 DEF PatchPod
<1> QED BY <1>2, <1>3, <1>4, <1>5, <1>6, <1>7, <1>8 DEF Worker, SyncHandler

LEMMA WorkersMove == ASSUME IInv, [Next]_vars, NEW w \in Workers PROVE WorkerMove(w)
<1>1. ASSUME UNCHANGED workerVars PROVE WorkerMove(w)
  BY <1>1 DEF WorkerMove, workerVars
<1>2. CASE UNCHANGED vars
  BY <1>1, <1>2 DEF vars
<1>3. CASE Environment \/ Informers
  BY <1>1, <1>3, ApiStepEnvironment, ApiStepInformers DEF IInv
<1>4. CASE (\E n \in notify : Handle(n)) \/ (\E t \in retry : RetryDue(t))
  BY <1>1, <1>4 DEF Handle, RetryDue
<1>5. ASSUME NEW u \in Workers, Worker(u) PROVE WorkerMove(w)
  BY <1>5, OwnMove, OthersStay DEF IInv, WorkerMove
<1>6. CASE Restart
  BY <1>6 DEF Restart, Filled, Waited, WorkerMove, Holding
<1> QED BY <1>2, <1>3, <1>4, <1>5, <1>6 DEF Next

-----------------------------------------------------------------------------
(* The invariant is kept.                                                  *)

LEMMA OneWorkerPerKeyKept == ASSUME IInv, OneWorkerPerKey, [Next]_vars PROVE OneWorkerPerKey'
<1>1. ASSUME UNCHANGED workerVars PROVE OneWorkerPerKey'
  BY <1>1 DEF OneWorkerPerKey, workerVars
<1>2. CASE UNCHANGED vars
  BY <1>1, <1>2 DEF vars
<1>3. CASE Environment \/ Informers
  BY <1>1, <1>3, ApiStepEnvironment, ApiStepInformers DEF IInv
<1>4. CASE (\E n \in notify : Handle(n)) \/ (\E t \in retry : RetryDue(t))
  BY <1>1, <1>4 DEF Handle, RetryDue
<1>5. ASSUME NEW u \in Workers, Worker(u) PROVE OneWorkerPerKey'
  <2>1. \A w \in Workers : w # u => pc'[w] = pc[w] /\ key'[w] = key[w]
    BY <1>5, OthersStay DEF IInv
  <2>2. pc \in [Workers -> Steps] /\ key \in [Workers -> Tasks \cup {NoTask}]
    BY DEF IInv, Typed, TypeOK
  <2>3. \/ pc'[u] = "idle"
        \/ pc[u] # "idle" /\ key'[u] = key[u]
        \/ \A w \in Workers : pc[w] # "idle" => key'[u] # key[w]
    <3>1. CASE GetWork(u)
      BY <2>2, <3>1 DEF GetWork, Processing
    <3>2. CASE FinishWork(u)
      BY <2>2, <3>2 DEF FinishWork, Goto
    <3>3. CASE SyncHandler(u) \/ CallFails(u)
      BY <3>3 DEF SyncHandler, CallFails, GetTask, GetCluster, GetInput, GetPod, ListPods,
            PatchPod, MarkRunning, MarkFinished
    <3> QED BY <1>5, <3>1, <3>2, <3>3 DEF Worker
  <2> QED BY <2>1, <2>3 DEF OneWorkerPerKey
<1>6. CASE Restart
  BY <1>6 DEF Restart, OneWorkerPerKey
<1> QED BY <1>2, <1>3, <1>4, <1>5, <1>6 DEF Next

LEMMA CopyReadKept ==
  ASSUME IInv, HInv, [Next]_vars, NEW w \in Workers PROVE CopyRead(w)'
<1> SUFFICES ASSUME pc'[w] \in Holding
             PROVE  Follows(seen'[w], tasks'[key'[w]]) /\ seen'[w].rv <= taskCache'[key'[w]].rv
  BY DEF CopyRead
<1> DEFINE t == key[w]
<1>1. pc[w] # "idle" /\ key'[w] = t
  BY WorkersMove DEF WorkerMove, Holding
<1>2. t \in Tasks
  BY <1>1 DEF IInv, Typed, Busy
<1>3. /\ Follows(seen'[w], tasks[t]) /\ seen'[w].rv <= taskCache[t].rv
      /\ seen'[w] \in TaskVersion
  <2>1. CASE seen'[w] = taskCache[t]
    <3>1. TaskHistory(t) /\ taskCache[t] \in TaskVersion
      BY <1>2, VersionTypes DEF HInv, IInv
    <3> QED BY <2>1, <3>1 DEF TaskHistory, TaskVersions, TaskVersion
  <2>2. CASE pc[w] \in Holding /\ seen'[w] = seen[w]
    BY <1>2, <2>2 DEF HInv, CopyRead, IInv, Typed, TypeOK
  <2> QED BY <2>1, <2>2, WorkersMove DEF WorkerMove
<1>4. taskCache[t].rv <= taskCache'[t].rv /\ taskCache'[t].rv <= tasks[t].rv
  BY <1>2, CacheGoesForward DEF HInv
<1>5. /\ tasks[t] \in TaskVersion /\ tasks'[t] \in TaskVersion
      /\ taskCache[t] \in TaskVersion /\ taskCache'[t] \in TaskVersion
  BY <1>2, TypedStep DEF IInv, Typed, TypeOK
<1>6. /\ tasks[t].rv \in Nat /\ tasks'[t].rv \in Nat /\ seen'[w].rv \in Nat
      /\ taskCache[t].rv \in Nat /\ taskCache'[t].rv \in Nat
  BY <1>3, <1>5 DEF TaskVersion
<1>7. tasks[t].rv <= tasks'[t].rv /\ Follows(tasks[t], tasks'[t])
  BY <1>2, <1>6, NextTaskVersion
<1>8. Follows(seen'[w], tasks'[t])
  BY <1>3, <1>4, <1>5, <1>6, <1>7, FollowsChain
<1> QED BY <1>1, <1>3, <1>4, <1>6, <1>8

LEMMA BindingSeenKept == ASSUME IInv, HInv, [Next]_vars PROVE BindingSeen'
<1> SUFFICES ASSUME NEW t \in Tasks, tasks'[t].podName # NoPod
             PROVE  /\ taskCache'[t].uid = tasks'[t].uid
                    /\ \A w \in Workers : key'[w] = t /\ pc'[w] \in Holding =>
                                            seen'[w].uid = tasks'[t].uid
  BY DEF BindingSeen
<1>1. TaskHistory(t)
  BY DEF HInv
<1>2. tasks'[t].uid = tasks[t].uid
  BY StatusStep DEF Created, Deleted, Edited, MadeRunning, MadeFinished, SameObject
<1>3. /\ taskCache[t].uid = tasks[t].uid
      /\ \A w \in Workers : key[w] = t /\ pc[w] \in Holding => seen[w].uid = tasks[t].uid
  <2>1. CASE tasks[t].podName # NoPod
    BY <2>1 DEF HInv, BindingSeen
  <2>2. CASE MadeRunning(t, tasks'[t])
    <3>1. PICK u \in Workers : pc[u] = "markRunning" /\ key[u] = t /\ seen[u] = tasks[t]
      BY <2>2 DEF MadeRunning
    <3>2. tasks[t].rv <= taskCache[t].rv
      BY <3>1 DEF HInv, CopyRead, Holding
    <3>3. taskCache[t] = tasks[t]
      <4>1. OldVersion(taskCache[t], tasks[t]) /\ tasks[t] \in TaskVersion
            /\ taskCache[t] \in TaskVersion
        BY VersionTypes DEF IInv, TaskCopies
      <4> QED BY <3>2, <4>1 DEF OldVersion, TaskVersion
    <3>4. \A w \in Workers : key[w] = t /\ pc[w] \in Holding => w = u
      BY <3>1 DEF HInv, OneWorkerPerKey, Holding
    <3> QED BY <3>1, <3>3, <3>4
  <2> QED BY <2>1, <2>2, StatusStep DEF Created, Deleted, Edited, MadeFinished
<1>4. taskCache'[t].uid = tasks[t].uid
  <2>1. /\ taskCache'[t] \in TaskVersions(t) /\ taskCache'[t].rv <= tasks[t].rv
        /\ taskCache[t].rv <= taskCache'[t].rv /\ Follows(taskCache[t], taskCache'[t])
    BY <1>1, CacheGoesForward
  <2>2. Follows(taskCache'[t], tasks[t])
    BY <1>1, <2>1 DEF TaskHistory, TaskVersions
  <2>3. taskCache'[t].uid \in Nat /\ tasks[t].uid \in Nat
    BY <2>1, VersionTypes DEF IInv, TaskVersion
  <2> QED BY <1>3, <2>1, <2>2, <2>3 DEF Follows
<1>5. ASSUME NEW w \in Workers, key'[w] = t, pc'[w] \in Holding PROVE seen'[w].uid = tasks[t].uid
  BY <1>3, <1>5, WorkersMove DEF WorkerMove
<1> QED BY <1>2, <1>4, <1>5

LEMMA HInvInit == Init => HInv
<1> SUFFICES ASSUME Init PROVE HInv
  OBVIOUS
<1>1. \A t \in Tasks : TaskHistory(t)
  BY DEF Init, TaskHistory, TaskVersions, Follows, NoTaskYet
<1>2. ASSUME NEW p \in Pods PROVE PodHistory(p)
  <2>1. PodVersions(p) = {NoPodYet} /\ podWatch[p] = {} /\ pods[p] = NoPodYet
    BY DEF Init, PodVersions
  <2>2. NoPodYet.rv = 0
    BY DEF NoPodYet
  <2> QED BY <2>1, <2>2 DEF PodHistory, PodFollows
<1> QED BY <1>1, <1>2 DEF Init, HInv, OneWorkerPerKey, CopyRead, Holding, BindingSeen, NoTaskYet

LEMMA HInvStep == IInv /\ HInv /\ [Next]_vars => HInv'
<1> SUFFICES ASSUME IInv, HInv, [Next]_vars PROVE HInv'
  OBVIOUS
<1>1. (\A t \in Tasks : TaskHistory(t)') /\ (\A p \in Pods : PodHistory(p)')
  BY TaskHistoryKept, PodHistoryKept DEF HInv
<1>2. OneWorkerPerKey'
  BY OneWorkerPerKeyKept DEF HInv
<1> QED BY <1>1, <1>2, CopyReadKept, BindingSeenKept DEF HInv

(* All the versions of an object that are around at one time are of one    *)
(* history, and a binding is never ahead of what its workers have read.    *)
THEOREM HistoryInvariance == Spec => [](IInv /\ HInv)
BY IInvInit, IInvStep, HInvInit, HInvStep, PTL DEF Spec

-----------------------------------------------------------------------------
(* The action properties.                                                  *)

(* A container is added only by a worker whose copy has no Pod.            *)
LEMMA ContainerAddedBy ==
  ASSUME IInv, [Next]_vars, NEW p \in Pods, NEW t \in Tasks, pods'[p].ec[t] # pods[p].ec[t]
  PROVE  \E w \in Workers : pc[w] = "patch" /\ key[w] = t /\ seen[w].podName = NoPod
<1>1. PICK q \in Pods, v \in PodVersion : PodWrite(q, v)
  BY StepEffect DEF ApiStep, PodsKept
<1>2. q = p /\ pods'[p] = v
  BY <1>1 DEF PodWrite, IInv, Typed, TypeOK
<1>3. ContainerAdded(p, v)
  BY <1>1, <1>2 DEF PodWrite, Conditions, ContainerEnded
<1>4. PICK w \in Workers : /\ pc[w] = "patch"
                           /\ v.ec = [pods[p].ec EXCEPT ![key[w]] = seen[w].uid]
  BY <1>3 DEF ContainerAdded
<1>5. pods[p].ec \in [Tasks -> Nat]
  BY DEF IInv, Typed, TypeOK, PodVersion
<1>6. key[w] = t
  BY <1>2, <1>4, <1>5
<1>7. seen[w].podName = NoPod
  BY <1>4 DEF IInv, WorkerInv, Unassigned
<1> QED BY <1>4, <1>6, <1>7

(* Once the informer shows the binding and no worker holds an unbound      *)
(* copy, no container is added for the Task while that incarnation lives,  *)
(* and this stays so through conflicts, resyncs, restarts and relists.     *)
THEOREM SettledOnce == Spec => SettledIsNotLaunchedAgain
<1> DEFINE Once(t) ==
      Settled(t) =>
        /\ Settled(t)' \/ taskCache'[t].uid # taskCache[t].uid \/ ~taskCache'[t].exists
        /\ \A p \in Pods : pods'[p].ec[t] = pods[p].ec[t]
<1>1. ASSUME IInv, HInv, [Next]_vars, NEW t \in Tasks PROVE Once(t)
  <2> SUFFICES ASSUME Settled(t) PROVE Once(t)
    OBVIOUS
  <2>1. \A p \in Pods : pods'[p].ec[t] = pods[p].ec[t]
    BY <1>1, ContainerAddedBy DEF Settled
  <2>2. ASSUME taskCache'[t].uid = taskCache[t].uid, taskCache'[t].exists PROVE Settled(t)'
    <3>1. taskCache'[t].podName # NoPod
      BY <1>1, <2>2, CacheGoesForward DEF HInv, Follows, Settled
    <3>2. ASSUME NEW w \in Workers, key'[w] = t, pc'[w] \in Early PROVE seen'[w].podName # NoPod
      BY <1>1, <3>2, WorkersMove DEF WorkerMove, Settled, Early, Holding
    <3> QED BY <2>2, <3>1, <3>2 DEF Settled, Early
  <2> QED BY <2>1, <2>2
<1>2. IInv /\ HInv /\ [Next]_vars => [\A t \in Tasks : Once(t)]_vars
  BY <1>1
<1> QED BY <1>2, HistoryInvariance, PTL DEF Spec, SettledIsNotLaunchedAgain

(* Between a worker's patch and its status update no other worker adds a   *)
(* container for that Task, for any number of workers, because a key is    *)
(* given to one of them at a time.                                         *)
THEOREM LaunchedOneByOne == Spec => OneLaunchAtATime
<1> DEFINE Alone(w, t) ==
      key[w] = t /\ pc[w] = "markRunning" => \A p \in Pods : pods'[p].ec[t] = pods[p].ec[t]
<1>1. ASSUME IInv, HInv, [Next]_vars, NEW w \in Workers, NEW t \in Tasks PROVE Alone(w, t)
  <2> SUFFICES ASSUME key[w] = t, pc[w] = "markRunning", NEW p \in Pods,
                      pods'[p].ec[t] # pods[p].ec[t]
               PROVE  FALSE
    OBVIOUS
  <2>1. PICK u \in Workers : pc[u] = "patch" /\ key[u] = t
    BY <1>1, ContainerAddedBy
  <2> QED BY <1>1, <2>1 DEF HInv, OneWorkerPerKey
<1>2. IInv /\ HInv /\ [Next]_vars => [\A w \in Workers, t \in Tasks : Alone(w, t)]_vars
  BY <1>1
<1> QED BY <1>2, HistoryInvariance, PTL DEF Spec, OneLaunchAtATime

(* A Running Task whose Pod is seen to be gone stays as it is until it is  *)
(* deleted: nobody finishes it and nobody gives it another Pod.            *)
THEOREM OrphansStay == Spec => OrphanStaysOrphan
<1> DEFINE Stays(t) == Orphaned(t) => Orphaned(t)' \/ ~tasks'[t].exists
<1>1. ASSUME IInv, HInv, [Next]_vars, NEW t \in Tasks PROVE Stays(t)
  <2> SUFFICES ASSUME Orphaned(t), tasks'[t].exists PROVE Orphaned(t)'
    OBVIOUS
  <2> DEFINE p == tasks[t].podName
  <2>1. p \in Pods
    BY <1>1 DEF Orphaned, IInv, TaskCopies, WellFormed, Typed, TypeOK, TaskVersion
  <2>2. ~MadeRunning(t, tasks'[t])
    BY <1>1 DEF MadeRunning, IInv, WorkerInv, Unassigned, TaskCopies, WellFormed, Orphaned
  <2>3. ~MadeFinished(t, tasks'[t])
    BY DEF MadeFinished, Orphaned
  <2>4. tasks'[t].state = "Running" /\ tasks'[t].podName = p
    BY <1>1, <2>2, <2>3, StatusStep DEF Created, Deleted, Edited, Orphaned
  <2>5. Gone(podCache'[p])
    BY <1>1, <2>1, PodStaysGone DEF HInv, Orphaned, Gone
  <2>6. ASSUME NEW w \in Workers, key'[w] = t, pc'[w] = "markFinished" PROVE FALSE
    <3>1. pc[w] = "getPod" /\ key[w] = t /\ podCache[seen[w].podName].exists
      BY <1>1, <2>6, WorkersMove DEF WorkerMove, Holding, Orphaned, FoundEnded
    <3>2. seen[w].podName \in Pods /\ seen[w].uid = tasks[t].uid /\ Follows(seen[w], tasks[t])
      BY <1>1, <2>1, <3>1, ConstantsAssumption DEF IInv, WorkerInv, Bound, HInv, BindingSeen, CopyRead, Holding
    <3>3. seen[w].rv <= tasks[t].rv
      BY <1>1, <3>1 DEF IInv, WorkerInv, CopyHeld, OldVersion, Holding
    <3>4. tasks[t].podName = seen[w].podName
      BY <3>2, <3>3, ConstantsAssumption DEF Follows, Orphaned
    <3> QED BY <3>1, <3>4 DEF Orphaned
  <2> QED BY <2>4, <2>5, <2>6 DEF Orphaned, Gone
<1>2. IInv /\ HInv /\ [Next]_vars => [\A t \in Tasks : Stays(t)]_vars
  BY <1>1
<1> QED BY <1>2, HistoryInvariance, PTL DEF Spec, OrphanStaysOrphan

-----------------------------------------------------------------------------
(* No wake-up is lost.                                                     *)

LEMMA StandingSeenKept == ASSUME Typed, StandingSeen, [Next]_vars PROVE StandingSeen'
<1> SUFFICES ASSUME NEW c \in Standing
             PROVE  clusterSeen'[c] >= 1 /\ clusterSeen'[c] <= clusterRev'[c]
  BY DEF StandingSeen
<1>1. /\ c \in Clusters /\ clusterSeen[c] \in Nat /\ clusterRev[c] \in Nat
      /\ clusterSeen[c] >= 1 /\ clusterSeen[c] <= clusterRev[c]
      /\ clusterRev \in [Clusters -> Nat] /\ clusterSeen \in [Clusters -> Nat]
  BY ConstantsAssumption DEF Typed, TypeOK, StandingSeen
<1>2. CASE UNCHANGED <<clusterRev, clusterSeen>>
  BY <1>1, <1>2
<1>3. ASSUME NEW d \in Clusters, ToggleCluster(d)
      PROVE  clusterSeen'[c] >= 1 /\ clusterSeen'[c] <= clusterRev'[c]
  BY <1>1, <1>3 DEF ToggleCluster, informerVars
<1>4. ASSUME NEW d \in Clusters, SeeCluster(d)
      PROVE  clusterSeen'[c] >= 1 /\ clusterSeen'[c] <= clusterRev'[c]
  BY <1>1, <1>4 DEF SeeCluster, apiVars
<1>5. CASE Restart
  BY <1>1, <1>5 DEF Restart, Filled, Waited, apiVars
<1>6. CASE UNCHANGED vars
  BY <1>2, <1>6 DEF vars, apiVars, informerVars
<1>7. CASE Environment
  BY <1>2, <1>3, <1>7 DEF Environment, CreateTask, DeleteTask, EditTask, ToggleObject, CreatePod,
        PodBecomesReady, PodBecomesUnready, DeletePod, ContainerTerminates, informerVars
<1>8. CASE Informers
  BY <1>2, <1>4, <1>8 DEF Informers, SeeTask, Resync, SeePod, SeeObject, apiVars
<1>9. CASE (\E n \in notify : Handle(n)) \/ (\E t \in retry : RetryDue(t))
  BY <1>2, <1>9 DEF Handle, RetryDue, apiVars, informerVars
<1>10. CASE \E w \in Workers : Worker(w)
  BY <1>2, <1>10 DEF Worker, SyncHandler, GetWork, GetTask, GetCluster, GetInput, GetPod, ListPods,
        PatchPod, MarkRunning, MarkFinished, CallFails, FinishWork, apiVars, informerVars
<1> QED BY <1>5, <1>6, <1>7, <1>8, <1>9, <1>10 DEF Next

(* What an informer sees of a Task or of its input is notified, so a Task  *)
(* that becomes schedulable has a notification on its way.                 *)
LEMMA AttendedInformers ==
  ASSUME Typed, Informers, NEW t \in Tasks,
         Schedulable(t) => Attended(t), Schedulable(t)'
  PROVE  Attended(t)'
<1> USE DEF apiVars, queueVars, workerVars
<1>1. UNCHANGED <<dirty, retry, pc, key, seen>>
  BY DEF Informers, SeeTask, Resync, SeePod, SeeObject, SeeCluster
<1>2. notify \subseteq notify'
  BY DEF Informers, SeeTask, Resync, SeePod, SeeObject, SeeCluster
<1>3. ASSUME Schedulable(t) PROVE Attended(t)'
  BY <1>1, <1>2, <1>3 DEF Attended, Attends
<1>4. ASSUME NEW u \in Tasks, SeeTask(u) PROVE Attended(t)'
  <2>1. CASE u = t
    <3>1. <<"Task", t>> \in notify'
      BY <1>4, <2>1 DEF SeeTask, Schedulable, Typed, TypeOK
    <3> QED BY <3>1 DEF Attended
  <2>2. CASE u # t
    <3>1. Schedulable(t)
      BY <1>4, <2>2 DEF SeeTask, Schedulable, InputVisible, Typed, TypeOK
    <3> QED BY <1>3, <3>1
  <2> QED BY <2>1, <2>2
<1>5. ASSUME NEW o \in Objects, SeeObject(o) PROVE Attended(t)'
  <2>1. CASE InputOf[t] = o
    <3>1. <<"TaskObject", o>> \in notify'
      BY <1>5, <2>1, ConstantsAssumption DEF SeeObject, Schedulable, InputVisible, Typed, TypeOK
    <3> QED BY <2>1, <3>1 DEF Attended
  <2>2. CASE InputOf[t] # o
    <3>1. Schedulable(t)
      BY <1>5, <2>2, ConstantsAssumption
      DEF SeeObject, Schedulable, InputVisible, Typed, TypeOK
    <3> QED BY <1>3, <3>1
  <2> QED BY <2>1, <2>2
<1>6. CASE \/ \E u \in Tasks : Resync(u)
           \/ \E p \in Pods : SeePod(p)
           \/ \E c \in Clusters : SeeCluster(c)
  <2>1. Schedulable(t)
    BY <1>6 DEF Resync, SeePod, SeeCluster, Schedulable, InputVisible
  <2> QED BY <1>3, <2>1
<1> QED BY <1>4, <1>5, <1>6 DEF Informers

(* A notification handled, and a back-off that ends, put the Task in the   *)
(* queue.                                                                  *)
LEMMA AttendedQueue ==
  ASSUME Typed, (\E n \in notify : Handle(n)) \/ (\E u \in retry : RetryDue(u)),
         NEW t \in Tasks, Schedulable(t) => Attended(t), Schedulable(t)'
  PROVE  Attended(t)'
<1> USE DEF apiVars, informerVars, workerVars
<1>1. /\ UNCHANGED <<taskCache, taskWatch, objSeen, clusterRev, pc, key, seen>>
      /\ dirty \subseteq dirty'
  BY DEF Handle, RetryDue
<1>2. Schedulable(t) /\ Attended(t)
  BY <1>1 DEF Schedulable, InputVisible
<1>3. CASE \E w \in Workers : Attends(w, t)
  BY <1>1, <1>3 DEF Attended, Attends
<1>4. ASSUME NEW n \in notify, Handle(n) PROVE Attended(t)'
  <2>1. CASE t \in dirty \cup retry
    BY <1>1, <1>4, <2>1 DEF Attended, Handle
  <2>2. CASE notify \cap {<<"Task", t>>, <<"TaskObject", InputOf[t]>>} # {}
    <3>1. CASE n \in {<<"Task", t>>, <<"TaskObject", InputOf[t]>>}
      <4>1. t \in EnqueuedBy(n)
        BY <1>2, <3>1 DEF EnqueuedBy, Schedulable
      <4> QED BY <1>4, <4>1 DEF Handle, Attended
    <3>2. CASE n \notin {<<"Task", t>>, <<"TaskObject", InputOf[t]>>}
      BY <1>4, <2>2, <3>2 DEF Handle, Attended
    <3> QED BY <3>1, <3>2
  <2> QED BY <1>2, <1>3, <2>1, <2>2 DEF Attended
<1>5. ASSUME NEW u \in retry, RetryDue(u) PROVE Attended(t)'
  <2>1. notify' = notify /\ (t \in dirty \cup retry => t \in dirty' \cup retry')
    BY <1>5 DEF RetryDue
  <2> QED BY <1>2, <1>3, <2>1 DEF Attended
<1> QED BY <1>4, <1>5

LEMMA WatchGrows ==
  ASSUME Typed, NEW u \in Tasks, NEW v, WriteTask(u, v), NEW t \in Tasks
  PROVE  taskWatch[t] \subseteq taskWatch'[t] /\ (u = t => taskWatch'[t] # {})
<1> DEFINE new == [v EXCEPT !.rv = tasks[u].rv + 1]
<1>1. taskWatch' = [taskWatch EXCEPT ![u] = @ \cup {new}]
  BY DEF WriteTask
<1> HIDE DEF new
<1> QED BY <1>1 DEF Typed, TypeOK

(* A worker that attends to the Task goes on to do so, hands it over to    *)
(* the rate limited queue, or binds it.                                    *)
LEMMA AttendedWorker ==
  ASSUME IInv, StandingSeen, NEW w \in Workers, Worker(w),
         NEW t \in Tasks, Schedulable(t) => Attended(t), Schedulable(t)'
  PROVE  Attended(t)'
<1> USE DEF apiVars, informerVars, queueVars, workerVars, Goto
<1>1. /\ pc \in [Workers -> Steps] /\ key \in [Workers -> Tasks \cup {NoTask}]
      /\ seen \in [Workers -> TaskVersion]
  BY DEF IInv, Typed, TypeOK
<1>2. UNCHANGED <<taskCache, objSeen, clusterRev, clusterSeen, notify>>
  BY DEF Worker, SyncHandler, GetWork, GetTask, GetCluster, GetInput, GetPod, ListPods,
     PatchPod, MarkRunning, MarkFinished, CallFails, FinishWork
<1>3. taskWatch[t] \subseteq taskWatch'[t]
  BY DEF Worker, SyncHandler, GetWork, GetTask, GetCluster, GetInput, GetPod, ListPods,
     PatchPod, MarkRunning, MarkFinished, CallFails, FinishWork, WriteRunning, WriteFinished,
     WriteTask, IInv, Typed, TypeOK
<1>4. Schedulable(t) /\ Attended(t)
  BY <1>2, <1>3 DEF Schedulable, InputVisible
<1>5. CASE notify \cap {<<"Task", t>>, <<"TaskObject", InputOf[t]>>} # {}
  BY <1>2, <1>5 DEF Attended
<1>6. ASSUME NEW v \in Workers, v # w, Attends(v, t) PROVE Attended(t)'
  BY <1>6, OthersStay DEF IInv, Attended, Attends
<1>7. CASE t \in dirty \cup retry
  <2>1. CASE GetWork(w)
    BY <1>1, <1>7, <2>1 DEF GetWork, Attended, Attends
  <2>2. CASE ~GetWork(w)
    BY <1>7, <2>2 DEF Worker, SyncHandler, GetTask, GetCluster, GetInput, GetPod, ListPods,
       PatchPod, MarkRunning, MarkFinished, CallFails, FinishWork, Requeued, Attended
  <2> QED BY <2>1, <2>2
<1>8. CASE Attends(w, t)
  <2>1. key[w] = t /\ pc[w] # "idle" /\ (pc'[w] = "err" /\ key'[w] = t => Attended(t)')
    BY <1>8 DEF Attends, Attended
  <2>2. CASE GetTask(w)
    <3>1. taskCache[t].exists /\ taskCache[t].podName = NoPod /\ taskCache[t].state # "Finished"
      BY <1>4 DEF Schedulable, IInv, TaskCopies, OldVersion, WellFormed
    <3> QED BY <1>1, <2>1, <2>2, <3>1 DEF GetTask, Attended, Attends
  <2>3. CASE GetCluster(w)
    <3>1. ClusterOf[t] \in Standing /\ clusterRev[ClusterOf[t]] = 1
      BY <1>4 DEF Schedulable
    <3>2. clusterSeen[ClusterOf[t]] = 1
      <4>1. clusterSeen[ClusterOf[t]] \in Nat
        BY ConstantsAssumption DEF IInv, Typed, TypeOK
      <4> QED BY <3>1, <4>1 DEF StandingSeen
    <3>3. Exists(clusterSeen[ClusterOf[t]])
      BY <3>2 DEF Exists
    <3> QED BY <1>1, <1>8, <2>1, <2>3, <3>3 DEF GetCluster, Attended, Attends
  <2>4. CASE GetInput(w)
    BY <1>1, <1>4, <1>8, <2>1, <2>4 DEF GetInput, Assigned, Schedulable, Attended, Attends
  <2>5. CASE GetPod(w) \/ MarkFinished(w)
    BY <1>8, <2>5 DEF GetPod, MarkFinished, Attends
  <2>6. CASE ListPods(w)
    BY <1>1, <2>1, <2>6 DEF ListPods, Attended, Attends
  <2>7. CASE PatchPod(w)
    BY <1>1, <2>1, <2>7 DEF PatchPod, Attended, Attends
  <2>8. CASE MarkRunning(w)
    <3>1. CASE Current(key[w], seen[w])
      <4>1. taskWatch'[t] # {}
        BY <2>1, <2>8, <3>1, WatchGrows DEF MarkRunning, WriteRunning, IInv
      <4> QED BY <4>1 DEF Schedulable
    <3>2. CASE ~Current(key[w], seen[w])
      BY <1>1, <2>1, <2>8, <3>2 DEF MarkRunning
    <3> QED BY <3>1, <3>2
  <2>9. CASE CallFails(w)
    BY <1>1, <2>1, <2>9 DEF CallFails
  <2>10. CASE FinishWork(w)
    BY <1>8, <2>1, <2>10 DEF FinishWork, Requeued, Attends, Attended
  <2>11. ~GetWork(w)
    BY <2>1 DEF GetWork
  <2> QED BY <2>2, <2>3, <2>4, <2>5, <2>6, <2>7, <2>8, <2>9, <2>10, <2>11 DEF Worker, SyncHandler
<1> QED BY <1>4, <1>5, <1>6, <1>7, <1>8 DEF Attended

LEMMA WInvStep == IInv /\ WInv /\ [Next]_vars => WInv'
<1> SUFFICES ASSUME IInv, WInv, [Next]_vars PROVE WInv'
  OBVIOUS
<1>1. StandingSeen'
  BY StandingSeenKept DEF IInv, WInv
<1>2. ASSUME NEW t \in Tasks, Schedulable(t)' PROVE Attended(t)'
  <2>1. Schedulable(t) => Attended(t)
    BY DEF WInv
  <2>2. CASE UNCHANGED vars
    BY <1>2, <2>1, <2>2 DEF vars, apiVars, informerVars, queueVars, workerVars, Schedulable,
       InputVisible, Attended, Attends
  <2>3. CASE Environment
    <3>1. UNCHANGED <<taskCache, objSeen, notify, queueVars, workerVars>>
      BY <2>3 DEF Environment, CreateTask, DeleteTask, EditTask, ToggleObject, ToggleCluster,
         CreatePod, PodBecomesReady, PodBecomesUnready, DeletePod, ContainerTerminates, informerVars
    <3>2. taskWatch[t] \subseteq taskWatch'[t]
      BY <2>3, WatchGrows DEF Environment, CreateTask, DeleteTask, EditTask, ToggleObject,
         ToggleCluster, CreatePod, PodBecomesReady, PodBecomesUnready, DeletePod,
         ContainerTerminates, informerVars, IInv
    <3>3. ClusterOf[t] \in Standing => clusterRev[ClusterOf[t]] = 1
      <4> SUFFICES ASSUME ClusterOf[t] \in Standing PROVE clusterRev[ClusterOf[t]] = 1
        OBVIOUS
      <4> DEFINE c == ClusterOf[t]
      <4>1. /\ c \in Clusters /\ clusterRev[c] \in Nat /\ clusterRev[c] >= 1
            /\ clusterRev \in [Clusters -> Nat]
        BY ConstantsAssumption DEF WInv, StandingSeen, IInv, Typed, TypeOK
      <4>2. clusterRev' = clusterRev \/ \E d \in Clusters : ToggleCluster(d)
        BY <2>3 DEF Environment, CreateTask, DeleteTask, EditTask, ToggleObject,
           CreatePod, PodBecomesReady, PodBecomesUnready, DeletePod, ContainerTerminates
      <4>3. clusterRev'[c] >= clusterRev[c] /\ clusterRev'[c] = 1
        BY <1>2, <4>1, <4>2 DEF ToggleCluster, Schedulable
      <4> QED BY <4>1, <4>3
    <3>4. Schedulable(t)
      BY <1>2, <3>1, <3>2, <3>3 DEF Schedulable, InputVisible
    <3> QED BY <2>1, <3>1, <3>4 DEF queueVars, workerVars, Attended, Attends
  <2>4. CASE Informers
    BY <1>2, <2>1, <2>4, AttendedInformers DEF IInv
  <2>5. CASE (\E n \in notify : Handle(n)) \/ (\E u \in retry : RetryDue(u))
    BY <1>2, <2>1, <2>5, AttendedQueue DEF IInv
  <2>6. CASE \E w \in Workers : Worker(w)
    BY <1>2, <2>1, <2>6, AttendedWorker DEF WInv
  <2>7. CASE Restart
    <3>1. taskCache'[t].exists /\ taskCache' = tasks
      BY <1>2, <2>7 DEF Schedulable, Restart, Filled, Waited
    <3>2. <<"Task", t>> \in notify'
      BY <2>7, <3>1 DEF Restart
    <3> QED BY <3>2 DEF Attended
  <2> QED BY <2>2, <2>3, <2>4, <2>5, <2>6, <2>7 DEF Next
<1> QED BY <1>1, <1>2 DEF WInv

(* A Task that could be bound is queued, waits for its back-off, is being  *)
(* worked on, or has a notification on its way, without any resync.        *)
THEOREM WakeupsAreKept == Spec => []NoLostWakeup
<1>1. Init => WInv
  <2> SUFFICES ASSUME Init PROVE WInv
    OBVIOUS
  <2>1. StandingSeen
    BY ConstantsAssumption DEF Init, StandingSeen
  <2>2. \A t \in Tasks : ~Schedulable(t)
    BY DEF Init, Schedulable, NoTaskYet
  <2> QED BY <2>1, <2>2 DEF WInv
<1>2. WInv => NoLostWakeup
  <2>1. \A w \in Workers, t \in Tasks : Attends(w, t) => t \in Processing
    BY DEF Attends, Processing
  <2> QED BY <2>1 DEF WInv, NoLostWakeup, Attended, Awake
<1> QED BY <1>1, <1>2, WInvStep, Invariance, PTL DEF Spec

============================================================================
