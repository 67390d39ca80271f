------------------------ MODULE TaskControllerProofs ------------------------
(***************************************************************************)
(* Theorems about TaskController for every value of its constants: any     *)
(* number of Tasks, Pods and workers, of failing calls and of restarts.    *)
(*                                                                         *)
(* The safety invariants are not inductive by themselves: the status of a  *)
(* Task is written from a copy read several steps earlier, so one has to   *)
(* know what the copies in caches, watches and workers may still say.      *)
(***************************************************************************)
EXTENDS TaskController, TLAPS

-----------------------------------------------------------------------------
(* The inductive invariant.                                                *)

(* What is true of a version of a Task wherever it is stored.              *)
WellFormed(v) ==
  /\ v.exists => v.uid # 0
  /\ v.podName = NoPod <=> v.state = "New"
  /\ ~v.exists => v.podName = NoPod

(* v is an old version of a Task: with the resourceVersion of the current  *)
(* one it is the current one.                                              *)
OldVersion(v, current) ==
  /\ WellFormed(v)
  /\ v.uid <= current.uid /\ v.rv <= current.rv
  /\ v.rv = current.rv => v = current

(* Once a container is in some version of a Pod it is in all later ones,   *)
(* and once it has ended there it has in all later ones.                   *)
OldPod(v, p) ==
  v.done \subseteq pods[p].done /\ ContainersOf(v) \subseteq ContainersOf(pods[p])

TaskCopies ==
  \A t \in Tasks : /\ WellFormed(tasks[t]) /\ OldVersion(taskCache[t], tasks[t])
                   /\ \A v \in taskWatch[t] : OldVersion(v, tasks[t])

PodCopies ==
  \A p \in Pods : /\ OldPod(podCache[p], p)
                  /\ \A v \in podWatch[p] : OldPod(v, p)
                  /\ \A t \in pods[p].done : pods[p].ec[t] # 0

(* Steps of syncHandler at which it holds the copy of its Task.            *)
Holding == {"getCluster", "getInput", "getPod", "listPods", "patch",
            "markRunning", "markFinished"}

Busy(w) == pc[w] # "idle" => key[w] \in Tasks

CopyHeld(w) ==
  pc[w] \in Holding =>
    /\ OldVersion(seen[w], tasks[key[w]]) /\ seen[w].exists /\ seen[w].state # "Finished"

Unassigned(w) ==
  pc[w] \in {"listPods", "patch", "markRunning"} => seen[w].podName = NoPod

Chosen(w) ==
  pc[w] \in {"patch", "markRunning"} =>
    /\ target[w] \in Pods
    /\ PodCluster[target[w]] = ClusterOf[key[w]] /\ target[w] \in MountedPods

(* A patch made from a copy that shows the container would not add it, so  *)
(* the copy must show none that is not there.                              *)
Held(w) == pc[w] = "patch" => held[w] \subseteq ContainersOf(pods[target[w]])

Patched(w) == pc[w] = "markRunning" => pods[target[w]].ec[key[w]] # 0

Bound(w) == pc[w] \in {"getPod", "markFinished"} => seen[w].podName \in Pods

Ended(w) == pc[w] = "markFinished" => key[w] \in pods[seen[w].podName].done

WorkerInv(w) ==
  /\ CopyHeld(w) /\ Unassigned(w) /\ Chosen(w) /\ Held(w) /\ Patched(w)
  /\ Bound(w) /\ Ended(w)

Typed == TypeOK /\ \A w \in Workers : Busy(w)

IInv ==
  /\ Typed
  /\ TaskCopies /\ PodCopies
  /\ \A w \in Workers : WorkerInv(w)
  /\ BindingHonoured /\ FinishedOnlyIfTerminated /\ PlacedWhereAllowed

-----------------------------------------------------------------------------
(* Types.                                                                  *)

(* The API server stores well typed versions when it is given them.        *)
LEMMA WriteTaskType ==
  ASSUME TypeOK, NEW t \in Tasks, NEW v \in TaskVersion, WriteTask(t, v)
  PROVE  /\ tasks' \in [Tasks -> TaskVersion]
         /\ taskWatch' \in [Tasks -> SUBSET TaskVersion]
<1> DEFINE new == [v EXCEPT !.rv = tasks[t].rv + 1]
<1>1. new \in TaskVersion
  <2>1. tasks[t].rv + 1 \in Nat
    BY DEF TypeOK, TaskVersion
  <2> QED BY <2>1 DEF TaskVersion
<1>2. /\ tasks' = [tasks EXCEPT ![t] = new]
      /\ taskWatch' = [taskWatch EXCEPT ![t] = @ \cup {new}]
  BY DEF WriteTask
<1> HIDE DEF new
<1>3. tasks' \in [Tasks -> TaskVersion]
  BY <1>1, <1>2 DEF TypeOK
<1>4. taskWatch' \in [Tasks -> SUBSET TaskVersion]
  BY <1>1, <1>2 DEF TypeOK
<1> QED BY <1>3, <1>4

LEMMA WritePodType ==
  ASSUME TypeOK, NEW p \in Pods, NEW v \in PodVersion, WritePod(p, v)
  PROVE  /\ pods' \in [Pods -> PodVersion]
         /\ podWatch' \in [Pods -> SUBSET PodVersion]
<1> DEFINE new == [v EXCEPT !.rv = pods[p].rv + 1]
<1>1. new \in PodVersion
  <2>1. pods[p].rv + 1 \in Nat
    BY DEF TypeOK, PodVersion
  <2> QED BY <2>1 DEF PodVersion
<1>2. /\ pods' = [pods EXCEPT ![p] = new]
      /\ podWatch' = [podWatch EXCEPT ![p] = @ \cup {new}]
  BY DEF WritePod
<1> HIDE DEF new
<1>3. pods' \in [Pods -> PodVersion]
  BY <1>1, <1>2 DEF TypeOK
<1>4. podWatch' \in [Pods -> SUBSET PodVersion]
  BY <1>1, <1>2 DEF TypeOK
<1> QED BY <1>3, <1>4

LEMMA TypedInit == Init => Typed
<1> SUFFICES ASSUME Init PROVE Typed
  OBVIOUS
<1>1. NoTaskYet \in TaskVersion
  BY DEF NoTaskYet, TaskVersion, TaskStates
<1>2. NoPodYet \in PodVersion
  BY DEF NoPodYet, PodVersion
<1>3. TypeOK
  BY <1>1, <1>2 DEF Init, TypeOK, Steps, Notification
<1>4. \A w \in Workers : Busy(w)
  BY DEF Init, Busy
<1> QED BY <1>3, <1>4 DEF Typed

(* What users, the kubelet and the ReplicaSet do keeps the types.          *)
LEMMA TypedEnvironment == ASSUME Typed, Environment PROVE Typed'
<1> USE DEF Typed, Busy, queueVars, workerVars, envVars, informerVars
<1>1. ASSUME NEW t \in Tasks, CreateTask(t) PROVE Typed'
  <2> DEFINE v == [NoTaskYet EXCEPT !.uid = tasks[t].uid + 1, !.exists = TRUE]
  <2>1. tasks[t].uid + 1 \in Nat
    BY DEF TypeOK, TaskVersion
  <2>2. v \in TaskVersion /\ WriteTask(t, v)
    BY <1>1, <2>1 DEF CreateTask, NoTaskYet, TaskVersion, TaskStates
  <2> HIDE DEF v
  <2> QED BY <1>1, <2>2, WriteTaskType DEF CreateTask, TypeOK
<1>2. ASSUME NEW t \in Tasks, DeleteTask(t) PROVE Typed'
  <2> DEFINE v == [tasks[t] EXCEPT !.exists = FALSE, !.podName = NoPod, !.state = "New"]
  <2>1. tasks[t] \in TaskVersion
    BY DEF TypeOK
  <2>2. v \in TaskVersion /\ WriteTask(t, v)
    BY <1>2, <2>1 DEF DeleteTask, TaskVersion, TaskStates
  <2> HIDE DEF v
  <2> QED BY <1>2, <2>2, WriteTaskType DEF DeleteTask, TypeOK
<1>3. ASSUME NEW t \in Tasks, EditTask(t) PROVE Typed'
  <2>1. tasks[t] \in TaskVersion /\ WriteTask(t, tasks[t])
    BY <1>3 DEF EditTask, TypeOK
  <2> QED BY <1>3, <2>1, WriteTaskType DEF EditTask, TypeOK
<1>4. ASSUME NEW o \in Objects, ToggleObject(o) PROVE Typed'
  BY <1>4 DEF ToggleObject, TypeOK
<1>5. ASSUME NEW c \in Clusters, ToggleCluster(c) PROVE Typed'
  BY <1>5 DEF ToggleCluster, TypeOK
<1>6. ASSUME NEW p \in Pods, NEW v \in PodVersion, WritePod(p, v),
             UNCHANGED <<tasks, objRev, clusterRev, taskCache, podCache, taskWatch, objSeen,
                         clusterSeen, notify, queueVars, workerVars, envVars>>
      PROVE  Typed'
  BY <1>6, WritePodType DEF TypeOK
<1>7. ASSUME NEW p \in Pods,
             \/ CreatePod(p) \/ PodBecomesReady(p) \/ PodBecomesUnready(p) \/ DeletePod(p)
             \/ \E t \in Tasks : ContainerTerminates(p, t)
      PROVE  Typed'
  <2>1. pods[p] \in PodVersion
    BY DEF TypeOK
  <2>2. CASE CreatePod(p)
    <3>1. [pods[p] EXCEPT !.exists = TRUE] \in PodVersion
      BY <2>1 DEF PodVersion
    <3> QED BY <1>6, <2>2, <3>1 DEF CreatePod
  <2>3. CASE PodBecomesReady(p)
    <3>1. [pods[p] EXCEPT !.ready = TRUE] \in PodVersion
      BY <2>1 DEF PodVersion
    <3> QED BY <1>6, <2>3, <3>1 DEF PodBecomesReady
  <2>4. CASE PodBecomesUnready(p)
    <3>1. [pods[p] EXCEPT !.ready = FALSE] \in PodVersion
      BY <2>1 DEF PodVersion
    <3> QED BY <1>6, <2>4, <3>1 DEF PodBecomesUnready
  <2>5. CASE DeletePod(p)
    <3>1. [pods[p] EXCEPT !.exists = FALSE, !.ready = FALSE] \in PodVersion
      BY <2>1 DEF PodVersion
    <3> QED BY <1>6, <2>5, <3>1 DEF DeletePod
  <2>6. ASSUME NEW t \in Tasks, ContainerTerminates(p, t) PROVE Typed'
    <3>1. [pods[p] EXCEPT !.done = @ \cup {t}] \in PodVersion
      BY <2>1 DEF PodVersion
    <3> QED BY <1>6, <2>6, <3>1 DEF ContainerTerminates
  <2> QED BY <1>7, <2>2, <2>3, <2>4, <2>5, <2>6
<1> QED BY <1>1, <1>2, <1>3, <1>4, <1>5, <1>7 DEF Environment

LEMMA TypedInformers == ASSUME Typed, Informers PROVE Typed'
<1> USE DEF Typed, Busy, apiVars, queueVars, workerVars, envVars
<1>1. ASSUME NEW t \in Tasks, SeeTask(t) PROVE Typed'
  BY <1>1 DEF SeeTask, LaterThan, TypeOK, Notification
<1>2. ASSUME NEW t \in Tasks, Resync(t) PROVE Typed'
  BY <1>2 DEF Resync, TypeOK, Notification
<1>3. ASSUME NEW p \in Pods, SeePod(p) PROVE Typed'
  BY <1>3 DEF SeePod, LaterThan, TypeOK, Notification
<1>4. ASSUME NEW o \in Objects, SeeObject(o) PROVE Typed'
  BY <1>4 DEF SeeObject, TypeOK, Notification
<1>5. ASSUME NEW c \in Clusters, SeeCluster(c) PROVE Typed'
  BY <1>5 DEF SeeCluster, TypeOK
<1> QED BY <1>1, <1>2, <1>3, <1>4, <1>5 DEF Informers

LEMMA TypedQueue ==
  ASSUME Typed, (\E n \in notify : Handle(n)) \/ (\E t \in retry : RetryDue(t))
  PROVE  Typed'
<1> USE DEF Typed, Busy, apiVars, informerVars, workerVars, envVars
<1>1. ASSUME NEW n \in notify, Handle(n) PROVE Typed'
  <2>1. n \in Notification
    BY DEF TypeOK
  <2>2. n[1] \in {"Task", "Pod", "TaskObject"} /\ (n[1] = "Task" => n[2] \in Tasks)
    BY <2>1 DEF Notification
  <2>3. EnqueuedBy(n) \subseteq Tasks
    BY <2>2 DEF EnqueuedBy
  <2> QED BY <1>1, <2>3 DEF Handle, TypeOK
<1>2. ASSUME NEW t \in retry, RetryDue(t) PROVE Typed'
  BY <1>2 DEF RetryDue, TypeOK
<1> QED BY <1>1, <1>2

(* The writes a worker makes, whether or not it learns of them.            *)
LEMMA TypedPatch ==
  ASSUME Typed, NEW w \in Workers, pc[w] = "patch", ApplyPatch(w)
  PROVE  /\ pods' \in [Pods -> PodVersion]
         /\ podWatch' \in [Pods -> SUBSET PodVersion]
<1> DEFINE p == target[w]
           added == Merged(w) \ ContainersOf(pods[p])
           ec == [t \in Tasks |-> IF t \in added THEN seen[w].uid ELSE pods[p].ec[t]]
           v == [pods[p] EXCEPT !.ec = ec]
<1> HIDE DEF added
<1>1. CASE added # {} /\ p \in Pods
  <2>1. seen[w].uid \in Nat /\ pods[p] \in PodVersion
    BY <1>1 DEF Typed, TypeOK, TaskVersion
  <2>2. ec \in [Tasks -> Nat]
    BY <2>1 DEF PodVersion
  <2> HIDE DEF ec
  <2>3. v \in PodVersion
    BY <2>1, <2>2 DEF PodVersion
  <2>4. WritePod(p, v)
    BY <1>1 DEF ApplyPatch, added, ec
  <2> HIDE DEF v
  <2> QED BY <1>1, <2>3, <2>4, WritePodType DEF Typed
<1>2. CASE added # {} /\ p \notin Pods
  <2>1. WritePod(p, v)
    BY <1>2 DEF ApplyPatch, added
  <2> HIDE DEF v
  <2> QED BY <1>2, <2>1 DEF WritePod, Typed, TypeOK
<1>3. CASE added = {}
  BY <1>3 DEF ApplyPatch, added, Typed, TypeOK
<1> QED BY <1>1, <1>2, <1>3

LEMMA TypedRunning ==
  ASSUME Typed, NEW w \in Workers, pc[w] # "idle", WriteRunning(w)
  PROVE  /\ tasks' \in [Tasks -> TaskVersion]
         /\ taskWatch' \in [Tasks -> SUBSET TaskVersion]
<1>1. key[w] \in Tasks /\ seen[w] \in TaskVersion /\ target[w] \in Pods \cup {NoPod}
  BY DEF Typed, Busy, TypeOK
<1>2. [seen[w] EXCEPT !.podName = target[w], !.state = "Running"] \in TaskVersion
  BY <1>1 DEF TaskVersion, TaskStates
<1> QED BY <1>1, <1>2, WriteTaskType DEF Typed, WriteRunning

LEMMA TypedFinished ==
  ASSUME Typed, NEW w \in Workers, pc[w] # "idle", WriteFinished(w)
  PROVE  /\ tasks' \in [Tasks -> TaskVersion]
         /\ taskWatch' \in [Tasks -> SUBSET TaskVersion]
<1>1. key[w] \in Tasks /\ seen[w] \in TaskVersion
  BY DEF Typed, Busy, TypeOK
<1>2. [seen[w] EXCEPT !.state = "Finished"] \in TaskVersion
  BY <1>1 DEF TaskVersion, TaskStates
<1> QED BY <1>1, <1>2, WriteTaskType DEF Typed, WriteFinished

LEMMA TypedWorker == ASSUME Typed, NEW w \in Workers, Worker(w) PROVE Typed'
<1> USE DEF Typed, Busy, Goto, apiVars, informerVars, queueVars, workerVars, envVars
<1>1. CASE GetWork(w)
  BY <1>1 DEF GetWork, TypeOK, Steps
<1>2. CASE GetTask(w)
  BY <1>2 DEF GetTask, TypeOK, Steps
<1>3. CASE GetCluster(w)
  BY <1>3 DEF GetCluster, TypeOK, Steps
<1>4. CASE GetInput(w)
  BY <1>4 DEF GetInput, TypeOK, Steps
<1>5. CASE GetPod(w)
  BY <1>5 DEF GetPod, TypeOK, Steps
<1>6. CASE ListPods(w)
  BY <1>6 DEF ListPods, Candidates, ContainersOf, TypeOK, Steps
<1>7. CASE PatchPod(w)
  <2>1. CASE ApplyPatch(w) /\ pc' = [pc EXCEPT ![w] = "markRunning"]
    BY <1>7, <2>1, TypedPatch DEF PatchPod, TypeOK, Steps
  <2>2. CASE UNCHANGED <<pods, podWatch>> /\ pc' = [pc EXCEPT ![w] = "err"]
    BY <1>7, <2>2 DEF PatchPod, TypeOK, Steps
  <2> QED BY <1>7, <2>1, <2>2 DEF PatchPod
<1>8. CASE MarkRunning(w)
  <2>1. CASE Current(key[w], seen[w])
    BY <1>8, <2>1, TypedRunning DEF MarkRunning, TypeOK, Steps
  <2>2. CASE ~Current(key[w], seen[w])
    BY <1>8, <2>2 DEF MarkRunning, TypeOK, Steps
  <2> QED BY <2>1, <2>2
<1>9. CASE MarkFinished(w)
  <2>1. CASE Current(key[w], seen[w])
    BY <1>9, <2>1, TypedFinished DEF MarkFinished, TypeOK, Steps
  <2>2. CASE ~Current(key[w], seen[w])
    BY <1>9, <2>2 DEF MarkFinished, TypeOK, Steps
  <2> QED BY <2>1, <2>2
<1>10. CASE CallFails(w)
  <2>1. /\ tasks' \in [Tasks -> TaskVersion] /\ taskWatch' \in [Tasks -> SUBSET TaskVersion]
        /\ pods' \in [Pods -> PodVersion] /\ podWatch' \in [Pods -> SUBSET PodVersion]
    <3>1. CASE UNCHANGED <<tasks, taskWatch, pods, podWatch>>
      BY <3>1 DEF TypeOK
    <3>2. CASE pc[w] = "patch" /\ ApplyPatch(w) /\ UNCHANGED <<tasks, taskWatch>>
      BY <3>2, TypedPatch DEF TypeOK
    <3>3. CASE pc[w] = "markRunning" /\ WriteRunning(w) /\ UNCHANGED <<pods, podWatch>>
      BY <3>3, TypedRunning DEF TypeOK
    <3>4. CASE pc[w] = "markFinished" /\ WriteFinished(w) /\ UNCHANGED <<pods, podWatch>>
      BY <3>4, TypedFinished DEF TypeOK
    <3> QED BY <1>10, <3>1, <3>2, <3>3, <3>4 DEF CallFails
  <2>2. /\ pc' = [pc EXCEPT ![w] = "err"] /\ faults' = faults + 1 /\ pc[w] # "idle"
        /\ UNCHANGED <<objRev, clusterRev, taskCache, podCache, objSeen, clusterSeen, notify,
                       dirty, retry, key, seen, target, held, restarts>>
    BY <1>10 DEF CallFails
  <2> QED BY <2>1, <2>2 DEF TypeOK, Steps
<1>11. CASE FinishWork(w)
  BY <1>11 DEF FinishWork, Requeued, NoTaskYet, TaskVersion, TaskStates, TypeOK, Steps
<1> QED BY <1>1, <1>2, <1>3, <1>4, <1>5, <1>6, <1>7, <1>8, <1>9, <1>10, <1>11
        DEF Worker, SyncHandler

LEMMA TypedRestart == ASSUME Typed, Restart PROVE Typed'
<1> USE DEF Typed, Busy, Restart, Filled, Waited, apiVars
<1>1. notify' \subseteq Notification
  BY DEF Notification
<1>2. NoTaskYet \in TaskVersion
  BY DEF NoTaskYet, TaskVersion, TaskStates
<1> QED BY <1>1, <1>2 DEF TypeOK, Steps

LEMMA TypedStep == Typed /\ [Next]_vars => Typed'
<1> SUFFICES ASSUME Typed, [Next]_vars PROVE Typed'
  OBVIOUS
<1>1. CASE UNCHANGED vars
  BY <1>1 DEF Typed, Busy, TypeOK, vars, apiVars, informerVars, queueVars, workerVars, envVars
<1>2. CASE Next
  BY <1>2, TypedEnvironment, TypedInformers, TypedQueue, TypedWorker, TypedRestart DEF Next
<1> QED BY <1>1, <1>2

(* The types of all variables, and that a worker past workqueue.Get holds  *)
(* the key of a Task.                                                      *)
THEOREM TypeCorrect == Spec => []Typed
BY TypedInit, TypedStep, PTL DEF Spec

(* TypeOK: what the API server, the informers, the queue and the workers   *)
(* hold is always of its type.                                             *)
THEOREM TypeSafety == Spec => []TypeOK
<1>1. Typed => TypeOK
  BY DEF Typed
<1> QED BY <1>1, TypeCorrect, PTL

-----------------------------------------------------------------------------
(* What one step may do to the API server, to the watches and the caches.  *)

Created(t, v) ==
  /\ ~tasks[t].exists
  /\ v.exists /\ v.uid = tasks[t].uid + 1 /\ v.podName = NoPod /\ v.state = "New"

Deleted(t, v) ==
  /\ tasks[t].exists
  /\ ~v.exists /\ v.uid = tasks[t].uid /\ v.podName = NoPod /\ v.state = "New"

SameObject(t, v) == tasks[t].exists /\ v.exists /\ v.uid = tasks[t].uid

Edited(t, v) ==
  SameObject(t, v) /\ v.podName = tasks[t].podName /\ v.state = tasks[t].state

MadeRunning(t, v) ==
  /\ SameObject(t, v)
  /\ \E w \in Workers : /\ pc[w] = "markRunning" /\ key[w] = t /\ seen[w] = tasks[t]
                        /\ v.podName = target[w] /\ v.state = "Running"

MadeFinished(t, v) ==
  /\ SameObject(t, v) /\ v.podName = tasks[t].podName /\ v.state = "Finished"
  /\ \E w \in Workers : pc[w] = "markFinished" /\ key[w] = t /\ seen[w] = tasks[t]

TaskWrite(t, v) ==
  /\ tasks' = [tasks EXCEPT ![t] = v]
  /\ taskWatch' = [taskWatch EXCEPT ![t] = @ \cup {v}]
  /\ v \in TaskVersion /\ v.rv = tasks[t].rv + 1
  /\ Created(t, v) \/ Deleted(t, v) \/ Edited(t, v) \/ MadeRunning(t, v) \/ MadeFinished(t, v)

Conditions(p, v) == v.done = pods[p].done /\ v.ec = pods[p].ec

ContainerEnded(p, v) ==
  /\ v.ec = pods[p].ec
  /\ \E t \in Tasks : pods[p].ec[t] # 0 /\ v.done = pods[p].done \cup {t}

ContainerAdded(p, v) ==
  /\ v.done = pods[p].done
  /\ \E w \in Workers : /\ pc[w] = "patch" /\ target[w] = p
                        /\ pods[p].ec[key[w]] = 0
                        /\ v.ec = [pods[p].ec EXCEPT ![key[w]] = seen[w].uid]

PodWrite(p, v) ==
  /\ pods' = [pods EXCEPT ![p] = v]
  /\ podWatch' = [podWatch EXCEPT ![p] = @ \cup {v}]
  /\ v \in PodVersion /\ v.rv = pods[p].rv + 1
  /\ v.exists => pods[p].exists \/ pods[p].rv = 0
  /\ Conditions(p, v) \/ ContainerEnded(p, v) \/ ContainerAdded(p, v)

TasksKept == UNCHANGED tasks /\ \A t \in Tasks : taskWatch'[t] \subseteq taskWatch[t]
PodsKept == UNCHANGED pods /\ \A p \in Pods : podWatch'[p] \subseteq podWatch[p]

ApiStep ==
  \/ TasksKept /\ PodsKept
  \/ PodsKept /\ \E t \in Tasks, v \in TaskVersion : TaskWrite(t, v)
  \/ TasksKept /\ \E p \in Pods, v \in PodVersion : PodWrite(p, v)

CacheStep ==
  /\ \A t \in Tasks : taskCache'[t] \in taskWatch[t] \cup {taskCache[t], tasks[t]}
  /\ \A p \in Pods : podCache'[p] \in podWatch[p] \cup {podCache[p], pods[p]}

(* An accepted status update was made from the version stored now, because *)
(* the copy it was made from has its resourceVersion.                      *)
LEMMA CurrentCopy ==
  ASSUME IInv, NEW w \in Workers, pc[w] \in {"markRunning", "markFinished"},
         Current(key[w], seen[w])
  PROVE  key[w] \in Tasks /\ seen[w] = tasks[key[w]] /\ tasks[key[w]].exists
BY DEF IInv, Typed, Busy, WorkerInv, CopyHeld, OldVersion, Holding, Current

LEMMA RunningWrite ==
  ASSUME IInv, NEW w \in Workers, pc[w] = "markRunning", Current(key[w], seen[w]),
         WriteRunning(w)
  PROVE  \E t \in Tasks, v \in TaskVersion : TaskWrite(t, v)
<1> DEFINE t == key[w]
           v == [seen[w] EXCEPT !.podName = target[w], !.state = "Running", !.rv = tasks[t].rv + 1]
<1>1. t \in Tasks /\ seen[w] = tasks[t] /\ tasks[t].exists
  BY CurrentCopy
<1>2. tasks[t] \in TaskVersion /\ target[w] \in Pods
  BY <1>1 DEF IInv, Typed, TypeOK, WorkerInv, Chosen
<1>3. tasks[t].rv + 1 \in Nat
  BY <1>2 DEF TaskVersion
<1>4. v \in TaskVersion /\ v.rv = tasks[t].rv + 1 /\ v.exists /\ v.uid = tasks[t].uid
      /\ v.podName = target[w] /\ v.state = "Running"
  BY <1>1, <1>2, <1>3 DEF TaskVersion, TaskStates
<1>5. tasks' = [tasks EXCEPT ![t] = v] /\ taskWatch' = [taskWatch EXCEPT ![t] = @ \cup {v}]
  BY DEF WriteRunning, WriteTask
<1> HIDE DEF v
<1> QED BY <1>1, <1>4, <1>5 DEF TaskWrite, MadeRunning, SameObject

LEMMA FinishedWrite ==
  ASSUME IInv, NEW w \in Workers, pc[w] = "markFinished", Current(key[w], seen[w]),
         WriteFinished(w)
  PROVE  \E t \in Tasks, v \in TaskVersion : TaskWrite(t, v)
<1> DEFINE t == key[w]
           v == [seen[w] EXCEPT !.state = "Finished", !.rv = tasks[t].rv + 1]
<1>1. t \in Tasks /\ seen[w] = tasks[t] /\ tasks[t].exists
  BY CurrentCopy
<1>2. tasks[t] \in TaskVersion
  BY <1>1 DEF IInv, Typed, TypeOK
<1>3. tasks[t].rv + 1 \in Nat
  BY <1>2 DEF TaskVersion
<1>4. v \in TaskVersion /\ v.rv = tasks[t].rv + 1 /\ v.exists /\ v.uid = tasks[t].uid
      /\ v.podName = tasks[t].podName /\ v.state = "Finished"
  BY <1>1, <1>2, <1>3 DEF TaskVersion, TaskStates
<1>5. tasks' = [tasks EXCEPT ![t] = v] /\ taskWatch' = [taskWatch EXCEPT ![t] = @ \cup {v}]
  BY DEF WriteFinished, WriteTask
<1> HIDE DEF v
<1> QED BY <1>1, <1>4, <1>5 DEF TaskWrite, MadeFinished, SameObject

(* A patch adds the container of its own Task and no other, or changes     *)
(* nothing: whatever else its list holds was in the cached copy, and that  *)
(* is in the Pod by now.                                                   *)
LEMMA PatchEffect ==
  ASSUME IInv, NEW w \in Workers, pc[w] = "patch", ApplyPatch(w)
  PROVE  /\ target[w] \in Pods /\ key[w] \in Tasks /\ seen[w].uid \in Nat
         /\ pods[target[w]] \in PodVersion
         /\ \/ pods[target[w]].ec[key[w]] # 0 /\ UNCHANGED <<pods, podWatch>>
            \/ /\ pods[target[w]].ec[key[w]] = 0
               /\ WritePod(target[w], [pods[target[w]] EXCEPT
                              !.ec = [pods[target[w]].ec EXCEPT ![key[w]] = seen[w].uid]])
<1> DEFINE p == target[w]
           t == key[w]
           stored == ContainersOf(pods[p])
           added == Merged(w) \ stored
           ec == [u \in Tasks |-> IF u \in added THEN seen[w].uid ELSE pods[p].ec[u]]
<1>1. p \in Pods /\ t \in Tasks /\ pods[p] \in PodVersion /\ seen[w].uid \in Nat
  BY DEF IInv, Typed, TypeOK, Busy, WorkerInv, Chosen, TaskVersion
<1>2. pods[p].ec \in [Tasks -> Nat]
  BY <1>1 DEF PodVersion
<1>3. held[w] \subseteq stored
  BY DEF IInv, WorkerInv, Held
<1>4. t \in stored <=> pods[p].ec[t] # 0
  BY <1>1 DEF ContainersOf
<1>5. added = {t} \ stored
  BY <1>3 DEF Merged, Appended
<1>6. CASE pods[p].ec[t] # 0
  <2>1. added = {}
    BY <1>4, <1>5, <1>6
  <2> QED BY <1>1, <1>6, <2>1 DEF ApplyPatch
<1>7. CASE pods[p].ec[t] = 0
  <2>1. added = {t}
    BY <1>4, <1>5, <1>7
  <2>2. WritePod(p, [pods[p] EXCEPT !.ec = ec])
    BY <2>1 DEF ApplyPatch
  <2>3. ec = [pods[p].ec EXCEPT ![t] = seen[w].uid]
    <3> HIDE DEF added
    <3> QED BY <1>1, <1>2, <2>1
  <2> HIDE DEF ec
  <2> QED BY <1>1, <1>7, <2>2, <2>3
<1> QED BY <1>6, <1>7

LEMMA PatchWrite ==
  ASSUME IInv, NEW w \in Workers, pc[w] = "patch", ApplyPatch(w)
  PROVE  PodsKept \/ \E p \in Pods, v \in PodVersion : PodWrite(p, v)
<1> DEFINE p == target[w]
           t == key[w]
           ec == [pods[p].ec EXCEPT ![t] = seen[w].uid]
           v == [pods[p] EXCEPT !.ec = ec, !.rv = pods[p].rv + 1]
<1>1. p \in Pods /\ t \in Tasks /\ pods[p] \in PodVersion /\ seen[w].uid \in Nat
  BY PatchEffect
<1>2. CASE UNCHANGED <<pods, podWatch>>
  BY <1>2 DEF PodsKept
<1>3. CASE pods[p].ec[t] = 0 /\ WritePod(p, [pods[p] EXCEPT !.ec = ec])
  <2>1. pods[p].rv + 1 \in Nat /\ ec \in [Tasks -> Nat]
    BY <1>1 DEF PodVersion
  <2>2. pods' = [pods EXCEPT ![p] = v] /\ podWatch' = [podWatch EXCEPT ![p] = @ \cup {v}]
    <3> HIDE DEF ec
    <3> QED BY <1>3 DEF WritePod
  <2>3. v.ec = ec
    <3> HIDE DEF ec
    <3> QED BY <1>1 DEF PodVersion
  <2>4. v \in PodVersion /\ v.rv = pods[p].rv + 1 /\ v.exists = pods[p].exists
        /\ v.done = pods[p].done
    <3> HIDE DEF ec
    <3> QED BY <1>1, <2>1 DEF PodVersion
  <2> HIDE DEF v
  <2> QED BY <1>1, <1>3, <2>2, <2>3, <2>4 DEF PodWrite, ContainerAdded
<1> QED BY <1>2, <1>3, PatchEffect

LEMMA ApiStepEnvironment ==
  ASSUME Typed, Environment
  PROVE  ApiStep /\ UNCHANGED <<taskCache, podCache, workerVars>>
<1>1. ASSUME NEW t \in Tasks, CreateTask(t) \/ DeleteTask(t) \/ EditTask(t)
      PROVE  PodsKept /\ (\E v \in TaskVersion : TaskWrite(t, v))
             /\ UNCHANGED <<taskCache, podCache, workerVars>>
  <2>1. tasks[t] \in TaskVersion /\ tasks[t].rv + 1 \in Nat /\ tasks[t].uid + 1 \in Nat
    BY DEF Typed, TypeOK, TaskVersion
  <2>2. CASE CreateTask(t)
    <3> DEFINE v == [NoTaskYet EXCEPT !.uid = tasks[t].uid + 1, !.exists = TRUE,
                                      !.rv = tasks[t].rv + 1]
    <3>1. v \in TaskVersion /\ v.rv = tasks[t].rv + 1 /\ v.exists
          /\ v.uid = tasks[t].uid + 1 /\ v.podName = NoPod /\ v.state = "New"
      BY <2>1 DEF NoTaskYet, TaskVersion, TaskStates
    <3>2. tasks' = [tasks EXCEPT ![t] = v] /\ taskWatch' = [taskWatch EXCEPT ![t] = @ \cup {v}]
      BY <2>2 DEF CreateTask, WriteTask
    <3> HIDE DEF v
    <3> QED BY <2>2, <3>1, <3>2 DEF CreateTask, TaskWrite, Created, PodsKept
  <2>3. CASE DeleteTask(t)
    <3> DEFINE v == [tasks[t] EXCEPT !.exists = FALSE, !.podName = NoPod, !.state = "New",
                                     !.rv = tasks[t].rv + 1]
    <3>1. v \in TaskVersion /\ v.rv = tasks[t].rv + 1 /\ ~v.exists
          /\ v.uid = tasks[t].uid /\ v.podName = NoPod /\ v.state = "New"
      BY <2>1 DEF TaskVersion, TaskStates
    <3>2. tasks' = [tasks EXCEPT ![t] = v] /\ taskWatch' = [taskWatch EXCEPT ![t] = @ \cup {v}]
      BY <2>3 DEF DeleteTask, WriteTask
    <3> HIDE DEF v
    <3> QED BY <2>3, <3>1, <3>2 DEF DeleteTask, TaskWrite, Deleted, PodsKept
  <2>4. CASE EditTask(t)
    <3> DEFINE v == [tasks[t] EXCEPT !.rv = tasks[t].rv + 1]
    <3>1. v \in TaskVersion /\ v.rv = tasks[t].rv + 1 /\ v.exists = tasks[t].exists
          /\ v.uid = tasks[t].uid /\ v.podName = tasks[t].podName /\ v.state = tasks[t].state
      BY <2>1 DEF TaskVersion
    <3>2. tasks' = [tasks EXCEPT ![t] = v] /\ taskWatch' = [taskWatch EXCEPT ![t] = @ \cup {v}]
      BY <2>4 DEF EditTask, WriteTask
    <3> HIDE DEF v
    <3> QED BY <2>4, <3>1, <3>2 DEF EditTask, TaskWrite, Edited, SameObject, PodsKept
  <2> QED BY <1>1, <2>2, <2>3, <2>4
<1>2. CASE (\E o \in Objects : ToggleObject(o)) \/ (\E c \in Clusters : ToggleCluster(c))
  BY <1>2 DEF ToggleObject, ToggleCluster, ApiStep, TasksKept, PodsKept, informerVars
<1>3. ASSUME NEW p \in Pods,
             \/ CreatePod(p) \/ PodBecomesReady(p) \/ PodBecomesUnready(p) \/ DeletePod(p)
             \/ \E t \in Tasks : ContainerTerminates(p, t)
      PROVE  TasksKept /\ (\E v \in PodVersion : PodWrite(p, v))
             /\ UNCHANGED <<taskCache, podCache, workerVars>>
  <2>1. pods[p] \in PodVersion /\ pods[p].rv + 1 \in Nat
    BY DEF Typed, TypeOK, PodVersion
  <2>2. ASSUME NEW e \in BOOLEAN, NEW r \in BOOLEAN, NEW d \in SUBSET Tasks,
               WritePod(p, [pods[p] EXCEPT !.exists = e, !.ready = r, !.done = d]),
               e => pods[p].exists \/ pods[p].rv = 0,
               \/ d = pods[p].done
               \/ \E t \in Tasks : pods[p].ec[t] # 0 /\ d = pods[p].done \cup {t},
               TasksKept, UNCHANGED <<taskCache, podCache, workerVars>>
        PROVE  TasksKept /\ (\E v \in PodVersion : PodWrite(p, v))
               /\ UNCHANGED <<taskCache, podCache, workerVars>>
    <3> DEFINE v == [pods[p] EXCEPT !.exists = e, !.ready = r, !.done = d,
                                    !.rv = pods[p].rv + 1]
    <3>1. v \in PodVersion /\ v.rv = pods[p].rv + 1 /\ v.exists = e
          /\ v.done = d /\ v.ec = pods[p].ec
      BY <2>1 DEF PodVersion
    <3>2. pods' = [pods EXCEPT ![p] = v] /\ podWatch' = [podWatch EXCEPT ![p] = @ \cup {v}]
      BY <2>2 DEF WritePod
    <3> HIDE DEF v
    <3>3. Conditions(p, v) \/ ContainerEnded(p, v)
      BY <2>2, <3>1 DEF Conditions, ContainerEnded
    <3> QED BY <2>2, <3>1, <3>2, <3>3 DEF PodWrite
  <2>3. pods[p].exists \in BOOLEAN /\ pods[p].ready \in BOOLEAN /\ pods[p].done \in SUBSET Tasks
    BY <2>1 DEF PodVersion
  <2>4. CASE CreatePod(p)
    <3>1. [pods[p] EXCEPT !.exists = TRUE]
            = [pods[p] EXCEPT !.exists = TRUE, !.ready = pods[p].ready, !.done = pods[p].done]
      BY <2>1 DEF PodVersion
    <3> QED BY <2>2, <2>3, <2>4, <3>1 DEF CreatePod, TasksKept
  <2>5. CASE PodBecomesReady(p)
    <3>1. [pods[p] EXCEPT !.ready = TRUE]
            = [pods[p] EXCEPT !.exists = pods[p].exists, !.ready = TRUE, !.done = pods[p].done]
      BY <2>1 DEF PodVersion
    <3> QED BY <2>2, <2>3, <2>5, <3>1 DEF PodBecomesReady, TasksKept
  <2>6. CASE PodBecomesUnready(p)
    <3>1. [pods[p] EXCEPT !.ready = FALSE]
            = [pods[p] EXCEPT !.exists = pods[p].exists, !.ready = FALSE, !.done = pods[p].done]
      BY <2>1 DEF PodVersion
    <3> QED BY <2>2, <2>3, <2>6, <3>1 DEF PodBecomesUnready, TasksKept
  <2>7. CASE DeletePod(p)
    <3>1. [pods[p] EXCEPT !.exists = FALSE, !.ready = FALSE]
            = [pods[p] EXCEPT !.exists = FALSE, !.ready = FALSE, !.done = pods[p].done]
      BY <2>1 DEF PodVersion
    <3> QED BY <2>2, <2>3, <2>7, <3>1 DEF DeletePod, TasksKept
  <2>8. ASSUME NEW t \in Tasks, ContainerTerminates(p, t)
        PROVE  TasksKept /\ (\E v \in PodVersion : PodWrite(p, v))
               /\ UNCHANGED <<taskCache, podCache, workerVars>>
    <3>1. [pods[p] EXCEPT !.done = @ \cup {t}]
            = [pods[p] EXCEPT !.exists = pods[p].exists, !.ready = pods[p].ready,
                              !.done = pods[p].done \cup {t}]
      BY <2>1 DEF PodVersion
    <3>2. pods[p].done \cup {t} \in SUBSET Tasks /\ pods[p].ec[t] # 0
      BY <2>3, <2>8 DEF ContainerTerminates
    <3> QED BY <2>2, <2>3, <2>8, <3>1, <3>2 DEF ContainerTerminates, TasksKept
  <2> QED BY <1>3, <2>4, <2>5, <2>6, <2>7, <2>8
<1> QED BY <1>1, <1>2, <1>3 DEF Environment, ApiStep, ToggleObject, ToggleCluster, informerVars

LEMMA ApiStepInformers ==
  ASSUME Typed, Informers
  PROVE  ApiStep /\ CacheStep /\ UNCHANGED <<apiVars, workerVars>>
<1> USE DEF Typed, TypeOK, ApiStep, TasksKept, PodsKept, CacheStep, apiVars
<1>1. ASSUME NEW t \in Tasks, SeeTask(t)
      PROVE  ApiStep /\ CacheStep /\ UNCHANGED <<apiVars, workerVars>>
  BY <1>1 DEF SeeTask, LaterThan
<1>2. ASSUME NEW p \in Pods, SeePod(p)
      PROVE  ApiStep /\ CacheStep /\ UNCHANGED <<apiVars, workerVars>>
  BY <1>2 DEF SeePod, LaterThan
<1> QED BY <1>1, <1>2 DEF Informers, SeeObject, SeeCluster, Resync

LEMMA ApiStepWorker ==
  ASSUME IInv, NEW w \in Workers, Worker(w)
  PROVE  ApiStep /\ UNCHANGED <<taskCache, podCache>>
<1> USE DEF apiVars, informerVars, TasksKept, PodsKept
<1>1. CASE PatchPod(w)
  <2>1. CASE ApplyPatch(w)
    BY <1>1, <2>1, PatchWrite DEF PatchPod, ApiStep
  <2>2. CASE UNCHANGED <<pods, podWatch>>
    BY <1>1, <2>2 DEF PatchPod, ApiStep
  <2> QED BY <1>1, <2>1, <2>2 DEF PatchPod
<1>2. CASE MarkRunning(w)
  <2>1. CASE Current(key[w], seen[w])
    BY <1>2, <2>1, RunningWrite DEF MarkRunning, ApiStep
  <2>2. CASE ~Current(key[w], seen[w])
    BY <1>2, <2>2 DEF MarkRunning, ApiStep
  <2> QED BY <2>1, <2>2
<1>3. CASE MarkFinished(w)
  <2>1. CASE Current(key[w], seen[w])
    BY <1>3, <2>1, FinishedWrite DEF MarkFinished, ApiStep
  <2>2. CASE ~Current(key[w], seen[w])
    BY <1>3, <2>2 DEF MarkFinished, ApiStep
  <2> QED BY <2>1, <2>2
<1>4. CASE CallFails(w)
  <2>1. CASE UNCHANGED <<tasks, taskWatch, pods, podWatch>>
    BY <1>4, <2>1 DEF CallFails, ApiStep
  <2>2. CASE pc[w] = "patch" /\ ApplyPatch(w) /\ UNCHANGED <<tasks, taskWatch>>
    BY <1>4, <2>2, PatchWrite DEF CallFails, ApiStep
  <2>3. CASE pc[w] = "markRunning" /\ Current(key[w], seen[w])
             /\ WriteRunning(w) /\ UNCHANGED <<pods, podWatch>>
    BY <1>4, <2>3, RunningWrite DEF CallFails, ApiStep
  <2>4. CASE pc[w] = "markFinished" /\ Current(key[w], seen[w])
             /\ WriteFinished(w) /\ UNCHANGED <<pods, podWatch>>
    BY <1>4, <2>4, FinishedWrite DEF CallFails, ApiStep
  <2> QED BY <1>4, <2>1, <2>2, <2>3, <2>4 DEF CallFails
<1>5. CASE GetWork(w) \/ FinishWork(w) \/ GetTask(w) \/ GetCluster(w) \/ GetInput(w)
           \/ GetPod(w) \/ ListPods(w)
  BY <1>5 DEF GetWork, FinishWork, GetTask, GetCluster, GetInput, GetPod, ListPods, ApiStep
<1> QED BY <1>1, <1>2, <1>3, <1>4, <1>5 DEF Worker, SyncHandler

(* Every step writes at most one Task or one Pod, in one of the ways       *)
(* above, and a cache only moves to a version that was written.            *)
LEMMA StepEffect == ASSUME IInv, [Next]_vars PROVE ApiStep /\ CacheStep
<1> USE DEF apiVars, informerVars
<1>1. ASSUME UNCHANGED <<taskCache, podCache>> PROVE CacheStep
  BY <1>1 DEF CacheStep
<1>2. CASE UNCHANGED vars
  BY <1>1, <1>2 DEF vars, ApiStep, TasksKept, PodsKept
<1>3. CASE Environment
  BY <1>1, <1>3, ApiStepEnvironment DEF IInv
<1>4. CASE Informers
  BY <1>4, ApiStepInformers DEF IInv
<1>5. CASE (\E n \in notify : Handle(n)) \/ (\E t \in retry : RetryDue(t))
  BY <1>1, <1>5 DEF Handle, RetryDue, ApiStep, TasksKept, PodsKept
<1>6. CASE \E w \in Workers : Worker(w)
  BY <1>1, <1>6, ApiStepWorker
<1>7. CASE Restart
  BY <1>7 DEF Restart, Filled, Waited, ApiStep, TasksKept, PodsKept, CacheStep
<1> QED BY <1>2, <1>3, <1>4, <1>5, <1>6, <1>7 DEF Next

-----------------------------------------------------------------------------
(* The invariant is kept.                                                  *)

TaskGrows(t) ==
  \/ tasks'[t] = tasks[t]
  \/ /\ tasks'[t].rv = tasks[t].rv + 1 /\ tasks[t].uid <= tasks'[t].uid
     /\ WellFormed(tasks'[t])

PodGrows(p) ==
  /\ pods[p].done \subseteq pods'[p].done
  /\ \A t \in Tasks : pods[p].ec[t] # 0 => pods'[p].ec[t] = pods[p].ec[t]
  /\ \A t \in pods'[p].done : pods'[p].ec[t] # 0

LEMMA TasksGrow ==
  ASSUME IInv, [Next]_vars, NEW t \in Tasks PROVE TaskGrows(t)
<1>1. CASE UNCHANGED tasks
  BY <1>1 DEF TaskGrows
<1>2. ASSUME NEW u \in Tasks, NEW v \in TaskVersion, TaskWrite(u, v) PROVE TaskGrows(t)
  <2>1. CASE t # u
    BY <1>2, <2>1 DEF TaskWrite, TaskGrows, IInv, Typed, TypeOK
  <2>2. CASE t = u
    <3>1. tasks'[t] = v /\ tasks[t] \in TaskVersion /\ WellFormed(tasks[t])
      BY <1>2, <2>2 DEF TaskWrite, IInv, Typed, TypeOK, TaskCopies
    <3>2. tasks[t].uid \in Nat /\ v.uid \in Nat
      BY <3>1 DEF TaskVersion
    <3>3. v.uid = tasks[t].uid \/ v.uid = tasks[t].uid + 1
      BY <1>2, <2>2 DEF TaskWrite, Created, Deleted, Edited, MadeRunning, MadeFinished, SameObject
    <3>4. WellFormed(v)
      <4>1. CASE Created(t, v) \/ Deleted(t, v) \/ Edited(t, v)
        <5>1. CASE Created(t, v)
          BY <3>1, <3>2, <5>1 DEF Created, WellFormed, TaskVersion
        <5>2. CASE Deleted(t, v)
          BY <5>2 DEF Deleted, WellFormed
        <5>3. CASE Edited(t, v)
          BY <3>1, <5>3 DEF Edited, SameObject, WellFormed
        <5> QED BY <4>1, <5>1, <5>2, <5>3
      <4>2. CASE MadeRunning(t, v)
        <5>1. v.podName \in Pods
          BY <4>2 DEF MadeRunning, IInv, WorkerInv, Chosen
        <5> QED BY <3>1, <4>2, <5>1, ConstantsAssumption DEF MadeRunning, SameObject, WellFormed
      <4>3. CASE MadeFinished(t, v)
        <5>1. v.podName \in Pods
          BY <4>3 DEF MadeFinished, IInv, WorkerInv, Bound
        <5> QED BY <3>1, <4>3, <5>1, ConstantsAssumption DEF MadeFinished, SameObject, WellFormed
      <4> QED BY <1>2, <2>2, <4>1, <4>2, <4>3 DEF TaskWrite
    <3> QED BY <1>2, <2>2, <3>1, <3>2, <3>3, <3>4 DEF TaskWrite, TaskGrows
  <2> QED BY <2>1, <2>2
<1> QED BY <1>1, <1>2, StepEffect DEF ApiStep, TasksKept

LEMMA PodsGrow ==
  ASSUME IInv, [Next]_vars, NEW p \in Pods PROVE PodGrows(p)
<1>1. CASE UNCHANGED pods
  BY <1>1 DEF PodGrows, IInv, PodCopies
<1>2. ASSUME NEW q \in Pods, NEW v \in PodVersion, PodWrite(q, v) PROVE PodGrows(p)
  <2>1. CASE p # q
    BY <1>2, <2>1 DEF PodWrite, PodGrows, IInv, PodCopies, Typed, TypeOK
  <2>2. CASE p = q
    <3>1. pods'[p] = v /\ pods[p] \in PodVersion
      BY <1>2, <2>2 DEF PodWrite, IInv, Typed, TypeOK
    <3>2. pods[p].done \subseteq Tasks /\ pods[p].ec \in [Tasks -> Nat]
      BY <3>1 DEF PodVersion
    <3>3. \A t \in pods[p].done : pods[p].ec[t] # 0
      BY DEF IInv, PodCopies
    <3>4. CASE Conditions(p, v)
      BY <3>1, <3>3, <3>4 DEF Conditions, PodGrows
    <3>5. CASE ContainerEnded(p, v)
      BY <3>1, <3>3, <3>5 DEF ContainerEnded, PodGrows
    <3>6. CASE ContainerAdded(p, v)
      <4>1. PICK w \in Workers : /\ pc[w] = "patch" /\ target[w] = p
                                 /\ pods[p].ec[key[w]] = 0
                                 /\ v.ec = [pods[p].ec EXCEPT ![key[w]] = seen[w].uid]
        BY <3>6 DEF ContainerAdded
      <4> QED BY <3>1, <3>2, <3>3, <3>6, <4>1 DEF ContainerAdded, PodGrows
    <3> QED BY <1>2, <2>2, <3>4, <3>5, <3>6 DEF PodWrite
  <2> QED BY <2>1, <2>2
<1> QED BY <1>1, <1>2, StepEffect DEF ApiStep, PodsKept

(* A copy stays an old version, because versions are numbered upwards.     *)
LEMMA CopyStays ==
  ASSUME IInv, [Next]_vars, NEW t \in Tasks, NEW v \in TaskVersion, OldVersion(v, tasks[t])
  PROVE  OldVersion(v, tasks'[t])
<1>1. tasks[t] \in TaskVersion /\ tasks'[t] \in TaskVersion
  BY TypedStep DEF IInv, Typed, TypeOK
<1>2. /\ v.rv \in Nat /\ v.uid \in Nat
      /\ tasks[t].rv \in Nat /\ tasks[t].uid \in Nat
      /\ tasks'[t].rv \in Nat /\ tasks'[t].uid \in Nat
  BY <1>1 DEF TaskVersion
<1>3. CASE tasks'[t] = tasks[t]
  BY <1>3 DEF OldVersion, WellFormed
<1>4. CASE tasks'[t].rv = tasks[t].rv + 1 /\ tasks[t].uid <= tasks'[t].uid
  BY <1>1, <1>2, <1>4 DEF OldVersion, WellFormed, TaskVersion
<1> QED BY <1>3, <1>4, TasksGrow DEF TaskGrows

LEMMA TaskCopiesKept == ASSUME IInv, [Next]_vars PROVE TaskCopies'
<1> SUFFICES ASSUME NEW t \in Tasks
             PROVE  /\ WellFormed(tasks'[t]) /\ OldVersion(taskCache'[t], tasks'[t])
                    /\ \A v \in taskWatch'[t] : OldVersion(v, tasks'[t])
  BY DEF TaskCopies
<1>1. WellFormed(tasks'[t])
  BY TasksGrow DEF TaskGrows, IInv, TaskCopies, WellFormed
<1>2. tasks[t] \in TaskVersion /\ taskCache[t] \in TaskVersion /\ taskWatch[t] \subseteq TaskVersion
      /\ tasks'[t] \in TaskVersion
  BY TypedStep DEF IInv, Typed, TypeOK
<1>3. OldVersion(tasks[t], tasks[t])
  BY <1>2 DEF OldVersion, TaskVersion, IInv, TaskCopies
<1>4. \A v \in taskWatch[t] \cup {taskCache[t], tasks[t]} : OldVersion(v, tasks'[t])
  BY <1>2, <1>3, CopyStays DEF IInv, TaskCopies
<1>5. OldVersion(taskCache'[t], tasks'[t])
  <2>1. taskCache'[t] \in taskWatch[t] \cup {taskCache[t], tasks[t]}
    BY StepEffect DEF CacheStep
  <2> QED BY <1>4, <2>1 DEF OldVersion, WellFormed
<1>6. \A v \in taskWatch'[t] : OldVersion(v, tasks'[t])
  <2>1. taskWatch'[t] \subseteq taskWatch[t] \cup {tasks'[t]}
    BY StepEffect DEF ApiStep, TasksKept, TaskWrite, IInv, Typed, TypeOK
  <2>2. ASSUME NEW v \in taskWatch'[t], v = tasks'[t] PROVE OldVersion(v, tasks'[t])
    BY <1>1, <1>2, <2>2 DEF OldVersion, TaskVersion, WellFormed
  <2> QED BY <1>4, <2>1, <2>2
<1> QED BY <1>1, <1>5, <1>6

LEMMA PodCopiesKept == ASSUME IInv, [Next]_vars PROVE PodCopies'
<1> SUFFICES ASSUME NEW p \in Pods
             PROVE  /\ OldPod(podCache[p], p)' /\ \A v \in podWatch'[p] : OldPod(v, p)'
                    /\ \A t \in pods'[p].done : pods'[p].ec[t] # 0
  BY DEF PodCopies
<1>1. PodGrows(p)
  BY PodsGrow
<1>2. \A v \in podWatch[p] \cup {podCache[p], pods[p], pods'[p]} : OldPod(v, p)'
  <2>1. ContainersOf(pods[p]) \subseteq ContainersOf(pods'[p])
    BY <1>1 DEF PodGrows, ContainersOf
  <2> QED BY <1>1, <2>1 DEF PodGrows, OldPod, IInv, PodCopies, ContainersOf
<1>3. podCache'[p] \in podWatch[p] \cup {podCache[p], pods[p]}
  BY StepEffect DEF CacheStep
<1>4. podWatch'[p] \subseteq podWatch[p] \cup {pods'[p]}
  BY StepEffect DEF ApiStep, PodsKept, PodWrite, IInv, Typed, TypeOK
<1> QED BY <1>1, <1>2, <1>3, <1>4 DEF PodGrows, OldPod

(* What a worker relies on stays true while others run: its copy of the    *)
(* Task, the container it added, the end of a container it saw.            *)
LEMMA OtherWorkersKept ==
  ASSUME IInv, [Next]_vars, NEW w \in Workers,
         pc'[w] = pc[w], key'[w] = key[w], seen'[w] = seen[w], target'[w] = target[w],
         held'[w] = held[w]
  PROVE  WorkerInv(w)'
<1>1. WorkerInv(w) /\ Busy(w) /\ seen[w] \in TaskVersion
  BY DEF IInv, Typed, TypeOK
<1>2. CopyHeld(w)'
  <2>1. pc[w] \in Holding => key[w] \in Tasks /\ OldVersion(seen[w], tasks[key[w]])
    BY <1>1 DEF WorkerInv, CopyHeld, Busy, Holding
  <2>2. pc[w] \in Holding => OldVersion(seen[w], tasks'[key[w]])
    BY <1>1, <2>1, CopyStays
  <2> QED BY <1>1, <2>2 DEF WorkerInv, CopyHeld
<1>3. Unassigned(w)' /\ Chosen(w)' /\ Bound(w)'
  BY <1>1 DEF WorkerInv, Unassigned, Chosen, Bound
<1>4. Patched(w)'
  <2> SUFFICES ASSUME pc[w] = "markRunning" PROVE pods'[target[w]].ec[key[w]] # 0
    BY DEF Patched
  <2>1. target[w] \in Pods /\ key[w] \in Tasks /\ pods[target[w]].ec[key[w]] # 0
    BY <1>1 DEF WorkerInv, Chosen, Patched, Busy
  <2>2. PodGrows(target[w])
    BY <2>1, PodsGrow
  <2> QED BY <2>1, <2>2 DEF PodGrows
<1>5. Ended(w)'
  <2> SUFFICES ASSUME pc[w] = "markFinished" PROVE key[w] \in pods'[seen[w].podName].done
    BY DEF Ended
  <2>1. seen[w].podName \in Pods /\ key[w] \in pods[seen[w].podName].done
    BY <1>1 DEF WorkerInv, Bound, Ended
  <2>2. PodGrows(seen[w].podName)
    BY <2>1, PodsGrow
  <2> QED BY <2>1, <2>2 DEF PodGrows
<1>6. Held(w)'
  <2> SUFFICES ASSUME pc[w] = "patch" PROVE held[w] \subseteq ContainersOf(pods'[target[w]])
    BY DEF Held, ContainersOf
  <2>1. target[w] \in Pods /\ held[w] \subseteq ContainersOf(pods[target[w]])
    BY <1>1 DEF WorkerInv, Chosen, Held
  <2>2. PodGrows(target[w])
    BY <2>1, PodsGrow
  <2> QED BY <2>1, <2>2 DEF PodGrows, ContainersOf
<1> QED BY <1>2, <1>3, <1>4, <1>5, <1>6 DEF WorkerInv

(* A worker that moves brings about what its next step relies on.          *)
LEMMA MovingWorkerKept ==
  ASSUME IInv, [Next]_vars, NEW w \in Workers, Worker(w) PROVE WorkerInv(w)'
<1> USE DEF Goto
<1>1. /\ WorkerInv(w) /\ Busy(w) /\ seen[w] \in TaskVersion
      /\ pc \in [Workers -> Steps] /\ seen \in [Workers -> TaskVersion]
      /\ target \in [Workers -> Pods \cup {NoPod}] /\ held \in [Workers -> SUBSET Tasks]
  BY DEF IInv, Typed, TypeOK
<1>2. ASSUME pc'[w] \in {"idle", "getTask", "ok", "err"} PROVE WorkerInv(w)'
  BY <1>2 DEF WorkerInv, CopyHeld, Holding, Unassigned, Chosen, Held, Patched, Bound, Ended
<1>3. ASSUME pc[w] \in Holding, key[w]' = key[w], seen[w]' = seen[w]
      PROVE  CopyHeld(w)'
  <2>1. key[w] \in Tasks /\ OldVersion(seen[w], tasks[key[w]])
    BY <1>1, <1>3 DEF WorkerInv, CopyHeld, Busy, Holding
  <2>2. OldVersion(seen[w], tasks'[key[w]])
    BY <1>1, <2>1, CopyStays
  <2> QED BY <1>1, <1>3, <2>2 DEF WorkerInv, CopyHeld
<1>4. CASE GetWork(w) \/ CallFails(w) \/ FinishWork(w) \/ MarkRunning(w) \/ MarkFinished(w)
  BY <1>1, <1>2, <1>4 DEF GetWork, CallFails, FinishWork, MarkRunning, MarkFinished
<1>5. CASE GetTask(w)
  <2> DEFINE task == taskCache[key[w]]
  <2>1. CASE ~(task.exists /\ task.state # "Finished")
    BY <1>1, <1>2, <1>5, <2>1 DEF GetTask
  <2>2. CASE task.exists /\ task.state # "Finished"
    <3>1. key[w] \in Tasks /\ pc'[w] = "getCluster" /\ seen'[w] = task /\ key'[w] = key[w]
      BY <1>1, <1>5, <2>2 DEF GetTask, Busy
    <3>2. task \in TaskVersion /\ OldVersion(task, tasks[key[w]])
      BY <3>1 DEF IInv, Typed, TypeOK, TaskCopies
    <3>3. OldVersion(task, tasks'[key[w]])
      BY <3>1, <3>2, CopyStays
    <3> HIDE DEF task
    <3>4. CopyHeld(w)'
      BY <2>2, <3>1, <3>3 DEF CopyHeld
    <3> QED BY <3>1, <3>4 DEF WorkerInv, Unassigned, Chosen, Held, Patched, Bound, Ended
  <2> QED BY <2>1, <2>2
<1>6. CASE GetCluster(w)
  <2>1. CASE pc'[w] = "ok"
    BY <1>2, <2>1
  <2>2. CASE pc'[w] # "ok"
    <3>1. pc[w] \in Holding /\ pc'[w] = "getInput" /\ key'[w] = key[w] /\ seen'[w] = seen[w]
      BY <1>1, <1>6, <2>2 DEF GetCluster, Holding
    <3> QED BY <1>3, <3>1 DEF WorkerInv, Unassigned, Chosen, Held, Patched, Bound, Ended
  <2> QED BY <2>1, <2>2
<1>7. CASE GetInput(w)
  <2>1. CASE pc'[w] = "ok"
    BY <1>2, <2>1
  <2>2. CASE pc'[w] # "ok"
    <3>1. /\ pc[w] \in Holding /\ key'[w] = key[w] /\ seen'[w] = seen[w]
          /\ pc'[w] = IF seen[w].podName # NoPod THEN "getPod" ELSE "listPods"
      BY <1>1, <1>7, <2>2 DEF GetInput, Holding, Assigned
    <3>2. seen[w].podName \in Pods \cup {NoPod}
      BY <1>1 DEF TaskVersion
    <3> QED BY <1>3, <3>1, <3>2 DEF WorkerInv, Unassigned, Chosen, Held, Patched, Bound, Ended
  <2> QED BY <2>1, <2>2
<1>8. CASE GetPod(w)
  <2>1. CASE pc'[w] = "ok"
    BY <1>2, <2>1
  <2>2. CASE pc'[w] # "ok"
    <3>1. /\ pc[w] = "getPod" /\ key'[w] = key[w] /\ seen'[w] = seen[w]
          /\ pc'[w] = "markFinished" /\ key[w] \in podCache[seen[w].podName].done
      BY <1>1, <1>8, <2>2 DEF GetPod, FoundEnded
    <3>2. seen[w].podName \in Pods
      BY <1>1, <3>1 DEF WorkerInv, Bound
    <3>3. key[w] \in pods'[seen[w].podName].done
      BY <3>1, <3>2, PodsGrow DEF PodGrows, IInv, PodCopies, OldPod
    <3>4. CopyHeld(w)'
      BY <1>3, <3>1 DEF Holding
    <3> QED BY <3>1, <3>2, <3>3, <3>4 DEF WorkerInv, Unassigned, Chosen, Held, Patched, Bound, Ended
  <2> QED BY <2>1, <2>2
<1>9. CASE ListPods(w)
  <2>1. CASE pc'[w] = "err"
    BY <1>2, <2>1
  <2>2. CASE pc'[w] # "err"
    <3>1. /\ pc[w] = "listPods" /\ key'[w] = key[w] /\ seen'[w] = seen[w]
          /\ pc'[w] = "patch" /\ target'[w] \in Candidates(key[w]) /\ target'[w] \in MountedPods
          /\ held'[w] = ContainersOf(podCache[target'[w]])
      BY <1>1, <1>9, <2>2 DEF ListPods
    <3>2. target'[w] \in Pods /\ PodCluster[target'[w]] = ClusterOf[key[w]]
      BY <3>1 DEF Candidates
    <3>3. CopyHeld(w)' /\ Unassigned(w)'
      BY <1>1, <1>3, <3>1 DEF Holding, WorkerInv, Unassigned
    <3>4. Held(w)'
      <4>1. PodGrows(target'[w]) /\ held'[w] \subseteq ContainersOf(pods[target'[w]])
        BY <3>1, <3>2, PodsGrow DEF IInv, PodCopies, OldPod
      <4> QED BY <4>1 DEF Held, PodGrows, ContainersOf
    <3> QED BY <3>1, <3>2, <3>3, <3>4 DEF WorkerInv, Chosen, Patched, Bound, Ended
  <2> QED BY <2>1, <2>2
<1>10. CASE PatchPod(w)
  <2>1. CASE pc'[w] = "err"
    BY <1>2, <2>1
  <2>2. CASE pc'[w] # "err"
    <3>1. /\ pc[w] = "patch" /\ key'[w] = key[w] /\ seen'[w] = seen[w] /\ target'[w] = target[w]
          /\ pc'[w] = "markRunning" /\ ApplyPatch(w)
      BY <1>1, <1>10, <2>2 DEF PatchPod
    <3>2. CopyHeld(w)' /\ Unassigned(w)' /\ Chosen(w)'
      BY <1>1, <1>3, <3>1 DEF Holding, WorkerInv, Unassigned, Chosen
    <3>3. pods'[target[w]].ec[key[w]] # 0
      <4> DEFINE p == target[w]
                 ec == [pods[p].ec EXCEPT ![key[w]] = seen[w].uid]
      <4>1. p \in Pods /\ key[w] \in Tasks /\ pods[p] \in PodVersion
        BY <3>1, PatchEffect
      <4>2. seen[w].uid # 0
        BY <1>1, <3>1 DEF WorkerInv, CopyHeld, Holding, OldVersion, WellFormed
      <4>3. CASE pods[p].ec[key[w]] # 0 /\ UNCHANGED pods
        BY <4>3
      <4>4. CASE WritePod(p, [pods[p] EXCEPT !.ec = ec])
        <5>1. pods'[p].ec = ec
          <6> HIDE DEF ec
          <6> QED BY <4>1, <4>4 DEF WritePod, IInv, Typed, TypeOK, PodVersion
        <5> QED BY <4>1, <4>2, <5>1 DEF PodVersion
      <4> QED BY <3>1, <4>3, <4>4, PatchEffect
    <3> QED BY <3>1, <3>2, <3>3 DEF WorkerInv, Held, Patched, Bound, Ended
  <2> QED BY <2>1, <2>2
<1> QED BY <1>4, <1>5, <1>6, <1>7, <1>8, <1>9, <1>10 DEF Worker, SyncHandler

(* A worker's step leaves the others where they are.                       *)
LEMMA OthersStay ==
  ASSUME Typed, NEW u \in Workers, NEW w \in Workers, u # w, Worker(u)
  PROVE  /\ pc'[w] = pc[w] /\ key'[w] = key[w] /\ seen'[w] = seen[w]
         /\ target'[w] = target[w] /\ held'[w] = held[w]
<1>1. /\ pc \in [Workers -> Steps] /\ key \in [Workers -> Tasks \cup {NoTask}]
      /\ seen \in [Workers -> TaskVersion] /\ target \in [Workers -> Pods \cup {NoPod}]
      /\ held \in [Workers -> SUBSET Tasks]
  BY DEF Typed, TypeOK
<1>2. pc'[w] = pc[w]
  BY <1>1 DEF Worker, SyncHandler, GetWork, GetTask, GetCluster, GetInput, GetPod,
        ListPods, PatchPod, MarkRunning, MarkFinished, CallFails, FinishWork, Goto
<1>3. key'[w] = key[w] /\ seen'[w] = seen[w] /\ target'[w] = target[w] /\ held'[w] = held[w]
  BY <1>1 DEF Worker, SyncHandler, GetWork, GetTask, GetCluster, GetInput, GetPod,
        ListPods, PatchPod, MarkRunning, MarkFinished, CallFails, FinishWork
<1> QED BY <1>2, <1>3

LEMMA WorkersKept ==
  ASSUME IInv, [Next]_vars, NEW w \in Workers PROVE WorkerInv(w)'
<1>1. ASSUME UNCHANGED workerVars PROVE WorkerInv(w)'
  BY <1>1, OtherWorkersKept DEF workerVars
<1>2. CASE UNCHANGED vars
  BY <1>1, <1>2 DEF vars
<1>3. CASE Environment \/ Informers
  BY <1>1, <1>3, ApiStepEnvironment, ApiStepInformers DEF IInv
<1>4. CASE (\E n \in notify : Handle(n)) \/ (\E t \in retry : RetryDue(t))
  BY <1>1, <1>4 DEF Handle, RetryDue
<1>5. ASSUME NEW u \in Workers, Worker(u) PROVE WorkerInv(w)'
  <2>1. CASE u = w
    BY <1>5, <2>1, MovingWorkerKept
  <2>2. CASE u # w
    BY <1>5, <2>2, OthersStay, OtherWorkersKept DEF IInv
  <2> QED BY <2>1, <2>2
<1>6. CASE Restart
  BY <1>6 DEF Restart, WorkerInv, CopyHeld, Holding, Unassigned, Chosen, Held, Patched, Bound, Ended
<1> QED BY <1>2, <1>3, <1>4, <1>5, <1>6 DEF Next

(* How the status of one Task changes in a step.                           *)
LEMMA StatusStep ==
  ASSUME IInv, [Next]_vars, NEW t \in Tasks
  PROVE  \/ tasks'[t] = tasks[t]
         \/ Created(t, tasks'[t]) \/ Deleted(t, tasks'[t]) \/ Edited(t, tasks'[t])
         \/ MadeRunning(t, tasks'[t]) \/ MadeFinished(t, tasks'[t])
<1>1. CASE UNCHANGED tasks
  BY <1>1
<1>2. ASSUME NEW u \in Tasks, NEW v \in TaskVersion, TaskWrite(u, v)
      PROVE  \/ tasks'[t] = tasks[t]
             \/ Created(t, tasks'[t]) \/ Deleted(t, tasks'[t]) \/ Edited(t, tasks'[t])
             \/ MadeRunning(t, tasks'[t]) \/ MadeFinished(t, tasks'[t])
  BY <1>2 DEF TaskWrite, IInv, Typed, TypeOK
<1> QED BY <1>1, <1>2, StepEffect DEF ApiStep, TasksKept

LEMMA BindingKept == ASSUME IInv, [Next]_vars PROVE BindingHonoured'
<1> SUFFICES ASSUME NEW t \in Tasks, tasks'[t].podName # NoPod
             PROVE  pods'[tasks'[t].podName].ec[t] # 0
  BY DEF BindingHonoured
<1>1. CASE tasks'[t].podName = tasks[t].podName
  <2>1. tasks[t].podName \in Pods /\ pods[tasks[t].podName].ec[t] # 0
    BY <1>1 DEF IInv, BindingHonoured, Typed, TypeOK, TaskVersion
  <2> QED BY <1>1, <2>1, PodsGrow DEF PodGrows
<1>2. CASE MadeRunning(t, tasks'[t])
  <2>1. PICK w \in Workers : /\ pc[w] = "markRunning" /\ key[w] = t
                             /\ tasks'[t].podName = target[w]
    BY <1>2 DEF MadeRunning
  <2>2. target[w] \in Pods /\ pods[target[w]].ec[t] # 0
    BY <2>1 DEF IInv, WorkerInv, Chosen, Patched
  <2> QED BY <2>1, <2>2, PodsGrow DEF PodGrows
<1> QED BY <1>1, <1>2, StatusStep DEF Created, Deleted, Edited, MadeFinished

LEMMA FinishedKept == ASSUME IInv, [Next]_vars PROVE FinishedOnlyIfTerminated'
<1> SUFFICES ASSUME NEW t \in Tasks, tasks'[t].state = "Finished"
             PROVE  t \in pods'[tasks'[t].podName].done
  BY DEF FinishedOnlyIfTerminated
<1>1. CASE tasks'[t].podName = tasks[t].podName /\ tasks[t].state = "Finished"
  <2>1. tasks[t].podName \in Pods /\ t \in pods[tasks[t].podName].done
    <3>1. WellFormed(tasks[t]) /\ tasks[t].podName \in Pods \cup {NoPod}
      BY DEF IInv, TaskCopies, Typed, TypeOK, TaskVersion
    <3> QED BY <1>1, <3>1 DEF WellFormed, IInv, FinishedOnlyIfTerminated
  <2> QED BY <1>1, <2>1, PodsGrow DEF PodGrows
<1>2. CASE MadeFinished(t, tasks'[t])
  <2>1. PICK w \in Workers : pc[w] = "markFinished" /\ key[w] = t /\ seen[w] = tasks[t]
    BY <1>2 DEF MadeFinished
  <2>2. tasks[t].podName \in Pods /\ t \in pods[tasks[t].podName].done
    BY <2>1 DEF IInv, WorkerInv, Bound, Ended
  <2>3. tasks'[t].podName = tasks[t].podName
    BY <1>2 DEF MadeFinished
  <2> QED BY <2>2, <2>3, PodsGrow DEF PodGrows
<1> QED BY <1>1, <1>2, StatusStep DEF Created, Deleted, Edited, MadeRunning

LEMMA PlacementKept == ASSUME IInv, [Next]_vars PROVE PlacedWhereAllowed'
<1> SUFFICES ASSUME NEW p \in Pods, NEW t \in Tasks, pods'[p].ec[t] # 0
             PROVE  PodCluster[p] = ClusterOf[t] /\ p \in MountedPods
  BY DEF PlacedWhereAllowed
<1>1. CASE pods[p].ec[t] # 0
  BY <1>1 DEF IInv, PlacedWhereAllowed
<1>2. CASE pods[p].ec[t] = 0
  <2>1. PICK v \in PodVersion : PodWrite(p, v) /\ ContainerAdded(p, v)
    <3>1. PICK q \in Pods, v \in PodVersion : PodWrite(q, v)
      BY <1>2, StepEffect DEF ApiStep, PodsKept
    <3>2. q = p /\ pods'[p] = v
      BY <1>2, <3>1 DEF PodWrite, IInv, Typed, TypeOK
    <3> QED BY <1>2, <3>1, <3>2 DEF PodWrite, Conditions, ContainerEnded
  <2>2. PICK w \in Workers : /\ pc[w] = "patch" /\ target[w] = p
                             /\ v.ec = [pods[p].ec EXCEPT ![key[w]] = seen[w].uid]
    BY <2>1 DEF ContainerAdded
  <2>3. pods'[p] = v /\ pods[p].ec \in [Tasks -> Nat]
    BY <2>1 DEF PodWrite, IInv, Typed, TypeOK, PodVersion
  <2>4. key[w] = t
    BY <1>2, <2>2, <2>3
  <2> QED BY <2>2, <2>4 DEF IInv, WorkerInv, Chosen
<1> QED BY <1>1, <1>2

LEMMA IInvInit == Init => IInv
<1> SUFFICES ASSUME Init PROVE IInv
  OBVIOUS
<1>1. Typed
  BY TypedInit
<1>2. TaskCopies
  BY DEF Init, TaskCopies, OldVersion, WellFormed, NoTaskYet
<1>3. PodCopies
  BY DEF Init, PodCopies, OldPod, ContainersOf, NoPodYet
<1>4. \A w \in Workers : WorkerInv(w)
  BY DEF Init, WorkerInv, CopyHeld, Holding, Unassigned, Chosen, Held, Patched, Bound, Ended
<1>5. BindingHonoured /\ FinishedOnlyIfTerminated /\ PlacedWhereAllowed
  BY DEF Init, BindingHonoured, FinishedOnlyIfTerminated, PlacedWhereAllowed, NoTaskYet, NoPodYet
<1> QED BY <1>1, <1>2, <1>3, <1>4, <1>5 DEF IInv

LEMMA IInvStep == IInv /\ [Next]_vars => IInv'
<1> SUFFICES ASSUME IInv, [Next]_vars PROVE IInv'
  OBVIOUS
<1>1. Typed'
  BY TypedStep DEF IInv
<1> QED BY <1>1, TaskCopiesKept, PodCopiesKept, WorkersKept, BindingKept, FinishedKept,
           PlacementKept DEF IInv

THEOREM Invariance == Spec => []IInv
BY IInvInit, IInvStep, PTL DEF Spec

-----------------------------------------------------------------------------
(* The safety properties.                                                  *)

(* A status names only a Pod that was given the Task's container, for any  *)
(* number of workers, conflicts, failing calls and restarts.               *)
THEOREM BindingSafety == Spec => []BindingHonoured
<1>1. IInv => BindingHonoured
  BY DEF IInv
<1> QED BY <1>1, Invariance, PTL

(* A Task is Finished only if a container of its name ended in its Pod.    *)
THEOREM FinishedSafety == Spec => []FinishedOnlyIfTerminated
<1>1. IInv => FinishedOnlyIfTerminated
  BY DEF IInv
<1> QED BY <1>1, Invariance, PTL

(* Containers are only placed in Pods of the Task's TaskCluster that have  *)
(* the token volume.                                                       *)
THEOREM PlacementSafety == Spec => []PlacedWhereAllowed
<1>1. IInv => PlacedWhereAllowed
  BY DEF IInv
<1> QED BY <1>1, Invariance, PTL

(* No step takes a status back: not the Pod, not Running, not Finished.    *)
THEOREM ForwardOnly == Spec => StatusMovesForward
<1> DEFINE Forward(t) ==
      tasks[t].exists /\ tasks'[t].exists /\ tasks'[t].uid = tasks[t].uid =>
        /\ tasks[t].podName # NoPod => tasks'[t].podName = tasks[t].podName
        /\ tasks[t].state = "Finished" => tasks'[t].state = "Finished"
        /\ tasks[t].state = "Running" => tasks'[t].state # "New"
<1>1. ASSUME IInv, [Next]_vars, NEW t \in Tasks PROVE Forward(t)
  <2>1. CASE MadeRunning(t, tasks'[t])
    <3>1. PICK w \in Workers : pc[w] = "markRunning" /\ key[w] = t /\ seen[w] = tasks[t]
      BY <2>1 DEF MadeRunning
    <3>2. tasks[t].podName = NoPod /\ tasks[t].state # "Finished"
      BY <1>1, <3>1 DEF IInv, WorkerInv, Unassigned, CopyHeld, Holding
    <3>3. tasks'[t].state = "Running"
      BY <2>1 DEF MadeRunning
    <3> QED BY <3>2, <3>3
  <2>2. CASE MadeFinished(t, tasks'[t])
    BY <2>2 DEF MadeFinished
  <2>3. CASE Created(t, tasks'[t]) \/ Deleted(t, tasks'[t]) \/ Edited(t, tasks'[t])
    BY <2>3 DEF Created, Deleted, Edited
  <2> QED BY <1>1, <2>1, <2>2, <2>3, StatusStep
<1>2. IInv /\ [Next]_vars => [\A t \in Tasks : Forward(t)]_vars
  BY <1>1
<1> QED BY <1>2, Invariance, PTL DEF Spec, StatusMovesForward

=============================================================================
