--------------------------- MODULE TaskController ---------------------------
(***************************************************************************)
(* The Task controller of pkg/controllers/task_controller.go together with *)
(* the parts of Kubernetes it acts through:                                *)
(*                                                                         *)
(*   - the API server: Tasks (with optimistic concurrency on the status    *)
(*     subresource), worker Pods, TaskObjects and TaskClusters;            *)
(*   - the shared informers: one cache per object that lags the API server *)
(*     and the notifications they hand to the event handlers;              *)
(*   - the rate limited work queue and the workers that drain it.          *)
(*                                                                         *)
(* syncHandler is one action per lister read and per API call, because     *)
(* every other actor may run between any two of them.                      *)
(***************************************************************************)
EXTENDS Naturals, FiniteSets

CONSTANTS
  Tasks,          \* names of Tasks, the keys of the work queue
  Objects,        \* names of TaskObjects
  Clusters,       \* names of TaskClusters
  Pods,           \* names of Pods; a ReplicaSet never reuses one
  Workers,        \* goroutines running runWorker (main.go starts 2)
  NoTask, NoObject, NoPod, NoCluster,
  InputOf,        \* Task.Spec.InputObject, NoObject for ""
  ClusterOf,      \* Task.Spec.ClusterName
  PodCluster,     \* a Pod's "task-cluster" label, NoCluster without one
  PodContainers,  \* names in Pod.Spec.Containers: {"pause"} in newDeployment
  MountedPods,    \* Pods with a kube-api-access volume
  Standing,       \* TaskClusters created before the controller starts
  MaxUid,         \* bound: incarnations of one Task name
  MaxRv,          \* bound: users write a Task only below this version
  MaxPodRv,       \* bound: a Pod fails or is deleted only below this version
  MaxRev,         \* bound: creations plus deletions of a TaskObject/TaskCluster
  MaxFaults,      \* bound: API calls that return an error of their own
  MaxRestarts     \* bound: crashes and restarts of the controller

ASSUME ConstantsAssumption ==
  /\ NoTask \notin Tasks /\ NoObject \notin Objects
  /\ NoPod \notin Pods /\ NoCluster \notin Clusters
  /\ InputOf \in [Tasks -> Objects \cup {NoObject}]
  /\ ClusterOf \in [Tasks -> Clusters]
  /\ PodCluster \in [Pods -> Clusters \cup {NoCluster}]
  /\ MountedPods \subseteq Pods
  /\ Standing \subseteq Clusters
  /\ {MaxUid, MaxRv, MaxPodRv, MaxRev, MaxFaults, MaxRestarts} \subseteq Nat

(***************************************************************************)
(* Versions of the stored objects.  rv is the resourceVersion, uid the     *)
(* incarnation of the name.  ec maps every Task to the incarnation whose   *)
(* sync added its ephemeral container to the Pod, 0 for no container; done *)
(* is the set of Tasks whose container status says Terminated.  The state  *)
(* that a Task has before anyone sets it, "" in Go, is written "New".      *)
(***************************************************************************)
TaskStates == {"New", "Running", "Finished"}

TaskVersion == [rv: Nat, uid: Nat, exists: BOOLEAN,
                podName: Pods \cup {NoPod}, state: TaskStates]

PodVersion == [rv: Nat, exists: BOOLEAN, ready: BOOLEAN,
               ec: [Tasks -> Nat], done: SUBSET Tasks]

NoTaskYet == [rv |-> 0, uid |-> 0, exists |-> FALSE,
              podName |-> NoPod, state |-> "New"]

NoPodYet == [rv |-> 0, exists |-> FALSE, ready |-> FALSE,
             ec |-> [t \in Tasks |-> 0], done |-> {}]

(* A TaskObject or TaskCluster is only ever created and deleted; its       *)
(* revision counts those events, so it exists at the odd ones.             *)
Exists(rev) == rev % 2 = 1

(* What the informers have told the event handlers about, not yet handled. *)
Notification == ({"Task"} \X Tasks) \cup ({"Pod"} \X Pods)
                \cup ({"TaskObject"} \X Objects)

VARIABLES
  tasks, pods,            \* API server: the current version of each
  objRev, clusterRev,     \* API server: revision of each
  taskCache, podCache,    \* informers: the version a lister returns
  taskWatch, podWatch,    \* versions written and not yet seen by an informer
  objSeen, clusterSeen,   \* informers: the revision a lister returns
  notify,                 \* notifications not yet handled
  dirty, retry,           \* work queue: added keys; rate limited keys
  pc, key, seen,          \* workers: where, which Task, the copy of it
  target, held,           \* and the chosen Pod, the containers in the copy of that
  faults, restarts        \* how much of the two bounds was used

apiVars == <<tasks, pods, objRev, clusterRev>>
informerVars == <<taskCache, podCache, taskWatch, podWatch, objSeen, clusterSeen, notify>>
queueVars == <<dirty, retry>>
workerVars == <<pc, key, seen, target, held>>
envVars == <<faults, restarts>>
vars == <<apiVars, informerVars, queueVars, workerVars, envVars>>

Steps == {"idle", "getTask", "getCluster", "getInput", "getPod", "listPods",
          "patch", "markRunning", "markFinished", "ok", "err"}

TypeOK ==
  /\ tasks \in [Tasks -> TaskVersion] /\ taskCache \in [Tasks -> TaskVersion]
  /\ taskWatch \in [Tasks -> SUBSET TaskVersion]
  /\ pods \in [Pods -> PodVersion] /\ podCache \in [Pods -> PodVersion]
  /\ podWatch \in [Pods -> SUBSET PodVersion]
  /\ objRev \in [Objects -> Nat] /\ objSeen \in [Objects -> Nat]
  /\ clusterRev \in [Clusters -> Nat] /\ clusterSeen \in [Clusters -> Nat]
  /\ notify \subseteq Notification
  /\ dirty \subseteq Tasks /\ retry \subseteq Tasks
  /\ pc \in [Workers -> Steps] /\ key \in [Workers -> Tasks \cup {NoTask}]
  /\ seen \in [Workers -> TaskVersion]
  /\ target \in [Workers -> Pods \cup {NoPod}] /\ held \in [Workers -> SUBSET Tasks]
  /\ faults \in Nat /\ restarts \in Nat

Init ==
  /\ tasks = [t \in Tasks |-> NoTaskYet] /\ taskCache = tasks
  /\ pods = [p \in Pods |-> NoPodYet] /\ podCache = pods
  /\ taskWatch = [t \in Tasks |-> {}] /\ podWatch = [p \in Pods |-> {}]
  /\ objRev = [o \in Objects |-> 0] /\ objSeen = objRev
  /\ clusterRev = [c \in Clusters |-> IF c \in Standing THEN 1 ELSE 0]
  /\ clusterSeen = clusterRev
  /\ notify = {} /\ dirty = {} /\ retry = {}
  /\ pc = [w \in Workers |-> "idle"] /\ key = [w \in Workers |-> NoTask]
  /\ seen = [w \in Workers |-> NoTaskYet] /\ target = [w \in Workers |-> NoPod]
  /\ held = [w \in Workers |-> {}]
  /\ faults = 0 /\ restarts = 0

-----------------------------------------------------------------------------
(* The API server.  Every accepted write is a new version, which the watch *)
(* of the corresponding informer will eventually see.                      *)

WriteTask(t, v) ==
  LET new == [v EXCEPT !.rv = tasks[t].rv + 1] IN
  /\ tasks' = [tasks EXCEPT ![t] = new]
  /\ taskWatch' = [taskWatch EXCEPT ![t] = @ \cup {new}]

WritePod(p, v) ==
  LET new == [v EXCEPT !.rv = pods[p].rv + 1] IN
  /\ pods' = [pods EXCEPT ![p] = new]
  /\ podWatch' = [podWatch EXCEPT ![p] = @ \cup {new}]

(* UpdateStatus of a copy: accepted only if the copy is of the version     *)
(* stored now, which its resourceVersion says.                             *)
Current(t, copy) == tasks[t].exists /\ tasks[t].rv = copy.rv

-----------------------------------------------------------------------------
(* Users, the running Tasks, the ReplicaSet and the kubelet.               *)

CreateTask(t) ==
  /\ ~tasks[t].exists /\ tasks[t].uid < MaxUid
  /\ WriteTask(t, [NoTaskYet EXCEPT !.uid = tasks[t].uid + 1, !.exists = TRUE])
  /\ UNCHANGED <<pods, objRev, clusterRev, taskCache, podCache, podWatch, objSeen,
                 clusterSeen, notify, queueVars, workerVars, envVars>>

DeleteTask(t) ==
  /\ tasks[t].exists /\ tasks[t].rv < MaxRv
  /\ WriteTask(t, [tasks[t] EXCEPT !.exists = FALSE, !.podName = NoPod, !.state = "New"])
  /\ UNCHANGED <<pods, objRev, clusterRev, taskCache, podCache, podWatch, objSeen,
                 clusterSeen, notify, queueVars, workerVars, envVars>>

(* A write that leaves the status alone, such as a label or an annotation. *)
EditTask(t) ==
  /\ tasks[t].exists /\ tasks[t].rv < MaxRv
  /\ WriteTask(t, tasks[t])
  /\ UNCHANGED <<pods, objRev, clusterRev, taskCache, podCache, podWatch, objSeen,
                 clusterSeen, notify, queueVars, workerVars, envVars>>

ToggleObject(o) ==
  /\ objRev[o] < MaxRev
  /\ objRev' = [objRev EXCEPT ![o] = @ + 1]
  /\ UNCHANGED <<tasks, pods, clusterRev, informerVars, queueVars, workerVars, envVars>>

ToggleCluster(c) ==
  /\ clusterRev[c] < MaxRev
  /\ clusterRev' = [clusterRev EXCEPT ![c] = @ + 1]
  /\ UNCHANGED <<tasks, pods, objRev, informerVars, queueVars, workerVars, envVars>>

CreatePod(p) ==
  /\ pods[p].rv = 0
  /\ WritePod(p, [pods[p] EXCEPT !.exists = TRUE])
  /\ UNCHANGED <<tasks, objRev, clusterRev, taskCache, podCache, taskWatch, objSeen,
                 clusterSeen, notify, queueVars, workerVars, envVars>>

PodBecomesReady(p) ==
  /\ pods[p].exists /\ ~pods[p].ready
  /\ WritePod(p, [pods[p] EXCEPT !.ready = TRUE])
  /\ UNCHANGED <<tasks, objRev, clusterRev, taskCache, podCache, taskWatch, objSeen,
                 clusterSeen, notify, queueVars, workerVars, envVars>>

PodBecomesUnready(p) ==
  /\ pods[p].exists /\ pods[p].ready /\ pods[p].rv < MaxPodRv
  /\ WritePod(p, [pods[p] EXCEPT !.ready = FALSE])
  /\ UNCHANGED <<tasks, objRev, clusterRev, taskCache, podCache, taskWatch, objSeen,
                 clusterSeen, notify, queueVars, workerVars, envVars>>

(* The last contents of a deleted Pod are kept: its name never returns.    *)
DeletePod(p) ==
  /\ pods[p].exists /\ pods[p].rv < MaxPodRv
  /\ WritePod(p, [pods[p] EXCEPT !.exists = FALSE, !.ready = FALSE])
  /\ UNCHANGED <<tasks, objRev, clusterRev, taskCache, podCache, taskWatch, objSeen,
                 clusterSeen, notify, queueVars, workerVars, envVars>>

(* The kubelet reports that the ephemeral container of t ended.            *)
ContainerTerminates(p, t) ==
  /\ pods[p].exists /\ pods[p].ec[t] # 0 /\ t \notin pods[p].done
  /\ WritePod(p, [pods[p] EXCEPT !.done = @ \cup {t}])
  /\ UNCHANGED <<tasks, objRev, clusterRev, taskCache, podCache, taskWatch, objSeen,
                 clusterSeen, notify, queueVars, workerVars, envVars>>

Environment ==
  \/ \E t \in Tasks : CreateTask(t) \/ DeleteTask(t) \/ EditTask(t)
  \/ \E o \in Objects : ToggleObject(o)
  \/ \E c \in Clusters : ToggleCluster(c)
  \/ \E p \in Pods : \/ CreatePod(p) \/ PodBecomesReady(p)
                     \/ PodBecomesUnready(p) \/ DeletePod(p)
                     \/ \E t \in Tasks : ContainerTerminates(p, t)

-----------------------------------------------------------------------------
(* The shared informers.  A cache moves to a later version: the next one   *)
(* for a watch event, any later one after a relist.  The handlers run      *)
(* afterwards, on their own goroutine.                                     *)

LaterThan(v, S) == {u \in S : u.rv > v.rv}

(* The Task informer has an AddFunc and an UpdateFunc but no DeleteFunc.   *)
SeeTask(t) ==
  \E v \in taskWatch[t] :
    /\ taskCache' = [taskCache EXCEPT ![t] = v]
    /\ taskWatch' = [taskWatch EXCEPT ![t] = LaterThan(v, @)]
    /\ notify' = IF v.exists THEN notify \cup {<<"Task", t>>} ELSE notify
    /\ UNCHANGED <<apiVars, podCache, podWatch, objSeen, clusterSeen,
                   queueVars, workerVars, envVars>>

(* A deletion found by a relist arrives as a DeletedFinalStateUnknown, on  *)
(* which the type switch of handleObject falls through to its default.     *)
SeePod(p) ==
  \E v \in podWatch[p] :
    /\ podCache' = [podCache EXCEPT ![p] = v]
    /\ podWatch' = [podWatch EXCEPT ![p] = LaterThan(v, @)]
    /\ \/ notify' = notify \cup {<<"Pod", p>>}
       \/ ~v.exists /\ UNCHANGED notify
    /\ UNCHANGED <<apiVars, taskCache, taskWatch, objSeen, clusterSeen,
                   queueVars, workerVars, envVars>>

SeeObject(o) ==
  \E r \in (objSeen[o] + 1)..objRev[o] :
    /\ objSeen' = [objSeen EXCEPT ![o] = r]
    /\ \/ notify' = notify \cup {<<"TaskObject", o>>}
       \/ ~Exists(r) /\ UNCHANGED notify
    /\ UNCHANGED <<apiVars, taskCache, podCache, taskWatch, podWatch, clusterSeen,
                   queueVars, workerVars, envVars>>

(* The Task controller reads TaskClusters but installs no handler on them. *)
SeeCluster(c) ==
  \E r \in (clusterSeen[c] + 1)..clusterRev[c] :
    /\ clusterSeen' = [clusterSeen EXCEPT ![c] = r]
    /\ UNCHANGED <<apiVars, taskCache, podCache, taskWatch, podWatch, objSeen, notify,
                   queueVars, workerVars, envVars>>

ResyncFiltered(t) == FALSE /\ UNCHANGED vars  \* mutant: compares versions as for Pods

(* Every 30 seconds each cached object is handed to UpdateFunc again.  The *)
(* Pod and TaskObject handlers drop an update of an unchanged version; the *)
(* Task handler does not.                                                  *)
Resync(t) ==
  /\ taskCache[t].exists
  /\ notify' = notify \cup {<<"Task", t>>}
  /\ UNCHANGED <<apiVars, taskCache, podCache, taskWatch, podWatch, objSeen, clusterSeen,
                 queueVars, workerVars, envVars>>

-----------------------------------------------------------------------------
(* The event handlers.                                                     *)

EnqueuedByTaskOnly(n) == IF n[1] = "Task" THEN {n[2]} ELSE {}  \* mutant: no TaskObject handler
EnqueuedByName(n) == {n[2]}  \* mutant: enqueues the TaskObject, not its Tasks

(* The Tasks a handler enqueues for a notification n.                      *)
EnqueuedBy(n) ==
  CASE n[1] = "Task"       -> {n[2]}
    [] n[1] = "Pod"        -> {t \in PodContainers \cap Tasks :
                                 PodCluster[n[2]] # NoCluster /\ taskCache[t].exists}
    [] n[1] = "TaskObject" -> {t \in Tasks : InputOf[t] = n[2] /\ taskCache[t].exists}

Handle(n) ==
  /\ n \in notify
  /\ notify' = notify \ {n}
  /\ dirty' = dirty \cup EnqueuedBy(n)
  /\ UNCHANGED <<apiVars, taskCache, podCache, taskWatch, podWatch, objSeen, clusterSeen,
                 retry, workerVars, envVars>>

-----------------------------------------------------------------------------
(* The work queue and the workers.                                         *)

ProcessingUntilGet == {}  \* mutant: Done is called before syncHandler

(* Keys between Get and the deferred Done: no Get returns them again.      *)
Processing == {key[w] : w \in {x \in Workers : pc[x] # "idle"}}

Goto(w, step) == pc' = [pc EXCEPT ![w] = step]

(* The back-off of a rate limited key has elapsed.                         *)
RetryDue(t) ==
  /\ t \in retry
  /\ retry' = retry \ {t}
  /\ dirty' = dirty \cup {t}
  /\ UNCHANGED <<apiVars, informerVars, workerVars, envVars>>

(* workqueue.Get: an added key that no other worker is processing.         *)
GetWork(w) ==
  /\ pc[w] = "idle"
  /\ \E t \in dirty \ Processing :
       /\ key' = [key EXCEPT ![w] = t]
       /\ dirty' = dirty \ {t}
  /\ Goto(w, "getTask")
  /\ UNCHANGED <<apiVars, informerVars, retry, seen, target, held, envVars>>

GetTask(w) ==
  LET task == taskCache[key[w]] IN
  /\ pc[w] = "getTask"
  /\ IF task.exists /\ task.state # "Finished"
     THEN Goto(w, "getCluster") /\ seen' = [seen EXCEPT ![w] = task]
     ELSE Goto(w, "ok") /\ UNCHANGED seen
  /\ UNCHANGED <<apiVars, informerVars, queueVars, key, target, held, envVars>>

GetCluster(w) ==
  /\ pc[w] = "getCluster"
  /\ Goto(w, IF Exists(clusterSeen[ClusterOf[key[w]]]) THEN "getInput" ELSE "ok")
  /\ UNCHANGED <<apiVars, informerVars, queueVars, key, seen, target, held, envVars>>

InputVisible(t) == InputOf[t] = NoObject \/ Exists(objSeen[InputOf[t]])

AssignedNever(copy) == FALSE  \* mutant: the check of Status.PodName dropped

Assigned(copy) == copy.podName # NoPod

GetInput(w) ==
  /\ pc[w] = "getInput"
  /\ Goto(w, IF ~InputVisible(key[w]) THEN "ok"
             ELSE IF Assigned(seen[w]) THEN "getPod" ELSE "listPods")
  /\ UNCHANGED <<apiVars, informerVars, queueVars, key, seen, target, held, envVars>>

FoundStarted(pod, t) == pod.exists /\ pod.ec[t] # 0  \* mutant: containsTaskContainer
FoundEndedOrGone(pod, t) == ~pod.exists \/ t \in pod.done  \* mutant: not found means ended

FoundAnyEnded(pod, t) == pod.exists /\ pod.done # {}  \* mutant: names not compared

(* The Pod is found and isTaskTerminated holds of it.                      *)
FoundEnded(pod, t) == pod.exists /\ t \in pod.done

(* The Task has a Pod: finish it once its container status is Terminated.  *)
GetPod(w) ==
  /\ pc[w] = "getPod"
  /\ Goto(w, IF FoundEnded(podCache[seen[w].podName], key[w])
             THEN "markFinished" ELSE "ok")
  /\ UNCHANGED <<apiVars, informerVars, queueVars, key, seen, target, held, envVars>>

CandidatesAnywhere(t) == {p \in Pods : podCache[p].exists}  \* mutant: no label selector

(* The Pods the selector finds in the cache.                               *)
Candidates(t) == {p \in Pods : podCache[p].exists /\ PodCluster[p] = ClusterOf[t]}

(* The Tasks with an ephemeral container in a version of a Pod.            *)
ContainersOf(pod) == {t \in Tasks : pod.ec[t] # 0}

(* Pick one Pod at random; it must be ready and have the token volume.     *)
ListPods(w) ==
  /\ pc[w] = "listPods"
  /\ \/ /\ Candidates(key[w]) = {}
        /\ Goto(w, "err") /\ UNCHANGED <<target, held>>
     \/ \E p \in Candidates(key[w]) :
          IF podCache[p].ready /\ p \in MountedPods
          THEN /\ target' = [target EXCEPT ![w] = p]
               /\ held' = [held EXCEPT ![w] = ContainersOf(podCache[p])]
               /\ Goto(w, "patch")
          ELSE Goto(w, "err") /\ UNCHANGED <<target, held>>
  /\ UNCHANGED <<apiVars, informerVars, queueVars, key, seen, envVars>>

(* appendTaskContainer: the list of the copy with the container added.     *)
Appended(w) == held[w] \cup {key[w]}

MergedUnchanged(w) ==  \* mutant: appendTaskContainer without its DeepCopy
  ContainersOf(pods[target[w]])

MergedSwapped(w) ==  \* mutant: the two copies given to the patch swapped
  LET old == Appended(w)  new == held[w] IN
  (ContainersOf(pods[target[w]]) \ (old \ new)) \cup (new \ old)

(* The strategic merge patch holds what changed from the cached copy to    *)
(* its own, by container name; the API server applies it to the list it    *)
(* holds now.                                                              *)
Merged(w) ==
  LET old == held[w]  new == Appended(w) IN
  (ContainersOf(pods[target[w]]) \ (old \ new)) \cup (new \ old)

(* A patch is refused of a Pod that is gone, if it drops a container, or   *)
(* if it names one like an ordinary container.                             *)
PatchAccepted(w) ==
  /\ pods[target[w]].exists
  /\ ContainersOf(pods[target[w]]) \subseteq Merged(w)
  /\ Merged(w) \cap PodContainers = {}

(* So it is, perhaps, if it gives another spec to a container of that name *)
(* that an earlier incarnation of the Task left there.                     *)
PatchRefused(w) ==
  ~PatchAccepted(w) \/ pods[target[w]].ec[key[w]] \notin {0, seen[w].uid}

ApplyPatch(w) ==
  LET p == target[w]  added == Merged(w) \ ContainersOf(pods[p]) IN
  IF added # {}
  THEN WritePod(p, [pods[p] EXCEPT !.ec = [t \in Tasks |->
                      IF t \in added THEN seen[w].uid ELSE pods[p].ec[t]]])
  ELSE UNCHANGED <<pods, podWatch>>

PatchPod(w) ==
  /\ pc[w] = "patch"
  /\ \/ PatchAccepted(w) /\ ApplyPatch(w) /\ Goto(w, "markRunning")
     \/ PatchRefused(w) /\ UNCHANGED <<pods, podWatch>> /\ Goto(w, "err")
  /\ UNCHANGED <<tasks, objRev, clusterRev, taskCache, podCache, taskWatch, objSeen,
                 clusterSeen, notify, queueVars, key, seen, target, held, envVars>>

(* markTaskRunning and markTaskFinished change a copy of what GetTask read. *)
WriteRunning(w) ==
  WriteTask(key[w], [seen[w] EXCEPT !.podName = target[w], !.state = "Running"])

WriteFinished(w) ==
  WriteTask(key[w], [seen[w] EXCEPT !.state = "Finished"])

MarkRunningAnyVersion(w) ==  \* mutant: reads the Task again on a conflict, and binds it
  /\ pc[w] = "markRunning"
  /\ IF tasks[key[w]].exists
     THEN /\ WriteTask(key[w], [tasks[key[w]] EXCEPT !.podName = target[w], !.state = "Running"])
          /\ Goto(w, "ok")
     ELSE Goto(w, "err") /\ UNCHANGED <<tasks, taskWatch>>
  /\ UNCHANGED <<pods, objRev, clusterRev, taskCache, podCache, podWatch, objSeen,
                 clusterSeen, notify, queueVars, key, seen, target, held, envVars>>

MarkRunning(w) ==
  /\ pc[w] = "markRunning"
  /\ IF Current(key[w], seen[w])
     THEN WriteRunning(w) /\ Goto(w, "ok")
     ELSE Goto(w, "err") /\ UNCHANGED <<tasks, taskWatch>>
  /\ UNCHANGED <<pods, objRev, clusterRev, taskCache, podCache, podWatch, objSeen,
                 clusterSeen, notify, queueVars, key, seen, target, held, envVars>>

MarkFinished(w) ==
  /\ pc[w] = "markFinished"
  /\ IF Current(key[w], seen[w])
     THEN WriteFinished(w) /\ Goto(w, "ok")
     ELSE Goto(w, "err") /\ UNCHANGED <<tasks, taskWatch>>
  /\ UNCHANGED <<pods, objRev, clusterRev, taskCache, podCache, podWatch, objSeen,
                 clusterSeen, notify, queueVars, key, seen, target, held, envVars>>

(* An API call fails on its own: either it never took effect, or it did    *)
(* and its answer was lost.                                                *)
CallFails(w) ==
  /\ faults < MaxFaults /\ faults' = faults + 1
  /\ pc[w] \in {"patch", "markRunning", "markFinished"}
  /\ Goto(w, "err")
  /\ \/ UNCHANGED <<tasks, taskWatch, pods, podWatch>>
     \/ /\ pc[w] = "patch" /\ PatchAccepted(w)
        /\ ApplyPatch(w) /\ UNCHANGED <<tasks, taskWatch>>
     \/ /\ pc[w] = "markRunning" /\ Current(key[w], seen[w])
        /\ WriteRunning(w) /\ UNCHANGED <<pods, podWatch>>
     \/ /\ pc[w] = "markFinished" /\ Current(key[w], seen[w])
        /\ WriteFinished(w) /\ UNCHANGED <<pods, podWatch>>
  /\ UNCHANGED <<objRev, clusterRev, taskCache, podCache, objSeen, clusterSeen, notify,
                 queueVars, key, seen, target, held, restarts>>

NotRequeued(w) == retry  \* mutant: an error is only logged

Requeued(w) == IF pc[w] = "err" THEN retry \cup {key[w]} ELSE retry

(* processNextWorkItem: Forget and Done, or AddRateLimited and Done.       *)
FinishWork(w) ==
  /\ pc[w] \in {"ok", "err"}
  /\ retry' = Requeued(w)
  /\ Goto(w, "idle")
  /\ key' = [key EXCEPT ![w] = NoTask]
  /\ seen' = [seen EXCEPT ![w] = NoTaskYet]
  /\ target' = [target EXCEPT ![w] = NoPod] /\ held' = [held EXCEPT ![w] = {}]
  /\ UNCHANGED <<apiVars, informerVars, dirty, envVars>>

WaitedLess == {"Tasks", "Pods"}  \* mutant: taskClustersSynced forgotten

(* The caches that Run waits for before it starts the workers; that of the *)
(* TaskObjects is not among them.                                          *)
Waited == {"TaskClusters", "Tasks", "Pods"}

Filled(kind, stored, empty) == IF kind \in Waited THEN stored ELSE empty

(* The controller dies at any point and a new one starts: work queue and   *)
(* workers are gone.  By the time its workers start, the caches waited for *)
(* have been listed and the handlers told; any other may still be empty.   *)
Restart ==
  /\ restarts < MaxRestarts /\ restarts' = restarts + 1
  /\ taskCache' = Filled("Tasks", tasks, [t \in Tasks |-> NoTaskYet])
  /\ taskWatch' = [t \in Tasks |-> Filled("Tasks", {}, {tasks[t]})]
  /\ podCache' = Filled("Pods", pods, [p \in Pods |-> NoPodYet])
  /\ podWatch' = [p \in Pods |-> Filled("Pods", {}, {pods[p]})]
  /\ clusterSeen' = Filled("TaskClusters", clusterRev, [c \in Clusters |-> 0])
  /\ objSeen' = Filled("TaskObjects", objRev, [o \in Objects |-> 0])
  /\ notify' = {<<"Task", t>> : t \in {u \in Tasks : taskCache'[u].exists}}
               \cup {<<"Pod", p>> : p \in {q \in Pods : podCache'[q].exists}}
  /\ dirty' = {} /\ retry' = {}
  /\ pc' = [w \in Workers |-> "idle"] /\ key' = [w \in Workers |-> NoTask]
  /\ seen' = [w \in Workers |-> NoTaskYet] /\ target' = [w \in Workers |-> NoPod]
  /\ held' = [w \in Workers |-> {}]
  /\ UNCHANGED <<apiVars, faults>>

-----------------------------------------------------------------------------
Informers ==
  \/ \E t \in Tasks : SeeTask(t) \/ Resync(t)
  \/ \E p \in Pods : SeePod(p)
  \/ \E o \in Objects : SeeObject(o)
  \/ \E c \in Clusters : SeeCluster(c)

SyncHandler(w) ==
  \/ GetTask(w) \/ GetCluster(w) \/ GetInput(w) \/ GetPod(w) \/ ListPods(w)
  \/ PatchPod(w) \/ MarkRunning(w) \/ MarkFinished(w)

Worker(w) == GetWork(w) \/ SyncHandler(w) \/ CallFails(w) \/ FinishWork(w)

Next ==
  \/ Environment
  \/ Informers
  \/ \E n \in notify : Handle(n)
  \/ \E t \in retry : RetryDue(t)
  \/ \E w \in Workers : Worker(w)
  \/ Restart

Spec == Init /\ [][Next]_vars

(* Fairness.  The informers keep delivering, the handlers and workers keep *)
(* running, back-offs end, and the queue is first in first out, so a key   *)
(* in it is not passed over for ever.  Of the cluster: Pods are started,   *)
(* become ready, and the containers of Tasks end.                          *)
GetWorkOn(t) == \E w \in Workers : GetWork(w) /\ key'[w] = t

EventFairness ==
  /\ \A t \in Tasks : /\ WF_vars(SeeTask(t)) /\ WF_vars(RetryDue(t))
                      /\ SF_vars(GetWorkOn(t))
  /\ \A p \in Pods : WF_vars(SeePod(p)) /\ WF_vars(CreatePod(p)) /\ WF_vars(PodBecomesReady(p))
  /\ \A o \in Objects : WF_vars(SeeObject(o))
  /\ \A c \in Clusters : WF_vars(SeeCluster(c))
  /\ \A n \in Notification : WF_vars(Handle(n))
  /\ \A w \in Workers : WF_vars(SyncHandler(w)) /\ WF_vars(FinishWork(w))

ResyncFairness ==
  /\ \A t \in Tasks : WF_vars(Resync(t))
  /\ \A p \in Pods, t \in Tasks : WF_vars(ContainerTerminates(p, t))

EventSpec == Spec /\ EventFairness

-----------------------------------------------------------------------------
(* Safety.                                                                 *)

(* A status never names a Pod that did not get the Task's container: the   *)
(* binding is written only after the patch was applied, whatever calls     *)
(* failed, lost their answer or were repeated in between.                  *)
BindingHonoured ==
  \A t \in Tasks : tasks[t].podName # NoPod => pods[tasks[t].podName].ec[t] # 0

(* A Task is marked Finished only if the container of that name in its Pod *)
(* has really terminated, although syncHandler looks at a stale Pod.       *)
FinishedOnlyIfTerminated ==
  \A t \in Tasks : tasks[t].state = "Finished" => t \in pods[tasks[t].podName].done

(* While an incarnation of a Task lives, its status only moves forward: a  *)
(* Pod once named stays, and Finished stays, however old the copies are    *)
(* from which markTaskRunning and markTaskFinished write.                  *)
StatusMovesForward ==
  [][\A t \in Tasks :
       tasks[t].exists /\ tasks'[t].exists /\ tasks'[t].uid = tasks[t].uid =>
         /\ tasks[t].podName # NoPod => tasks'[t].podName = tasks[t].podName
         /\ tasks[t].state = "Finished" => tasks'[t].state = "Finished"
         /\ tasks[t].state = "Running" => tasks'[t].state # "New"]_vars

(* A Task is launched by one sync at a time: from the patch that adds its  *)
(* container until the status update that says where, no other worker adds *)
(* another elsewhere, although the key may be queued again all the while.  *)
OneLaunchAtATime ==
  [][\A w \in Workers, t \in Tasks :
       key[w] = t /\ pc[w] = "markRunning" =>
         \A p \in Pods : pods'[p].ec[t] = pods[p].ec[t]]_vars

(* A container is only ever placed in a Pod the selector can name: one of  *)
(* the Task's own TaskCluster that has the token volume.                   *)
PlacedWhereAllowed ==
  \A p \in Pods, t \in Tasks :
    pods[p].ec[t] # 0 => PodCluster[p] = ClusterOf[t] /\ p \in MountedPods

(* What the code gives in place of single execution: once the informer has *)
(* seen the binding and no worker holds an older copy, no later step of    *)
(* anyone adds another container for this incarnation.                     *)
Settled(t) ==
  /\ taskCache[t].exists /\ taskCache[t].podName # NoPod
  /\ \A w \in Workers :
       key[w] = t /\ pc[w] \in {"getCluster", "getInput", "listPods", "patch"}
         => seen[w].podName # NoPod

SettledIsNotLaunchedAgain ==
  [][\A t \in Tasks :
       Settled(t) =>
         /\ Settled(t)' \/ taskCache'[t].uid # taskCache[t].uid \/ ~taskCache'[t].exists
         /\ \A p \in Pods : pods'[p].ec[t] = pods[p].ec[t]]_vars

(* A Task whose Pod was deleted before its end was noticed stays Running   *)
(* until it is deleted: syncHandler returns nil when the Pod is not found  *)
(* and looks for no other.                                                 *)
Orphaned(t) ==
  /\ tasks[t].exists /\ tasks[t].state = "Running"
  /\ podCache[tasks[t].podName].rv > 0 /\ ~podCache[tasks[t].podName].exists
  /\ \A w \in Workers : ~(key[w] = t /\ pc[w] = "markFinished")

OrphanStaysOrphan ==
  [][\A t \in Tasks : Orphaned(t) => Orphaned(t)' \/ ~tasks'[t].exists]_vars

(* No wake-up is lost between two informers: an unbound Task whose input   *)
(* is visible is queued, waiting for its back-off, being processed, or has *)
(* a notification on its way, without the help of the resync.  (A          *)
(* TaskCluster seen late wakes nobody, so it is one that was there first.) *)
Schedulable(t) ==
  /\ taskCache[t].exists /\ taskCache[t].podName = NoPod /\ taskWatch[t] = {}
  /\ InputVisible(t)
  /\ ClusterOf[t] \in Standing /\ clusterRev[ClusterOf[t]] = 1

Awake(t) ==
  \/ t \in dirty \cup retry \cup Processing
  \/ notify \cap {<<"Task", t>>, <<"TaskObject", InputOf[t]>>} # {}

NoLostWakeup == \A t \in Tasks : Schedulable(t) => Awake(t)

-----------------------------------------------------------------------------
(* Liveness.                                                               *)

InputExists(t) == InputOf[t] = NoObject \/ Exists(objRev[InputOf[t]])

(* No informer has shown the Task yet, and its TaskCluster is in the cache.*)
AfterItsCluster(t) ==
  tasks[t].exists /\ ~taskCache[t].exists /\ Exists(clusterSeen[ClusterOf[t]])

(* README.md:32-34: once a Task and its TaskObject exist, in either order, *)
(* events alone, without any resync, get the Task bound to a Pod, through  *)
(* stale reads, conflicts, failing calls and restarts.  Its TaskCluster    *)
(* must have been there first: nothing wakes a Task when one comes late.   *)
EventsBindTasks ==
  \A t \in Tasks :
    []<>InputExists(t) =>
      (AfterItsCluster(t) ~> tasks[t].podName # NoPod \/ ~tasks[t].exists)

(* With the 30 second resync of main.go besides, and containers that end,  *)
(* a Task whose input and TaskCluster exist is eventually Finished, or     *)
(* deleted, whichever of the three came last.                              *)
EveryTaskFinishes ==
  ResyncFairness =>
    \A t \in Tasks :
      tasks[t].exists /\ InputExists(t) /\ Exists(clusterRev[ClusterOf[t]])
        ~> tasks[t].state = "Finished" \/ ~tasks[t].exists

-----------------------------------------------------------------------------
(* What the documentation says and the code does not do.                   *)

(* README.md:41-44: the update of a Pod in which a Task terminated makes   *)
(* the controller enqueue that Task.  handlePod goes through the ordinary  *)
(* containers instead of the ephemeral ones.                               *)
PodUpdateEnqueuesItsTasks ==
  [][\A p \in Pods, t \in Tasks :
       /\ <<"Pod", p>> \in notify \ notify' /\ restarts' = restarts
       /\ t \in podCache[p].done
       /\ taskCache[t].exists /\ taskCache[t].podName = p /\ taskCache[t].state = "Running"
       => t \in dirty']_vars

(* task_controller.go:240-241: a Task is Finished if it terminated, that   *)
(* is, if its own container did and not one of an earlier Task so named.   *)
FinishedMeansItRan ==
  \A t \in Tasks : tasks[t].state = "Finished" =>
    pods[tasks[t].podName].ec[t] = tasks[t].uid

-----------------------------------------------------------------------------
(* The lifecycle this controller implements.                               *)
Lifecycle == INSTANCE TaskLifecycle WITH
  status <- [t \in Tasks |-> [uid |-> tasks[t].uid, exists |-> tasks[t].exists,
                              podName |-> tasks[t].podName, state |-> tasks[t].state]],
  launched <- {x \in Pods \X Tasks : pods[x[1]].ec[x[2]] # 0},
  ended <- {x \in Pods \X Tasks : x[2] \in pods[x[1]].done}

(* Every behaviour of the controller, seen through Task statuses and the   *)
(* containers of the Pods, is one of the lifecycle.                        *)
ImplementsLifecycle == Lifecycle!Spec

=============================================================================
