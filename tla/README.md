# Verification of the dynamic batch controllers

This directory holds TLA+ specifications of the controllers of this
repository, the TLC configurations that model-check them on small instances,
and TLAPS proofs of their main properties for every value of the constants.
Paths are relative to the root of the repository; `task_controller.go` and
`taskcluster_controller.go` are the ones in `pkg/controllers/`.

Contents: 1 the system, 2 the modules, 3 the Task controller, 4 the TaskCluster
controller, 5 the process, 6 the informer factory, 7 the counter demo, 8 shared
memory, 9 runs and bounds, 10 fairness, 11 what is proved, 12 where the code and
its documentation part, 13 abstractions and what is not modelled.

## 1. The system

A user creates `TaskCluster`s, `Task`s and `TaskObject`s. A `TaskCluster` names
a Deployment of worker Pods that do nothing (`pause`). A `Task` names a
`TaskCluster`, an image and, optionally, an input `TaskObject`; when the input
exists the Task is executed by adding an *ephemeral container* to a running
worker Pod. Tasks may create further Tasks.

| Component | Source | State it keeps | Operations |
|---|---|---|---|
| Task controller | `task_controller.go` | work queue; informer caches of Tasks, TaskClusters, TaskObjects, Pods | `enqueueTask`, `handleObject`, `handlePod`, `handleTaskObject`; `processNextWorkItem`; `syncHandler` with `patchPodEphemeralContainers`, `markTaskRunning`, `markTaskFinished` |
| Task lifecycle | `task_controller.go`, `task_types.go` | `status.podName`, `status.state` in `""`, `Running`, `Finished` | unassigned, bound to a Pod, finished |
| Container helpers | `task_controller.go:446-512` | none | `appendTaskContainer`, `isTaskTerminated` (used); `removeTaskContainer`, `containsTaskContainer`, `newTerminatedTaskContainers` (nothing calls them) |
| TaskCluster controller | `taskcluster_controller.go` | work queue; caches of TaskClusters and Deployments | `enqueueTaskCluster`, `handleObject`, `processNextWorkItem`, `syncHandler`, `updateTaskClusterStatus`, `newDeployment` |
| Process | `cmd/taskcontroller/main.go`, `pkg/signals` | a context, two informer factories | run both controllers with two workers each, stop on a signal |
| Informer factory | `pkg/generated/informers/externalversions/factory.go` | started informers, a wait group | `Start`, `Shutdown`, `WaitForCacheSync`, `InformerFor` |
| Listers, deep copies | `pkg/generated/listers`, `zz_generated.deepcopy.go` | the cached objects themselves | `Get`, `List` hand out pointers; `DeepCopy` |
| Counter demo | `demo/counter/main.go` | one `TaskObject` per step of the count | a Task that creates its successor's input and then its successor |
| Task client | `pkg/tasks/client.go` | none | reads a Task's input (does not compile as it stands) |

**Interactions.** The controllers never call each other. They share the API
server: the TaskCluster controller creates Deployments whose Pods carry the
label `task-cluster`, and the Task controller selects Pods by that label
(`task_controller.go:265-273`). All they know of the API server comes through
shared informers, which lag behind and hand events to the handlers on a
goroutine of their own; handlers put names on a rate limited work queue; two
workers drain it. Everything a controller writes goes straight to the API
server. Nothing is kept on disk: after a restart all is learnt anew.

**What is hard.** A sync is a sequence of cache reads and API calls, with every
other actor free to move in between; the caches of different kinds are not
consistent with each other, nor with what the same worker wrote a moment ago;
API calls fail, or succeed and lose their answer; the process may die between
the patch of a Pod and the write of the binding; objects are deleted and created
again under the same name; the end of a container is known only through a Pod's
status. Each such place, with its line, is in `PROJECT.json` under `hazards`.

**What makes each component correct.**

- *Task controller*: a status never names a Pod without the Task's container; a
  Task is `Finished` only after its container terminated; a status only moves
  forward; a Task is launched by one sync at a time, and not again once its binding
  is seen; containers are placed only in Pods of the right TaskCluster; no event that
  makes a Task schedulable is lost; Tasks are bound and finished eventually.
- *TaskCluster controller*: a Deployment never changes hands; an older spec never
  replaces a newer one; no event is lost; every TaskCluster is served in the end.
- *Process*: both controllers serve in the end; one signal ends the process, two end
  it even when it hangs; an exit code of 1 has a cause; a stop at any point is no worse
  than a crash.
- *Informer factory*: no informer is run twice, none after `Shutdown`, and
  everyone is given the one that is run; what is reported as synced is.
- *Counter demo*: the count goes up by ones to the limit and no further, and the
  chain of Tasks does not fork, however often Tasks are run.
- *Listers and deep copies*: what is in a cache is never changed in place.

## 2. The modules

| Module | Content |
|---|---|
| `TaskController` | the Task controller and the Kubernetes around it |
| `TaskLifecycle` | abstract: Task statuses and containers; implemented by `TaskController`, used by `CounterTask` |
| `TaskClusterController` | the TaskCluster controller and the Kubernetes around it |
| `Process` | `main`, its goroutines and the signal handler |
| `InformerFactory` | `factory.go`, `generic.go` and the typed informers |
| `CounterTask` | the counter demo, running on `TaskLifecycle` |
| `Counting` | abstract: a number counted up to a limit; implemented by `CounterTask` |
| `SharedObjects` | the memory that informers and workers share |
| `MC...` | the instances that TLC checks |
| `...Proofs` | theorems, one module per component; for the Task controller also `TaskHistoryProofs` (what depends on its history) and `TaskRefinementProofs` (`TaskLifecycle`) |

The modules meet at abstract specifications. `TaskController` implements
`TaskLifecycle` (proved), and `CounterTask` is built on `TaskLifecycle` instead of
on the controller, so its theorems hold on any controller that keeps that promise.
`Process` has the workers' start, after which the `Init` and `Restart` of the two
controllers' modules go on; `InformerFactory` shows that the
informers it starts are those the controllers hold; `SharedObjects` justifies
that the controllers' modules treat a cached object as a value.

Left to do: two TaskClusters that name one Deployment, as a run (the theorems
already hold for it); a composition of both controllers, in which a shrunk or
renamed Deployment takes Pods away under running Tasks; an abstract FIFO work queue
behind `dirty`, `retry` and `Processing`.

## 3. The Task controller: `TaskController`, `TaskLifecycle`

**State.** `tasks`, `pods`, `objRev`, `clusterRev` are what the API server
stores. Every Task and Pod has a `rv` (resourceVersion); a Task has a `uid`, the
incarnation of its name. `taskCache`, `podCache`, `objSeen`, `clusterSeen` are
what a lister returns; `taskWatch`, `podWatch` the versions written and not yet
seen. `notify` holds the events for handlers that did not run yet. `dirty` and
`retry` are the work queue; for each worker `pc` is the place in
`processNextWorkItem`/`syncHandler`, `key` the Task taken from the queue, `seen`
the Task it read, `target` the Pod it picked and `held` the containers in the cached
copy of that Pod.

**Actions.** `syncHandler` is one action per lister read and per API call:

| Action | Code |
|---|---|
| `GetWork`, `FinishWork` | `processNextWorkItem` 183-202: `Get`; `Forget` or `AddRateLimited`; the deferred `Done`, up to which nobody else is given the key (`Processing`) |
| `GetTask` | 204-218: not found or `Finished` ends the sync |
| `GetCluster`, `GetInput` | 220-238: a TaskCluster or TaskObject not found ends the sync with `nil` |
| `GetPod` | 240-263: the Task has a Pod; not found or not terminated ends the sync |
| `ListPods` | 265-287: selector, random pick, readiness, the token volume that `appendTaskContainer` needs; the copy is kept (`held`) |
| `PatchPod` | 284-290, 378-407, 424-462: see below |
| `MarkRunning`, `MarkFinished` | 409-422: `UpdateStatus` of a copy of what `GetTask` read, refused on another resourceVersion |
| `CallFails` | any of the three calls returns an error, with or without having taken effect |
| `SeeTask`, `SeePod`, `SeeObject`, `SeeCluster`, `Resync` | the informers (113-149) and the 30 second resync (`main.go:68-69`) |
| `Handle` | 302-376: the event handlers |
| `Restart` | a crash at any point, then 154-176: `Run` waits for the caches in `Waited`, all but the TaskObjects'; any other may be empty when the workers start |

The patch of a Pod is a chain of operators. `Appended` is the list `appendTaskContainer`
leaves in its copy of the cached Pod; `Merged` is what comes of sending the difference
between the cached Pod and that copy, name by name, and applying it to the list stored
*now*, which may be a later one; `PatchAccepted` and `PatchRefused` say what the API
server makes of it (ephemeral containers are not removed, and not changed). A patch that
adds nothing new is accepted and writes nothing. So a patch made from a stale copy
neither drops what others added nor fails to bring its own container, and
`BindingHonoured` depends on it: a status is written on the word of an accepted patch.

The rest (`Environment`) is external: users, the ReplicaSet that makes Pods, the
kubelet that makes them ready and reports ended containers.

`TaskLifecycle` is what users are promised: an unbound Task is bound only to a Pod
that got its container, a bound Task is finished only after that container ended,
nothing else changes a status while the Task lives. A container may be launched
more than once. `ImplementsLifecycle` maps the stored statuses and the containers
in the Pods to it.

## 4. The TaskCluster controller: `TaskClusterController`

The same skeleton: versions with `rv` and `uid`, lagging caches, notifications,
queue, workers. `seen` is the TaskCluster a worker read, `held` the Deployment it
got from the cache, from `Create` or from `Update`.

| Action | Code (`taskcluster_controller.go`) |
|---|---|
| `GetWork`, `FinishWork` | 163-183 |
| `GetCluster` | 185-208: not found, no Deployment name, no service account: the sync ends with `nil` |
| `GetDeployment` | 210-211 and, once a Deployment is held, the checks of 218-224 (`Holding`) |
| `CreateDeployment` | 212-216: `AlreadyExists` is an error |
| `UpdateDeployment` | 224-230: `Update` without a resourceVersion replaces what is stored, unless the selector, which is immutable, would change |
| `updateTaskClusterStatus` | 232-246 |
| `CallFails`, `Restart` | as above; 134-156 |
| `SeeCluster`, `SeeDeployment`, `Resync`, `Handle` | 110-129, 248-289 |

External: users that create, edit and delete TaskClusters, that scale, delete or
release Deployments or create some of their own; the Deployment controller, that
reports availability; the garbage collector.

`Relists` says whether a broken watch may be followed by a new list, which skips
versions. It matters: with it, a Deployment created and deleted between two lists
raises no event at all, and the controller believes it is there until the next
resync. `NoLostWakeup` is therefore stated for `Relists = FALSE`, and `Settles` is
checked with `TRUE` and the resync.

`Releasable` are the Deployments whose owner reference somebody may remove.
`handleObject` (257-289) finds the TaskCluster to wake through that reference, in the
newer version alone, so neither its removal nor anything that happens to the Deployment
until it is taken over again wakes anybody: a Deployment released and then deleted leaves
its TaskCluster without one, and nothing in the queue, until the resync. `NoLostWakeup`
leaves these Deployments out. It does cover a Deployment name that is taken by someone
else: there the syncs keep failing and retrying. `Settles` covers released Deployments too.

## 5. The process: `Process`

`step` is where `main` is in `Steps`, the order of its calls; `run` where the
goroutine of each controller is; `handler` and `c` the goroutine of
`SetupSignalHandler` and how many signals its channel holds.

| Action | Code |
|---|---|
| `SetupSignalHandler`, `Configure`, `NewController`, `StartFactory`, `GoRun` | `main.go` 47-96 in order; a step of `Configure` may fail or never end |
| `MainReturns`, `MainExits` | 97-98; `FlushAndExit` of 53, 59, 65 |
| `StartWorkers`, `RunReturns` | `Run` of either controller: caches waited for, workers, `nil` or an error |
| `Assign`, `Test`, `RunExits` | 86-88 and 92-94. Both goroutines assign and test the one `err` of `main` without a lock: a data race, so `Test` sees what this goroutine assigned or what is there now |
| `Signal`, `FirstSignal`, `SecondSignal` | `signal.go` 33-41: dropped when the channel is full, deadly before `Notify` |

What the run shows, beyond the properties: `main` does not wait for the workers, so
a first signal cuts a sync at any point (`Restart` of the controllers' modules); a
signal while caches are filled ends in exit code 0 or 1, whichever goroutine is
faster; because of the race on `err` a failed `Run` may even go unnoticed. The
TaskObject cache is waited for by nobody. What comes of a cache that workers find empty
is shown in `TaskController`, whose `Restart` fills the caches in `Waited`: a TaskObject
that is missing comes with an event of its own, a TaskCluster does not, and without
the wait for it the syncs after a restart end with nothing done (`NoLostWakeup`,
`EventsBindTasks`).

## 6. The informer factory: `InformerFactory`

What a method does under the factory's mutex is one action; `Shutdown` and
`WaitForCacheSync` wait without it and so have further ones.

| Action | Code (`factory.go`) |
|---|---|
| `NewSharedInformerFactoryWithOptions` | 92-122: one of the functional options (58-90) after another, before anybody is given the factory |
| `InformerFor`, `ForResource` | 178-200 and `generic.go` 51-66, with the `Informer()` of the typed informers |
| `Start`, `RunReturns` | 124-146: `wg.Add`, the goroutine with its deferred `wg.Done` |
| `Shutdown`, `ShutdownReturns` | 148-155 |
| `WaitForCacheSync`, `InformerAwaited`, `WaitReturns` | 157-176: the snapshot, then one informer after another |
| `Listed`, `Close` | external: an informer's first list, the owner of a stop channel |

`InformersAreConfigured` compares what an informer was made with to a definition that
does not go through the options one by one: the last option on a matter decides.
A `Start` that comes after `Shutdown` does nothing and says nothing; a
`WaitForCacheSync` after it reports on what was started before, and with nothing
started its empty map reads as success. `SyncedAsTold` is therefore about what the
caller's last *effective* `Start` saw to. (The comment at line 210 names a method
`WaitForStop` that does not exist; it means `Shutdown`.)

## 7. The counter demo: `CounterTask`, `Counting`

`status`, `launched`, `ended` are those of `TaskLifecycle`, whose actions launch,
bind and finish Tasks. Every container in `launched` runs the program by itself:
`pc` and `self` are its state, `objects` and `inputObject` what is stored.

| Action | Code (`demo/counter/main.go`) |
|---|---|
| `taskDefinition` | 48-58: a Task that is gone ends the program |
| `taskInput` | 30-41, 60-86: input, `parseInput`, `count >= limit` |
| `createObject` | 88-102: an output that is there already is an error; an answer may be lost |
| `createTask` | 104-118: `task-<count>` with the output as its input |
| `Die` | a call fails or the container is killed; nothing looks at the exit code |
| `Launch`, `Settle`, `End`, `Delete` | external: the platform and users |

`Counting` is the promise: a number that goes up by ones and stops at the limit.
`CountsUp` maps the highest count that any output object holds to it. What README
and demo do *not* get is an end at the limit under faults: if a program dies between
its two calls, its output is there and its successor is not, no further run mends
it (`LostStaysLost`), and all Tasks end `Finished`. `ChainReachesLimit` is therefore
stated for executions without faults. A duplicate run is not a fault: it may happen, and
`FairSpec` forces only the first run of a Task.

## 8. Shared memory: `SharedObjects`

A lister returns a pointer into the informer's cache, and its comment asks that what
it points to be treated as read-only. The model has objects, `refs` from their
fields to `cell`s, a `status` that is part of the struct, and workers that hold
pointers. What a cell holds is told by the versions it came from, so a mixture of
two versions can be seen. `TaskSpecDeepCopyInto`, `TaskClusterSpecDeepCopyInto` and
`Allocated` say what the generated deep copies allocate anew.

| Action | Code |
|---|---|
| `Deliver` | external: the informer puts a new object in the place of the old |
| `GetTask`, `GetPod`, `GetTaskCluster` | listers, as used by the syncHandlers; a key goes to one worker at a time |
| `appendTaskContainer`, `patchPodEphemeralContainers` | `task_controller.go` 378-407, 424-462 |
| `markTaskRunning`, `markTaskFinished`, `UpdateStatus` | 409-422 |
| `newDeployment`, `SendDeployment`, `updateTaskClusterStatus` | `taskcluster_controller.go` 210-246, 291-324 |
| `Return` | the sync ends, what it allocated is garbage |

Sharing is not always wrong: the Deployment points to the replica count of the cached
TaskCluster, and the container to the command and arguments of the cached Task; both
are only read. A deep copy and the encoding of a request are one step each: what they
read does not change meanwhile, which is what `CachedIsReadOnly` says.

## 9. Runs and bounds

| Run | Shows | Instance |
|---|---|---|
| `task_faults` | `TypeOK`, `BindingHonoured`, `NoLostWakeup`, `StatusMovesForward`, `OneLaunchAtATime`, `SettledIsNotLaunchedAgain` through a failing call, a lost answer, a crash, user edits | 1 Task with input, 2 Pods, 2 workers |
| `task_recreate` | `FinishedOnlyIfTerminated`, `ImplementsLifecycle`, `OrphanStaysOrphan` | 1 Task name used twice, 1 Pod that may fail, the TaskCluster appears late |
| `task_pair` | `BindingHonoured`, `FinishedOnlyIfTerminated` with patches made from copies that miss each other's container | 2 Tasks, 2 workers, 1 Pod |
| `task_events` | `PlacedWhereAllowed`, `EventsBindTasks`, `EveryTaskFinishes` | 1 Task with input, a worker Pod and one of another TaskCluster, 1 fault, 1 restart; TaskCluster and input may come late |
| `cluster_safety` | `TypeOK`, `NoLostWakeup`, `OwnerNeverReplaced`, `UpdatesRollForward` | 1 TaskCluster name used twice, in 2 sizes, 2 workers, Deployments scaled, deleted and collected, 1 fault, 1 restart, no relists |
| `cluster_settle` | `Settles` | 1 TaskCluster, all kinds of specs, foreign and released Deployments, 1 fault, relists |
| `factory` | `TypeOK`, `HandlesAreShared`, `RunsOnce`, `ShutdownIsFinal`, `InformersAreConfigured`, `SyncedAsTold`, `CallsReturn` | 2 types, 2 goroutines with a stop channel each, 3 options, an unknown resource |
| `process` | `TypeOK`, `ExitHasCause`, `ControllersServe`, `FirstSignalEnds`, `SecondSignalEnds` | the process as it is, up to 3 signals |
| `counter` | `TypeOK`, `ChainIsSimple`, `CountsUp`, `LostStaysLost`, `ChainReachesLimit` | 3 Tasks, 2 Pods, 2 further runs, 1 fault, 4 inputs |
| `objects` | `TypeOK`, `CopiesArePrivate`, `RequestsAreWhole`, `CachedIsReadOnly` | 2 Tasks, a Pod, a TaskCluster, 2 versions of each (the first without its optional parts), 3 workers |
| `task_podupdate`, `task_reran` | section 12 | the smallest that shows it |

`SettledIsNotLaunchedAgain` says what the code gives in place of single
execution: after the informer has shown the binding, and no worker holds an older
copy, nobody launches the Task again. `OneLaunchAtATime` is the part of it that needs two
workers: between a worker's patch and its status update the key may be queued again by
any event, and only the deferred `Done` keeps the other worker from launching the Task
in a second Pod. `OrphanStaysOrphan` records a limitation: a
Task whose Pod is gone before its end was seen stays `Running`.

Bounds limit the environment only, never the controllers: `MaxUid` incarnations of
a name; users write a Task or TaskCluster only below version `MaxRv`, others a Pod
or Deployment only below `MaxPodRv`/`MaxDeploymentRv`; `MaxRev` creations and
deletions of a TaskObject or TaskCluster; `MaxFaults` failing calls; `MaxRestarts`
crashes. The hazards need: one conflict (one foreign write), one stale read, one
lost answer, one crash, one deletion with re-creation, two Pods to choose from,
two workers on one key or on one Pod, a TaskCluster that comes late. Each is within the
bounds of a run named above, and every
property is violated in its run by a plausible bug in the code it is about (the
operators marked *mutant* in the modules). `task_recreate` and `task_events` have one
worker: what two do to one Task or one Pod is in the other runs. Symmetry is used
in runs without liveness only.

Some cases are in no run, because they take more states than TLC gets through in
minutes, and are covered by a theorem alone: two TaskClusters on one Deployment
(`OwnerSafety`, `RollForward`); a Pod without the token volume or without the label, and
Pods written by others while a Task is placed (`PlacementSafety`, `BindingSafety`);
TaskObjects and TaskClusters that are deleted, as `MaxRev` is 1 (`WakeupsAreKept`,
`FinishedSafety`); two workers together
with Tasks created again (`FinishedSafety`, `ForwardOnly`). A crash of the
TaskCluster controller or a TaskCluster created again is in `cluster_safety`, but not in
`cluster_settle`: its liveness is shown without them.

Of the other modules: `MaxSignals` is 3, because two signals end the process and the
third finds the channel full or the handler gone. `MaxTask` bounds the Task names of
the demo, and with them the limit; `MaxReruns` and `MaxFaults` what goes wrong, so that
two Tasks are run twice each, once per Pod, with a fault in any of the runs. Two callers and two
channels are what a race in the factory takes. Two versions of each object are enough
to hold a pointer to an old one; two Task workers share a Pod.

Deadlock is checked in `objects`, where the next sync may always begin. Elsewhere it is
not: with the bounds used up and all work done an idle controller has nothing to do, the
chain of Tasks comes to its end, a process that exited stays so, and a `Shutdown` waits for
channels that nobody has to close.

## 10. Fairness

`EventsBindTasks` promises something to a Task that comes after its TaskCluster
(`AfterItsCluster`), with an input that comes before or after the Task. Nothing wakes a Task when its TaskCluster comes late; then it takes
the resync, which is in `EveryTaskFinishes`.

`EventFairness`: informers deliver what they are behind with, handlers and workers
that can go on do (Go schedules every goroutine), back-offs end. `GetWorkOn(t)` is
strong: a key may be unavailable again and again while it is processed, but the
queue is first in first out, so it is not passed over for ever. In
`TaskController` the cluster is assumed to make Pods and get them ready; no worker
Pod fails in that run. `ResyncFairness` adds the 30 second resync and that the
containers of Tasks end; only `EveryTaskFinishes` assumes it. `FairSpec` of
`TaskClusterController` has the resync too. Nothing is assumed of users, crashes or
failing calls. `Settles` needs no fairness of the garbage collector, because a
Deployment of an owner that is gone counts as taken.

`FairSpec` of `Process`: goroutines are scheduled and an informer's list succeeds in
the end; `Configure` has no fairness, because reading the configuration may hang, and
nobody has to send a signal. `FairSpec` of `InformerFactory`: waiting calls that can
return do, and a goroutine whose channel is closed ends; no channel has to be closed and
no list to succeed. `FairSpec` of `CounterTask`: a Task is launched once (which
`EventsBindTasks` shows of the controller), programs run and their end is noticed; second
runs, faults and users have none.

## 11. What is proved

`TaskControllerProofs` proves, for all sets of Tasks, Pods, TaskObjects,
TaskClusters and workers and any bounds (only `ConstantsAssumption` is assumed):
`TypeSafety`, `BindingSafety`, `FinishedSafety`, `PlacementSafety` and `ForwardOnly`;
`TaskHistoryProofs` proves `LaunchedOneByOne` (`OneLaunchAtATime`), `SettledOnce`
(`SettledIsNotLaunchedAgain`), `OrphansStay` (`OrphanStaysOrphan`) and
`WakeupsAreKept` (`NoLostWakeup`). `TaskRefinementProofs` proves `Refinement`: the
controller implements `TaskLifecycle`.

The argument. None of these is inductive: each depends on what copies in caches,
watches and workers may look like. `IInv` says so:

- every copy of a Task, wherever it is, is an *old version*: its `uid` and `rv` are
  at most the stored ones, and with the same `rv` it is the stored one; every copy
  of a Pod shows only containers that are there, and as ended only those that have
  ended;
- at each `pc`, what `syncHandler` has established: at `patch`, the target is a
  mounted Pod of the Task's TaskCluster, the copy of the Task is unbound and that of the
  Pod shows no container that is not there (with one that does, the patch would leave
  the Task's container out; `PatchEffect` says what it does instead); at `markRunning`,
  besides, the target has the container; at `markFinished`, the copy is bound and
  the container has ended in its Pod;
- the statuses stored satisfy `BindingHonoured` and `FinishedOnlyIfTerminated`.

A write accepted by the resourceVersion check then starts from the stored status
itself, so it can only move forward. The proof has lemmas on how Tasks and Pods
grow in any step and one step per action. `IInv` was checked by TLC in the
instances above before it was proved.

The theorems of `TaskHistoryProofs` are about what happened before, and old versions
alone do not order it. `HInv` does:

- `TaskHistory`, `PodHistory`: all versions of an object that are around, stored,
  cached or on their way, are of one history, and the cache is behind all that is on
  its way;
- `CopyRead`: a worker's copy came from the cache, which has not gone back since;
- `OneWorkerPerKey`: the queue hands a key to one worker at a time, from which
  `LaunchedOneByOne` follows;
- `BindingSeen`: where a Task is bound, the cache and the worker holding its key have
  seen this incarnation, because the binding was written from a copy of it.

So nothing can bring an unbound copy back once the cache shows the binding (only a
worker that holds one already, which `Settled` excludes), and a Task whose Pod is gone
has nobody who could write `Finished`. `NoLostWakeup` itself is not inductive: a worker
that holds the key counts as awake but may be about to end its sync with `nil`. `WInv`
counts it only while it `Attends`: it has yet to read the Task, or has read an unbound
one and so goes on to the patch or to an error, which puts the key back. Ending with
`nil` on a TaskCluster that is not in the cache is excluded by `StandingSeen`: one that
was there from the beginning was in the cache before any worker started.

`TaskClusterControllerProofs` proves, under the same kind of assumptions,
`TypeSafety`, `OwnerSafety` (`OwnerNeverReplaced`), `RollForward`
(`UpdatesRollForward`), for any number of TaskClusters, Deployments and workers,
with relists, released Deployments, failing calls and restarts, and `WakeupsAreKept`
(`NoLostWakeup`), which assumes `~Relists`. An update is decided on two cached copies and sent without a resourceVersion, so the invariant
compares them with what is stored:

- `Exclusive`: no two workers process one key, as the deferred `Done` ensures;
- `InOrder`: a cache only moves to later versions, with incarnations in order;
- `MadeFromCache`, `Up2Date`: every version of a Deployment made for a TaskCluster,
  stored, cached or on its way, was made from what the cache of that TaskCluster
  shows or showed before, and so not from anything newer than the copy of the
  worker now processing it;
- `OwnersGrow`, `Checked`: of the versions with one selector, later ones have later
  owners, so what a worker found controlled is controlled by that owner, released,
  or gone.

At an update the stored owner is then at most the worker's (`Up2Date`) and at least
the one it checked (`Checked`), hence the same. Here `DeploymentStep` says once what
any step does to a Deployment (nothing, a write by others, a write by a worker), and
`ReadingStep` and `UpdateStep` what it does to a worker; each part of the invariant
follows from these three.

`WakeupsAreKept` needs more. Without relists, what is cached and on its way of a
Deployment is one history, version after version (`Shown`, `Follows`), in which it
passes from one TaskCluster to another only while it does not exist; nobody loses its
owner reference (`Labelled`); the stored TaskCluster is cached or on its way
(`ClusterShown`); a worker at `status` holds a Deployment that is as its copy asks
(`Satisfied`). `WInv` then says of every TaskCluster whose caches do not fit each other
that it is `Attended` by the queue, a notification or a worker that will still look at
what the caches show now, or that a version of its Deployment is `Due`, one whose
arrival will be notified to it. `Due` is what makes a worker's own write count: once
`UpdateDeployment` or `CreateDeployment` has stored a version its worker may forget the
key, because the version on its way wakes the TaskCluster again. Both invariants were
checked by TLC on `cluster_safety` and on larger instances (three foreign writes, two
TaskClusters on one Deployment, foreign Deployments) before they were proved. Without
`~Relists` the statement is false, and so it is for a Deployment that may be released
(section 4).

`InformerFactoryProofs`, for any types, callers, channels and options: `TypeSafety`,
`InformersShared`, `InformersRunOnce`, `ShutdownEndsAll`, `SyncIsReported` and
`OptionsTakeEffect` (`InformersAreConfigured`). `IInv`
relates the wait group to the goroutines it counts (`running` within `wg`: what the mutex
and the order of `wg.Add` are for), the started types to the goroutines ever begun, and every
snapshot of `WaitForCacheSync` to what was started. For `OptionsTakeEffect`,
`ConfiguredInv` says that after any number of options the factory is as the last of these
on each matter wants it (that this is inductive is `LastOfNext`), and `InformerInv` that
an informer was made from the factory when all options had been applied.

`ProcessProofs`, for any number of signals: `TypeSafety` and `ExitCodeHasCause`. Its invariant says what each value of `run`, `handler` and `err`
implies; for the racy `err` it is enough that an error in it, or in any `result`, means a
controller was cancelled before it served.

`CounterTaskProofs`, for any limit, number of Pods, runs and faults: `TypeCorrect`,
`ChainStaysSimple`, `ProgramCounts` (a refinement of `Counting`) and `BrokenStaysBroken`.
The invariant gives every output a count one above its Task's input, every created Task
the input that names it, and every running program the input it parsed; that outputs are
made by `Creatable` alone keeps the chain from forking.

`SharedObjectsProofs`, for any Tasks, Pods, TaskClusters, workers and versions:
`TypeCorrect`, `DeepCopiesAreDeep`, `RequestsStayWhole`, `CacheIsReadOnly`. The invariant
says where references may point: a delivered object's into its own cells, a copy's into
its own, a draft's into a delivered object's; that a deep copy passes nothing over; and
what a worker's pointers, copies and requests hold at each `pc`.

Only model-checked: liveness (`EventsBindTasks`, `EveryTaskFinishes`, `Settles`,
`CallsReturn`, `ControllersServe`, `FirstSignalEnds`, `SecondSignalEnds`,
`ChainReachesLimit`), which needs fairness and is beyond the prover, and the two
statements of section 12, which the code does not satisfy. Every invariant and every
action property of the passing runs is a theorem.

## 12. Where code and documentation part

- `task_podupdate`: `handlePod` (`task_controller.go:352`) goes through the
  ordinary containers of the Pod, not its ephemeral ones, so the update that
  reports the end of a Task enqueues nothing, contrary to `README.md:41-44`; only
  the resync finishes Tasks.
- `task_reran`: a Task created again under an old name and placed in the same Pod
  is `Finished` by its predecessor's container without running
  (`isTaskTerminated` goes by name alone).

Further differences met while modelling, which no run checks:

- Synced twice before the informer shows the binding, a Task gets containers in two
  Pods (`task_controller.go:276`; `README.md:20-21` speaks of one).
- Without a service account the sync of a TaskCluster does nothing and reports no error
  (`taskcluster_controller.go:204`); the TaskCluster of the unit tests has none, and
  `TestCreatesDeployment` expects a Deployment.
- `Update` after a check made on a cached copy takes a Deployment back that its user has
  released (`taskcluster_controller.go:226`); `TestNotControlledByUs` says such a
  Deployment is left alone.
- A Deployment that was released wakes no TaskCluster any more, not even by its
  deletion (`taskcluster_controller.go:275`); the TaskCluster is without one until the
  resync.
- The demo "continues until `count == limit`" (`README.md:54`) only as long as nothing
  fails between the two calls of `createNextTask` (`LostStaysLost`).

## 13. Abstractions, and what is not modelled

- One namespace. Specs of Tasks do not change (a Task is edited only in its
  metadata); a Task created again under an old name names the same TaskCluster and input,
  but may have another container, whose patch into a Pod that still has the old one is
  then refused (`PatchRefused`). Container names are Task names.
- The work queue is two sets: `Add` of a key already there does nothing, and a key
  added while processed waits for `Done`; its order is in the fairness of
  `GetWorkOn`. The same goes for notifications: handlers only look at the current
  caches, so two notifications of one object are as good as the last of them.
- Back-off is a delay of unknown length; a failing call is an error of unknown kind.
- A request of a dead controller does not take effect after its successor has
  started; one controller runs at a time (`config/controller/deployment.yaml` has
  one replica).
- A Pod's name is never used again (ReplicaSets draw random ones), and a container,
  once in a Pod, stays (`README.md:94-97`).
- Errors other than *not found* from listers do not occur: they read memory.
- Events recorded for users, logs and metrics are left out.
- Of a Deployment's template only the selector label is kept; a changed service
  account, which the code never carries over by itself, is not seen by the model.
- A deep copy, and the encoding of an object for a request, is one step.
- In `CounterTask` a program's environment variables are set (the controller sets them),
  a start below zero is left out, as it would name Tasks below the first, and the 64 bits
  of a count are not reached, as a count stays at or below a limit that was parsed.
- Not modelled: the Task client (`pkg/tasks/client.go`), which does not compile; the
  generated clientset, its fakes and the scheme, which have no state of their own;
  `removeTaskContainer`, `containsTaskContainer` and `newTerminatedTaskContainers`, which
  nothing calls (the test of the last one, `!exists`, seems to be inverted); deep copies of
  lists and TaskObjects, which the program does not make; manifests, CRDs and scripts, of
  which the modules assume one replica and status subresources; and the composition of
  both controllers named in section 2.
