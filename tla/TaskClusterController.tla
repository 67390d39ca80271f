----------------------- MODULE TaskClusterController -----------------------
(***************************************************************************)
(* The TaskCluster controller of pkg/controllers/taskcluster_controller.go *)
(* keeps one Deployment of worker Pods for each TaskCluster.  It runs in   *)
(* the process of the Task controller, on its own work queue and workers,  *)
(* and acts through the same parts of Kubernetes: the API server, lagging  *)
(* informers, and a garbage collector that removes a Deployment once the   *)
(* TaskCluster owning it is gone.                                          *)
(*                                                                         *)
(* The API server takes UpdateStatus of a TaskCluster only for the version *)
(* stored now.  The controller's Update of a Deployment names no version,  *)
(* so it replaces whatever is stored, as long as the selector stays.       *)
(***************************************************************************)
EXTENDS Naturals, FiniteSets

CONSTANTS
  Clusters,         \* names of TaskClusters, the keys of the work queue
  Deployments,      \* names of Deployments
  Workers,          \* goroutines running runWorker (main.go starts 2)
  NoCluster, NoDeployment,
  Specs,            \* the TaskCluster specs that users write
  ForeignNames,     \* Deployments users create for themselves
  Releasable,       \* Deployments whose owner reference users may remove
  Relists,          \* whether a broken watch may be replaced by a new list
  MaxReplicas,      \* largest replica count anyone asks for
  MaxUid,           \* bound: incarnations of one TaskCluster name
  MaxRv,            \* bound: users write a TaskCluster only below this version
  MaxDeploymentRv,  \* bound: others write a Deployment only below this version
  MaxFaults,        \* bound: API calls that return an error of their own
  MaxRestarts       \* bound: crashes and restarts of the controller

(* Spec.Replicas is a pointer: 0 stands for nil, which the CRD's minimum   *)
(* of 1 leaves free.  Of the name of the service account it matters only   *)
(* whether there is one.                                                   *)
NoReplicas == 0

SpecType == [deployment: Deployments \cup {NoDeployment}, account: BOOLEAN, replicas: Nat]

ASSUME ConstantsAssumption ==
  /\ NoCluster \notin Clusters /\ NoDeployment \notin Deployments
  /\ Specs \subseteq SpecType
  /\ Relists \in BOOLEAN
  /\ ForeignNames \subseteq Deployments /\ Releasable \subseteq Deployments
  /\ {MaxReplicas, MaxUid, MaxRv, MaxDeploymentRv, MaxFaults, MaxRestarts} \subseteq Nat

ClusterVersion == [rv: Nat, uid: Nat, exists: BOOLEAN, spec: SpecType, available: Nat]

(* cluster is the "task-cluster" label of the selector, owner the uid in   *)
(* the controller reference, 0 for none.  from is history: the version of  *)
(* the TaskCluster that the Deployment's spec was made from.               *)
DeploymentVersion == [rv: Nat, exists: BOOLEAN, cluster: Clusters \cup {NoCluster},
                      owner: Nat, replicas: Nat, available: Nat, from: Nat]

NoClusterYet ==
  [rv |-> 0, uid |-> 0, exists |-> FALSE, available |-> 0,
   spec |-> [deployment |-> NoDeployment, account |-> FALSE, replicas |-> NoReplicas]]

NoDeploymentYet ==
  [rv |-> 0, exists |-> FALSE, cluster |-> NoCluster, owner |-> 0,
   replicas |-> 0, available |-> 0, from |-> 0]

(* The event handlers need the TaskCluster's name alone: that of the       *)
(* TaskCluster itself, or the one in a Deployment's owner reference.       *)
Notification == {"TaskCluster", "Deployment"} \X Clusters

VARIABLES
  clusters, deployments,          \* API server: the current version of each
  clusterCache, deploymentCache,  \* informers: the version a lister returns
  clusterWatch, deploymentWatch,  \* versions written, not seen by an informer
  notify,                         \* notifications not yet handled
  dirty, retry,                   \* work queue: added keys; rate limited keys
  pc, key, seen, held,            \* workers: where, which, both objects held
  faults, restarts                \* how much of the two bounds was used

apiVars == <<clusters, deployments>>
informerVars == <<clusterCache, deploymentCache, clusterWatch, deploymentWatch, notify>>
queueVars == <<dirty, retry>>
workerVars == <<pc, key, seen, held>>
envVars == <<faults, restarts>>
vars == <<apiVars, informerVars, queueVars, workerVars, envVars>>

Steps == {"idle", "getCluster", "getDeployment", "create", "update", "status", "ok", "err"}

TypeOK ==
  /\ clusters \in [Clusters -> ClusterVersion]
  /\ clusterCache \in [Clusters -> ClusterVersion]
  /\ clusterWatch \in [Clusters -> SUBSET ClusterVersion]
  /\ deployments \in [Deployments -> DeploymentVersion]
  /\ deploymentCache \in [Deployments -> DeploymentVersion]
  /\ deploymentWatch \in [Deployments -> SUBSET DeploymentVersion]
  /\ notify \subseteq Notification
  /\ dirty \subseteq Clusters /\ retry \subseteq Clusters
  /\ pc \in [Workers -> Steps] /\ key \in [Workers -> Clusters \cup {NoCluster}]
  /\ seen \in [Workers -> ClusterVersion] /\ held \in [Workers -> DeploymentVersion]
  /\ faults \in Nat /\ restarts \in Nat

Init ==
  /\ clusters = [c \in Clusters |-> NoClusterYet] /\ clusterCache = clusters
  /\ deployments = [d \in Deployments |-> NoDeploymentYet] /\ deploymentCache = deployments
  /\ clusterWatch = [c \in Clusters |-> {}] /\ deploymentWatch = [d \in Deployments |-> {}]
  /\ notify = {} /\ dirty = {} /\ retry = {}
  /\ pc = [w \in Workers |-> "idle"] /\ key = [w \in Workers |-> NoCluster]
  /\ seen = [w \in Workers |-> NoClusterYet] /\ held = [w \in Workers |-> NoDeploymentYet]
  /\ faults = 0 /\ restarts = 0

-----------------------------------------------------------------------------
(* The API server.  A write that changes nothing makes no new version.     *)

NextCluster(c, v) == [v EXCEPT !.rv = clusters[c].rv + 1]

WriteCluster(c, v) ==
  /\ clusters' = [clusters EXCEPT ![c] = NextCluster(c, v)]
  /\ clusterWatch' = [clusterWatch EXCEPT ![c] = @ \cup {NextCluster(c, v)}]

NextDeployment(d, v) == [v EXCEPT !.rv = deployments[d].rv + 1]

WriteDeployment(d, v) ==
  /\ deployments' = [deployments EXCEPT ![d] = NextDeployment(d, v)]
  /\ deploymentWatch' = [deploymentWatch EXCEPT ![d] = @ \cup {NextDeployment(d, v)}]

Current(c, copy) == clusters[c].exists /\ clusters[c].rv = copy.rv

Alive(c, uid) == clusters[c].exists /\ clusters[c].uid = uid

-----------------------------------------------------------------------------
(* Users and the rest of Kubernetes.                                       *)

CreateCluster(c, spec) ==
  /\ ~clusters[c].exists /\ clusters[c].uid < MaxUid
  /\ WriteCluster(c, [NoClusterYet EXCEPT !.uid = clusters[c].uid + 1,
                                          !.exists = TRUE, !.spec = spec])
  /\ UNCHANGED <<deployments, clusterCache, deploymentCache, deploymentWatch, notify,
                 queueVars, workerVars, envVars>>

EditCluster(c, spec) ==
  /\ clusters[c].exists /\ clusters[c].rv < MaxRv /\ spec # clusters[c].spec
  /\ WriteCluster(c, [clusters[c] EXCEPT !.spec = spec])
  /\ UNCHANGED <<deployments, clusterCache, deploymentCache, deploymentWatch, notify,
                 queueVars, workerVars, envVars>>

DeleteCluster(c) ==
  /\ clusters[c].exists /\ clusters[c].rv < MaxRv
  /\ WriteCluster(c, [clusters[c] EXCEPT !.exists = FALSE])
  /\ UNCHANGED <<deployments, clusterCache, deploymentCache, deploymentWatch, notify,
                 queueVars, workerVars, envVars>>

(* Someone other than the controller replaces Deployment d by v.           *)
OthersWrite(d, v) ==
  /\ deployments[d].rv < MaxDeploymentRv
  /\ WriteDeployment(d, v)
  /\ UNCHANGED <<clusters, clusterCache, deploymentCache, clusterWatch, notify,
                 queueVars, workerVars, envVars>>

ScaleDeployment(d, n) ==
  /\ deployments[d].exists /\ deployments[d].replicas # n
  /\ OthersWrite(d, [deployments[d] EXCEPT !.replicas = n])

(* The Deployment controller reports how many Pods are available.          *)
AvailableChanges(d, n) ==
  /\ deployments[d].exists /\ deployments[d].available # n
  /\ OthersWrite(d, [deployments[d] EXCEPT !.available = n])

DeleteDeployment(d) ==
  /\ deployments[d].exists
  /\ OthersWrite(d, [deployments[d] EXCEPT !.exists = FALSE])

CreateForeign(d) ==
  /\ d \in ForeignNames /\ ~deployments[d].exists
  /\ OthersWrite(d, [NoDeploymentYet EXCEPT !.exists = TRUE, !.replicas = 1])

(* The owner reference is removed, by hand or by an orphaning deletion.    *)
ReleaseDeployment(d) ==
  /\ d \in Releasable /\ deployments[d].exists /\ deployments[d].owner # 0
  /\ OthersWrite(d, [deployments[d] EXCEPT !.owner = 0])

(* The garbage collector deletes what belongs to an object that is gone.   *)
Collect(d) ==
  /\ deployments[d].exists /\ deployments[d].owner # 0
  /\ ~Alive(deployments[d].cluster, deployments[d].owner)
  /\ OthersWrite(d, [deployments[d] EXCEPT !.exists = FALSE])

Environment ==
  \/ \E c \in Clusters : \/ DeleteCluster(c)
                         \/ \E s \in Specs : CreateCluster(c, s) \/ EditCluster(c, s)
  \/ \E d \in Deployments : \/ DeleteDeployment(d) \/ CreateForeign(d)
                            \/ ReleaseDeployment(d) \/ Collect(d)
                            \/ \E n \in 1..MaxReplicas : ScaleDeployment(d, n)
                            \/ \E n \in 0..MaxReplicas : AvailableChanges(d, n)

-----------------------------------------------------------------------------
(* The shared informers.  A cache moves to a later version: the next one   *)
(* for a watch event, any later one after a relist.                        *)

LaterThan(v, S) == {u \in S : u.rv > v.rv}

Deliverable(S) == {v \in S : Relists \/ \A u \in S : v.rv <= u.rv}

(* The TaskCluster informer has an AddFunc and an UpdateFunc only.         *)
SeeCluster(c) ==
  \E v \in Deliverable(clusterWatch[c]) :
    /\ clusterCache' = [clusterCache EXCEPT ![c] = v]
    /\ clusterWatch' = [clusterWatch EXCEPT ![c] = LaterThan(v, @)]
    /\ notify' = IF v.exists THEN notify \cup {<<"TaskCluster", c>>} ELSE notify
    /\ UNCHANGED <<apiVars, deploymentCache, deploymentWatch, queueVars, workerVars, envVars>>

(* What the Deployment handlers may be given: the version seen, or for a   *)
(* deletion found by a relist, the version known before.                   *)
Given(old, new) ==
  IF new.exists THEN {new} ELSE IF old.exists THEN {old, new} ELSE {NoDeploymentYet}

OwnerNotice(v) == IF v.owner # 0 THEN {<<"Deployment", v.cluster>>} ELSE {}

SeeDeployment(d) ==
  \E v \in Deliverable(deploymentWatch[d]) : \E u \in Given(deploymentCache[d], v) :
    /\ deploymentCache' = [deploymentCache EXCEPT ![d] = v]
    /\ deploymentWatch' = [deploymentWatch EXCEPT ![d] = LaterThan(v, @)]
    /\ notify' = notify \cup OwnerNotice(u)
    /\ UNCHANGED <<apiVars, clusterCache, clusterWatch, queueVars, workerVars, envVars>>

(* Every 30 seconds: an unchanged Deployment is dropped by its handler, an *)
(* unchanged TaskCluster is enqueued.                                      *)
Resync(c) ==
  /\ clusterCache[c].exists
  /\ notify' = notify \cup {<<"TaskCluster", c>>}
  /\ UNCHANGED <<apiVars, clusterCache, deploymentCache, clusterWatch, deploymentWatch,
                 queueVars, workerVars, envVars>>

-----------------------------------------------------------------------------
(* The event handlers.                                                     *)

EnqueuedByObject(n) == {n}  \* mutant: the object is queued, not its name

EnqueuedByClusterOnly(n) ==  \* mutant: no handler on Deployments
  IF n[1] = "TaskCluster" THEN {n[2]} ELSE {}

(* handleObject looks the owner up by name; an unknown one is ignored.     *)
EnqueuedBy(n) ==
  IF n[1] = "TaskCluster" \/ clusterCache[n[2]].exists THEN {n[2]} ELSE {}

Handle(n) ==
  /\ n \in notify
  /\ notify' = notify \ {n}
  /\ dirty' = dirty \cup EnqueuedBy(n)
  /\ UNCHANGED <<apiVars, clusterCache, deploymentCache, clusterWatch, deploymentWatch,
                 retry, workerVars, envVars>>

-----------------------------------------------------------------------------
(* The work queue and the workers.                                         *)

Processing == {key[w] : w \in {x \in Workers : pc[x] # "idle"}}

Goto(w, step) == pc' = [pc EXCEPT ![w] = step]

(* The back-off of a rate limited key has elapsed.                         *)
RetryDue(c) ==
  /\ c \in retry
  /\ retry' = retry \ {c}
  /\ dirty' = dirty \cup {c}
  /\ UNCHANGED <<apiVars, informerVars, workerVars, envVars>>

GettableAlways == dirty  \* mutant: Done called before syncHandler, not deferred

(* workqueue.Get: an added key that no worker is processing, because Done  *)
(* is deferred to the end of processNextWorkItem.                          *)
Gettable == dirty \ Processing

GetWork(w) ==
  /\ pc[w] = "idle"
  /\ \E c \in Gettable :
       /\ key' = [key EXCEPT ![w] = c]
       /\ dirty' = dirty \ {c}
  /\ Goto(w, "getCluster")
  /\ UNCHANGED <<apiVars, informerVars, retry, seen, held, envVars>>

(* What syncHandler needs of a TaskCluster it found.                       *)
Complete(spec) == spec.deployment # NoDeployment /\ spec.account

GetCluster(w) ==
  LET taskCluster == clusterCache[key[w]] IN
  /\ pc[w] = "getCluster"
  /\ IF taskCluster.exists
     THEN /\ seen' = [seen EXCEPT ![w] = taskCluster]
          /\ Goto(w, IF Complete(taskCluster.spec) THEN "getDeployment" ELSE "ok")
     ELSE Goto(w, "ok") /\ UNCHANGED seen
  /\ UNCHANGED <<apiVars, informerVars, queueVars, key, held, envVars>>

ControlledByName(c, v, d) == d.cluster = c /\ d.owner # 0  \* mutant: not by its UID

(* IsControlledBy compares the UID in the Deployment's owner reference.    *)
Controlled(c, v, d) == d.cluster = c /\ d.owner = v.uid

DiffersNever(v, d) == FALSE  \* mutant: replica counts not compared

Differs(v, d) == v.spec.replicas # NoReplicas /\ v.spec.replicas # d.replicas

(* Where syncHandler goes once it holds Deployment d.                      *)
Holding(w, d) ==
  /\ held' = [held EXCEPT ![w] = d]
  /\ Goto(w, IF ~Controlled(key[w], seen[w], d) THEN "err"
             ELSE IF Differs(seen[w], d) THEN "update" ELSE "status")

GetDeployment(w) ==
  LET deployment == deploymentCache[seen[w].spec.deployment] IN
  /\ pc[w] = "getDeployment"
  /\ IF deployment.exists
     THEN Holding(w, deployment)
     ELSE Goto(w, "create") /\ UNCHANGED held
  /\ UNCHANGED <<apiVars, informerVars, queueVars, key, seen, envVars>>

(* The API server stores 1 for a replica count that is not given.          *)
newDeployment(c, v) ==
  [NoDeploymentYet EXCEPT
     !.exists = TRUE, !.cluster = c, !.owner = v.uid, !.from = v.rv,
     !.replicas = IF v.spec.replicas = NoReplicas THEN 1 ELSE v.spec.replicas]

CreateDeployment(w) ==
  LET d == seen[w].spec.deployment  new == newDeployment(key[w], seen[w]) IN
  /\ pc[w] = "create"
  /\ IF ~deployments[d].exists
     THEN WriteDeployment(d, new) /\ Holding(w, NextDeployment(d, new))
     ELSE Goto(w, "err") /\ UNCHANGED <<deployments, deploymentWatch, held>>
  /\ UNCHANGED <<clusters, clusterCache, deploymentCache, clusterWatch, notify,
                 queueVars, key, seen, envVars>>

(* The stored Deployment with the spec and owner newDeployment gives it;   *)
(* its status is not the controller's to write.                            *)
Updated(c, v, d) ==
  [d EXCEPT !.owner = v.uid, !.replicas = v.spec.replicas, !.from = v.rv]

(* The Deployment exists and the update leaves its selector as it is.      *)
UpdateAccepted(c, d) == deployments[d].exists /\ deployments[d].cluster = c

Unchanged(new, d) == new.owner = d.owner /\ new.replicas = d.replicas

(* Update answers with what is stored afterwards.                          *)
ApplyUpdate(w) ==
  LET d == seen[w].spec.deployment
      new == Updated(key[w], seen[w], deployments[d]) IN
  IF Unchanged(new, deployments[d])
  THEN held' = [held EXCEPT ![w] = deployments[d]] /\ UNCHANGED <<deployments, deploymentWatch>>
  ELSE held' = [held EXCEPT ![w] = NextDeployment(d, new)] /\ WriteDeployment(d, new)

UpdateDeployment(w) ==
  /\ pc[w] = "update"
  /\ IF UpdateAccepted(key[w], seen[w].spec.deployment)
     THEN Goto(w, "status") /\ ApplyUpdate(w)
     ELSE Goto(w, "err") /\ UNCHANGED <<deployments, deploymentWatch, held>>
  /\ UNCHANGED <<clusters, clusterCache, deploymentCache, clusterWatch, notify,
                 queueVars, key, seen, envVars>>

ApplyCopy(w) ==  \* mutant: AvailableReplicas not assigned to the copy
  IF seen[w] = clusters[key[w]]
  THEN UNCHANGED <<clusters, clusterWatch>>
  ELSE WriteCluster(key[w], seen[w])

(* updateTaskClusterStatus changes a copy of what GetCluster read.         *)
ApplyStatus(w) ==
  LET c == key[w]  new == [seen[w] EXCEPT !.available = held[w].available] IN
  IF new = clusters[c]
  THEN UNCHANGED <<clusters, clusterWatch>>
  ELSE WriteCluster(c, new)

updateTaskClusterStatus(w) ==
  /\ pc[w] = "status"
  /\ IF Current(key[w], seen[w])
     THEN Goto(w, "ok") /\ ApplyStatus(w)
     ELSE Goto(w, "err") /\ UNCHANGED <<clusters, clusterWatch>>
  /\ UNCHANGED <<deployments, clusterCache, deploymentCache, deploymentWatch, notify,
                 queueVars, key, seen, held, envVars>>

(* An API call fails on its own: either it never took effect, or it did    *)
(* and its answer was lost.                                                *)
CallFails(w) ==
  /\ faults < MaxFaults /\ faults' = faults + 1
  /\ pc[w] \in {"create", "update", "status"}
  /\ Goto(w, "err")
  /\ \/ UNCHANGED <<apiVars, clusterWatch, deploymentWatch, held>>
     \/ LET d == seen[w].spec.deployment IN
        /\ pc[w] = "create" /\ ~deployments[d].exists
        /\ WriteDeployment(d, newDeployment(key[w], seen[w]))
        /\ UNCHANGED <<clusters, clusterWatch, held>>
     \/ /\ pc[w] = "update" /\ UpdateAccepted(key[w], seen[w].spec.deployment)
        /\ ApplyUpdate(w) /\ UNCHANGED <<clusters, clusterWatch>>
     \/ /\ pc[w] = "status" /\ Current(key[w], seen[w])
        /\ ApplyStatus(w) /\ UNCHANGED <<deployments, deploymentWatch, held>>
  /\ UNCHANGED <<clusterCache, deploymentCache, notify, queueVars, key, seen, restarts>>

NotRequeued(w) == retry  \* mutant: an error is only logged

Requeued(w) == IF pc[w] = "err" THEN retry \cup {key[w]} ELSE retry

(* processNextWorkItem: Forget and Done, or AddRateLimited and Done.       *)
FinishWork(w) ==
  /\ pc[w] \in {"ok", "err"}
  /\ retry' = Requeued(w)
  /\ Goto(w, "idle")
  /\ key' = [key EXCEPT ![w] = NoCluster]
  /\ seen' = [seen EXCEPT ![w] = NoClusterYet]
  /\ held' = [held EXCEPT ![w] = NoDeploymentYet]
  /\ UNCHANGED <<apiVars, informerVars, dirty, envVars>>

(* The controller dies at any point and a new one starts: Run waits for    *)
(* both caches to be listed before it starts the workers.                  *)
Restart ==
  /\ restarts < MaxRestarts /\ restarts' = restarts + 1
  /\ clusterCache' = clusters /\ clusterWatch' = [c \in Clusters |-> {}]
  /\ deploymentCache' = deployments /\ deploymentWatch' = [d \in Deployments |-> {}]
  /\ notify' = {<<"TaskCluster", c>> : c \in {b \in Clusters : clusters[b].exists}}
       \cup UNION {OwnerNotice(deployments[d]) : d \in {e \in Deployments : deployments[e].exists}}
  /\ dirty' = {} /\ retry' = {}
  /\ pc' = [w \in Workers |-> "idle"] /\ key' = [w \in Workers |-> NoCluster]
  /\ seen' = [w \in Workers |-> NoClusterYet] /\ held' = [w \in Workers |-> NoDeploymentYet]
  /\ UNCHANGED <<apiVars, faults>>

-----------------------------------------------------------------------------
Informers ==
  \/ \E c \in Clusters : SeeCluster(c) \/ Resync(c)
  \/ \E d \in Deployments : SeeDeployment(d)

SyncHandler(w) ==
  \/ GetCluster(w) \/ GetDeployment(w) \/ CreateDeployment(w)
  \/ UpdateDeployment(w) \/ updateTaskClusterStatus(w)

Worker(w) == GetWork(w) \/ SyncHandler(w) \/ CallFails(w) \/ FinishWork(w)

Next ==
  \/ Environment
  \/ Informers
  \/ \E n \in notify : Handle(n)
  \/ \E c \in retry : RetryDue(c)
  \/ \E w \in Workers : Worker(w)
  \/ Restart

Spec == Init /\ [][Next]_vars

(* Fairness.  The informers keep delivering, the handlers and workers keep *)
(* running, back-offs end, and the queue is first in first out, so a key   *)
(* in it is not passed over for ever.                                      *)
GetWorkOn(c) == \E w \in Workers : GetWork(w) /\ key'[w] = c

EventFairness ==
  /\ \A c \in Clusters : /\ WF_vars(SeeCluster(c)) /\ WF_vars(RetryDue(c))
                         /\ SF_vars(GetWorkOn(c))
  /\ \A d \in Deployments : WF_vars(SeeDeployment(d))
  /\ \A n \in Notification : WF_vars(Handle(n))
  /\ \A w \in Workers : WF_vars(SyncHandler(w)) /\ WF_vars(FinishWork(w))

EventSpec == Spec /\ EventFairness
FairSpec == EventSpec /\ \A c \in Clusters : WF_vars(Resync(c))

-----------------------------------------------------------------------------
(* Safety.                                                                 *)

(* A Deployment never passes from one owner to another: not between two    *)
(* TaskClusters naming it, nor between two incarnations of one, although   *)
(* Update replaces whatever is stored and the check is made on a copy.     *)
OwnerNeverReplaced ==
  [][\A d \in Deployments :
       deployments[d].exists /\ deployments'[d].exists
       /\ deployments[d].owner # 0 /\ deployments'[d].owner # 0 =>
         /\ deployments'[d].owner = deployments[d].owner
         /\ deployments'[d].cluster = deployments[d].cluster]_vars

(* No update of a Deployment, which is sent without a resourceVersion,     *)
(* undoes one made from a newer version of its TaskCluster.                *)
UpdatesRollForward ==
  [][\A d \in Deployments :
       deployments[d].exists /\ deployments'[d].exists =>
         deployments'[d].from >= deployments[d].from]_vars

(* What is asked for and what is there.                                    *)
Wanted(c) == clusters[c].exists /\ Complete(clusters[c].spec)

Named(c) == deployments[clusters[c].spec.deployment]

Owned(c) == Named(c).exists /\ Named(c).cluster = c /\ Named(c).owner = clusters[c].uid

Served(c) ==
  /\ Owned(c)
  /\ clusters[c].spec.replicas \in {NoReplicas, Named(c).replicas}
  /\ clusters[c].available = Named(c).available

Taken(c) == Named(c).exists /\ ~Owned(c)

CaughtUp(c) ==
  clusterWatch[c] = {} /\ deploymentWatch[clusters[c].spec.deployment] = {}

Awake(c) ==
  \/ c \in dirty \cup retry \cup Processing
  \/ notify \cap {<<"TaskCluster", c>>, <<"Deployment", c>>} # {}

(* No wake-up is lost: once the caches caught up, a TaskCluster that is    *)
(* not served as it asks, even because the name is taken, is queued,       *)
(* waiting for its back-off, being processed, or has a notification on its *)
(* way, without any resync.  Not so for a Deployment that lost its owner   *)
(* reference: handleObject knows no TaskCluster to wake for the removal,   *)
(* nor for what happens to the Deployment later.                           *)
NoLostWakeup ==
  \A c \in Clusters :
    Wanted(c) /\ ~Served(c) /\ CaughtUp(c) /\ clusters[c].spec.deployment \notin Releasable
      => Awake(c)

-----------------------------------------------------------------------------
(* Liveness.                                                               *)

(* Once nobody else writes any more, every TaskCluster has its Deployment, *)
(* at the size it asks for and with its availability reported, and stays   *)
(* so, unless the Deployment it names belongs to someone else.             *)
Settles == <>[](\A c \in Clusters : Wanted(c) => Served(c) \/ Taken(c))

=============================================================================
