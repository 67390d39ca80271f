-------------------- MODULE TaskClusterControllerProofs --------------------
(***************************************************************************)
(* Theorems about TaskClusterController for every value of its constants:  *)
(* any number of TaskClusters, Deployments and workers, of failing calls,  *)
(* restarts and broken watches.                                            *)
(*                                                                         *)
(* An Update of a Deployment is decided on copies of the TaskCluster and   *)
(* of the Deployment and replaces whatever is stored, so one has to know   *)
(* how the owner and the origin of what is stored compare with the copies. *)
(***************************************************************************)
EXTENDS TaskClusterController, TLAPS

-----------------------------------------------------------------------------
(* The inductive invariant.                                                *)

(* The versions of Deployment d that the API server or an informer holds.  *)
Versions(d) == {deployments[d], deploymentCache[d]} \cup deploymentWatch[d]

(* An owner reference comes with the label naming the owner.               *)
Referenced ==
  \A d \in Deployments : \A x \in Versions(d) : x.owner # 0 => x.cluster \in Clusters

(* Steps of syncHandler at which it holds a copy of its TaskCluster.       *)
Reading == {"getDeployment", "create", "update", "status"}

Busy(w) ==
  /\ pc[w] # "idle" => key[w] \in Clusters
  /\ pc[w] \in Reading => seen[w].spec.deployment \in Deployments

Typed == TypeOK /\ Referenced /\ \A w \in Workers : Busy(w)

(* No two workers process the same key.                                    *)
Exclusive ==
  \A w, x \in Workers : w # x /\ pc[w] # "idle" /\ pc[x] # "idle" => key[w] # key[x]

(* u is v or a version stored before v.                                    *)
Earlier(u, v) == u.rv <= v.rv /\ u.uid <= v.uid /\ (u.rv = v.rv => u.uid = v.uid)

(* Caches only ever move forward.                                          *)
InOrder ==
  \A c \in Clusters :
    /\ Earlier(clusterCache[c], clusters[c])
    /\ \A v \in clusterWatch[c] :
         /\ Earlier(clusterCache[c], v) /\ Earlier(v, clusters[c])
         /\ \A u \in clusterWatch[c] : u.rv <= v.rv => Earlier(u, v)

(* Deployment x was made from version v of TaskCluster c, or an older one. *)
MadeBefore(x, c, v) == x.cluster = c => x.from <= v.rv /\ x.owner <= v.uid

MadeFromCache ==
  \A c \in Clusters, d \in Deployments : \A x \in Versions(d) :
    MadeBefore(x, c, clusterCache[c])

(* Of versions with one selector, those stored later have later owners.    *)
NotLater(x, y) == x.cluster = y.cluster /\ y.exists /\ y.owner # 0 => x.owner <= y.owner

OwnersGrow ==
  \A d \in Deployments : \A x \in Versions(d) : NotLater(x, deployments[d])

(* What a worker holds, compared with what is stored.                      *)
Up2Date(w) ==
  pc[w] \in Reading =>
    /\ Earlier(seen[w], clusterCache[key[w]])
    /\ \A d \in Deployments : \A x \in Versions(d) : MadeBefore(x, key[w], seen[w])

(* An update is only sent for a Deployment that was controlled.            *)
Checked(w) ==
  pc[w] = "update" =>
    /\ held[w].cluster = key[w] /\ held[w].owner = seen[w].uid
    /\ NotLater(held[w], deployments[seen[w].spec.deployment])

IInv ==
  /\ Typed /\ Exclusive /\ InOrder /\ MadeFromCache /\ OwnersGrow
  /\ \A w \in Workers : Up2Date(w) /\ Checked(w)

-----------------------------------------------------------------------------
(* Types.                                                                  *)

(* The API server stores well typed versions when it is given them.        *)
LEMMA WriteClusterType ==
  ASSUME TypeOK, NEW c \in Clusters, NEW v \in ClusterVersion, WriteCluster(c, v)
  PROVE  /\ clusters' \in [Clusters -> ClusterVersion]
         /\ clusterWatch' \in [Clusters -> SUBSET ClusterVersion]
<1> DEFINE new == [v EXCEPT !.rv = clusters[c].rv + 1]
<1>1. new \in ClusterVersion
  <2>1. clusters[c].rv + 1 \in Nat
    BY DEF TypeOK, ClusterVersion
  <2> QED BY <2>1 DEF ClusterVersion
<1>2. /\ clusters' = [clusters EXCEPT ![c] = new]
      /\ clusterWatch' = [clusterWatch EXCEPT ![c] = @ \cup {new}]
  BY DEF WriteCluster, NextCluster
<1> HIDE DEF new
<1>3. clusters' \in [Clusters -> ClusterVersion]
  BY <1>1, <1>2 DEF TypeOK
<1>4. clusterWatch' \in [Clusters -> SUBSET ClusterVersion]
  BY <1>1, <1>2 DEF TypeOK
<1> QED BY <1>3, <1>4

(* A version stored by the API server is well typed.                       *)
LEMMA NextDeploymentType ==
  ASSUME TypeOK, NEW d \in Deployments, NEW v \in DeploymentVersion
  PROVE  NextDeployment(d, v) \in DeploymentVersion
<1>1. deployments[d].rv + 1 \in Nat
  BY DEF TypeOK, DeploymentVersion
<1> QED BY <1>1 DEF NextDeployment, DeploymentVersion

(* What is written refers to its owner by name, and the informers' caches  *)
(* are as they were.                                                       *)
LEMMA WriteDeploymentType ==
  ASSUME TypeOK, Referenced, NEW d \in Deployments, NEW v \in DeploymentVersion,
         v.owner # 0 => v.cluster \in Clusters,
         WriteDeployment(d, v), deploymentCache' = deploymentCache
  PROVE  /\ deployments' \in [Deployments -> DeploymentVersion]
         /\ deploymentWatch' \in [Deployments -> SUBSET DeploymentVersion]
         /\ Referenced'
<1>1. deployments' \in [Deployments -> DeploymentVersion]
  BY NextDeploymentType DEF TypeOK, WriteDeployment
<1>2. deploymentWatch' \in [Deployments -> SUBSET DeploymentVersion]
  BY NextDeploymentType DEF TypeOK, WriteDeployment
<1>3. Referenced'
  <2> DEFINE new == NextDeployment(d, v)
  <2>1. new.owner = v.owner /\ new.cluster = v.cluster
    BY DEF NextDeployment, DeploymentVersion
  <2>2. /\ deployments' = [deployments EXCEPT ![d] = new]
        /\ deploymentWatch' = [deploymentWatch EXCEPT ![d] = @ \cup {new}]
    BY DEF WriteDeployment
  <2> HIDE DEF new
  <2>3. ASSUME NEW e \in Deployments PROVE Versions(e)' \subseteq Versions(e) \cup {new}
    BY <2>2 DEF Versions, TypeOK
  <2>4. ASSUME NEW e \in Deployments, e # d PROVE Versions(e)' \subseteq Versions(e)
    BY <2>2, <2>4 DEF Versions, TypeOK
  <2> QED BY <2>1, <2>3, <2>4 DEF Referenced
<1> QED BY <1>1, <1>2, <1>3

(* Typed holds at the start and after every step.                          *)
LEMMA TypedInit == Init => Typed
<1> SUFFICES ASSUME Init PROVE Typed
  OBVIOUS
<1>1. NoClusterYet \in ClusterVersion
  BY DEF NoClusterYet, ClusterVersion, SpecType, NoReplicas
<1>2. NoDeploymentYet \in DeploymentVersion
  BY DEF NoDeploymentYet, DeploymentVersion
<1>3. TypeOK
  BY <1>1, <1>2 DEF Init, TypeOK, Steps, Notification
<1>4. \A w \in Workers : Busy(w)
  BY DEF Init, Busy, Reading
<1>5. Referenced
  BY DEF Init, Referenced, Versions, NoDeploymentYet
<1> QED BY <1>3, <1>4, <1>5 DEF Typed

LEMMA TypedEnvironment == ASSUME Typed, Environment PROVE Typed'
<1> USE DEF Typed, Busy, queueVars, workerVars, envVars
<1>0. \A d \in Deployments : deployments[d].owner # 0 => deployments[d].cluster \in Clusters
  BY DEF Referenced, Versions
<1>1. ASSUME NEW c \in Clusters, NEW v \in ClusterVersion, WriteCluster(c, v),
             UNCHANGED <<deployments, clusterCache, deploymentCache, deploymentWatch, notify,
                         queueVars, workerVars, envVars>>
      PROVE  Typed'
  BY <1>1, WriteClusterType DEF TypeOK, Referenced, Versions
<1>2. ASSUME NEW c \in Clusters, NEW s \in Specs, CreateCluster(c, s) PROVE Typed'
  <2> DEFINE v == [NoClusterYet EXCEPT !.uid = clusters[c].uid + 1, !.exists = TRUE, !.spec = s]
  <2>1. clusters[c].uid + 1 \in Nat /\ s \in SpecType
    BY ConstantsAssumption DEF TypeOK, ClusterVersion
  <2>2. v \in ClusterVersion
    BY <2>1 DEF NoClusterYet, ClusterVersion
  <2>3. WriteCluster(c, v)
    BY <1>2 DEF CreateCluster
  <2> HIDE DEF v
  <2> QED BY <1>1, <1>2, <2>2, <2>3 DEF CreateCluster
<1>3. ASSUME NEW c \in Clusters, NEW s \in Specs, EditCluster(c, s) PROVE Typed'
  <2>1. clusters[c] \in ClusterVersion /\ s \in SpecType
    BY ConstantsAssumption DEF TypeOK
  <2>2. [clusters[c] EXCEPT !.spec = s] \in ClusterVersion
    BY <2>1 DEF ClusterVersion
  <2> QED BY <1>1, <1>3, <2>2 DEF EditCluster
<1>4. ASSUME NEW c \in Clusters, DeleteCluster(c) PROVE Typed'
  <2>1. clusters[c] \in ClusterVersion
    BY DEF TypeOK
  <2>2. [clusters[c] EXCEPT !.exists = FALSE] \in ClusterVersion
    BY <2>1 DEF ClusterVersion
  <2> QED BY <1>1, <1>4, <2>2 DEF DeleteCluster
<1>5. ASSUME NEW d \in Deployments, NEW v \in DeploymentVersion, OthersWrite(d, v),
             v.owner # 0 => v.cluster \in Clusters
      PROVE  Typed'
  BY <1>5, WriteDeploymentType DEF OthersWrite, TypeOK
<1>6. ASSUME NEW d \in Deployments,
             \/ DeleteDeployment(d) \/ CreateForeign(d) \/ ReleaseDeployment(d) \/ Collect(d)
             \/ \E n \in 1..MaxReplicas : ScaleDeployment(d, n)
             \/ \E n \in 0..MaxReplicas : AvailableChanges(d, n)
      PROVE  Typed'
  <2>1. deployments[d] \in DeploymentVersion
    BY DEF TypeOK
  <2>2. CASE DeleteDeployment(d) \/ Collect(d)
    <3> DEFINE v == [deployments[d] EXCEPT !.exists = FALSE]
    <3>1. v \in DeploymentVersion /\ (v.owner # 0 => v.cluster \in Clusters)
      BY <1>0, <2>1 DEF DeploymentVersion
    <3> QED BY <1>5, <2>2, <3>1 DEF DeleteDeployment, Collect
  <2>3. CASE CreateForeign(d)
    <3> DEFINE v == [NoDeploymentYet EXCEPT !.exists = TRUE, !.replicas = 1]
    <3>1. v \in DeploymentVersion /\ v.owner = 0
      BY DEF NoDeploymentYet, DeploymentVersion
    <3> QED BY <1>5, <2>3, <3>1 DEF CreateForeign
  <2>4. CASE ReleaseDeployment(d)
    <3> DEFINE v == [deployments[d] EXCEPT !.owner = 0]
    <3>1. v \in DeploymentVersion /\ (v.owner # 0 => v.cluster \in Clusters)
      BY <1>0, <2>1 DEF DeploymentVersion
    <3> QED BY <1>5, <2>4, <3>1 DEF ReleaseDeployment
  <2>5. ASSUME NEW n \in 1..MaxReplicas, ScaleDeployment(d, n) PROVE Typed'
    <3> DEFINE v == [deployments[d] EXCEPT !.replicas = n]
    <3>1. v \in DeploymentVersion /\ (v.owner # 0 => v.cluster \in Clusters)
      BY <1>0, <2>1 DEF DeploymentVersion
    <3> QED BY <1>5, <2>5, <3>1 DEF ScaleDeployment
  <2>6. ASSUME NEW n \in 0..MaxReplicas, AvailableChanges(d, n) PROVE Typed'
    <3> DEFINE v == [deployments[d] EXCEPT !.available = n]
    <3>1. v \in DeploymentVersion /\ (v.owner # 0 => v.cluster \in Clusters)
      BY <1>0, <2>1 DEF DeploymentVersion
    <3> QED BY <1>5, <2>6, <3>1 DEF AvailableChanges
  <2> QED BY <1>6, <2>2, <2>3, <2>4, <2>5, <2>6
<1> QED BY <1>2, <1>3, <1>4, <1>6 DEF Environment

LEMMA TypedInformers == ASSUME Typed, Informers PROVE Typed'
<1> USE DEF Typed, Busy, apiVars, queueVars, workerVars, envVars
<1>1. ASSUME NEW c \in Clusters, SeeCluster(c) PROVE Typed'
  BY <1>1 DEF SeeCluster, LaterThan, Deliverable, TypeOK, Notification, Referenced, Versions
<1>2. ASSUME NEW c \in Clusters, Resync(c) PROVE Typed'
  BY <1>2 DEF Resync, TypeOK, Notification, Referenced, Versions
<1>3. ASSUME NEW d \in Deployments, SeeDeployment(d) PROVE Typed'
  <2>0. PICK v \in Deliverable(deploymentWatch[d]) :
          \E u \in Given(deploymentCache[d], v) :
            /\ deploymentCache' = [deploymentCache EXCEPT ![d] = v]
            /\ deploymentWatch' = [deploymentWatch EXCEPT ![d] = LaterThan(v, @)]
            /\ notify' = notify \cup OwnerNotice(u)
            /\ UNCHANGED <<apiVars, clusterCache, clusterWatch, queueVars, workerVars, envVars>>
    BY <1>3 DEF SeeDeployment
  <2>1. PICK u \in Given(deploymentCache[d], v) :
          /\ deploymentCache' = [deploymentCache EXCEPT ![d] = v]
          /\ deploymentWatch' = [deploymentWatch EXCEPT ![d] = LaterThan(v, @)]
          /\ notify' = notify \cup OwnerNotice(u)
          /\ UNCHANGED <<apiVars, clusterCache, clusterWatch, queueVars, workerVars, envVars>>
    BY <2>0
  <2>2. v \in DeploymentVersion /\ deploymentCache[d] \in DeploymentVersion
    BY <2>1 DEF Deliverable, TypeOK
  <2>3. OwnerNotice(u) \subseteq Notification
    <3>1. v \in Versions(d) /\ deploymentCache[d] \in Versions(d)
      BY DEF Versions, Deliverable
    <3>2. u \in {v, deploymentCache[d], NoDeploymentYet}
      BY <2>1 DEF Given
    <3>3. u.owner # 0 => u.cluster \in Clusters
      BY <3>1, <3>2 DEF Referenced, NoDeploymentYet
    <3> QED BY <3>3 DEF OwnerNotice, Notification
  <2>4. ASSUME NEW e \in Deployments PROVE Versions(e)' \subseteq Versions(e)
    BY <2>1, <2>2 DEF Versions, TypeOK, LaterThan, Deliverable
  <2>5. Referenced'
    BY <2>4 DEF Referenced
  <2>6. TypeOK'
    BY <2>1, <2>2, <2>3 DEF LaterThan, TypeOK
  <2> QED BY <2>1, <2>5, <2>6
<1> QED BY <1>1, <1>2, <1>3 DEF Informers

LEMMA TypedQueue ==
  ASSUME Typed, (\E n \in notify : Handle(n)) \/ (\E c \in retry : RetryDue(c))
  PROVE  Typed'
<1> USE DEF Typed, Busy, apiVars, informerVars, workerVars, envVars
<1>1. ASSUME NEW n \in notify, Handle(n) PROVE Typed'
  <2>1. n[2] \in Clusters
    BY DEF TypeOK, Notification
  <2>2. EnqueuedBy(n) \subseteq Clusters
    BY <2>1 DEF EnqueuedBy
  <2> QED BY <1>1, <2>2 DEF Handle, TypeOK, Referenced, Versions
<1>2. ASSUME NEW c \in retry, RetryDue(c) PROVE Typed'
  BY <1>2 DEF RetryDue, TypeOK, Referenced, Versions
<1> QED BY <1>1, <1>2

(* What the controller sends for a Deployment is well typed, and names the *)
(* TaskCluster that is being processed.                                    *)
LEMMA SentType ==
  ASSUME TypeOK, NEW w \in Workers, key[w] \in Clusters, NEW x \in DeploymentVersion
  PROVE  /\ newDeployment(key[w], seen[w]) \in DeploymentVersion
         /\ newDeployment(key[w], seen[w]).cluster = key[w]
         /\ Updated(key[w], seen[w], x) \in DeploymentVersion
         /\ Updated(key[w], seen[w], x).cluster = x.cluster
<1>1. seen[w] \in ClusterVersion
  BY DEF TypeOK
<1>2. seen[w].uid \in Nat /\ seen[w].rv \in Nat /\ seen[w].spec.replicas \in Nat
  BY <1>1 DEF ClusterVersion, SpecType
<1> QED BY <1>2 DEF newDeployment, Updated, NoDeploymentYet, DeploymentVersion, NoReplicas

(* An update stores a well typed Deployment and answers with one.          *)
LEMMA ApplyUpdateType ==
  ASSUME Typed, NEW w \in Workers, pc[w] = "update", ApplyUpdate(w),
         UpdateAccepted(key[w], seen[w].spec.deployment),
         deploymentCache' = deploymentCache
  PROVE  /\ deployments' \in [Deployments -> DeploymentVersion]
         /\ deploymentWatch' \in [Deployments -> SUBSET DeploymentVersion]
         /\ held' \in [Workers -> DeploymentVersion]
         /\ Referenced'
<1>1. PICK d : d = seen[w].spec.deployment
  OBVIOUS
<1>2. PICK v : v = Updated(key[w], seen[w], deployments[d])
  OBVIOUS
<1>3. d \in Deployments /\ key[w] \in Clusters
  BY <1>1 DEF Typed, Busy, Reading
<1>4. deployments[d] \in DeploymentVersion
  BY <1>3 DEF Typed, TypeOK
<1>5. v \in DeploymentVersion /\ v.cluster \in Clusters
  BY <1>1, <1>2, <1>3, <1>4, SentType DEF Typed, UpdateAccepted
<1>6. NextDeployment(d, v) \in DeploymentVersion
  BY <1>3, <1>5, NextDeploymentType DEF Typed
<1>7. CASE Unchanged(v, deployments[d])
  BY <1>1, <1>2, <1>4, <1>7 DEF ApplyUpdate, Typed, TypeOK, Referenced, Versions
<1>8. CASE ~Unchanged(v, deployments[d])
  <2>1. held' = [held EXCEPT ![w] = NextDeployment(d, v)] /\ WriteDeployment(d, v)
    BY <1>1, <1>2, <1>8 DEF ApplyUpdate
  <2> QED BY <2>1, <1>3, <1>5, <1>6, WriteDeploymentType DEF Typed, TypeOK
<1> QED BY <1>7, <1>8

(* Creating a Deployment stores a well typed one.                          *)
LEMMA CreateType ==
  ASSUME Typed, NEW w \in Workers, pc[w] = "create",
         WriteDeployment(seen[w].spec.deployment, newDeployment(key[w], seen[w])),
         deploymentCache' = deploymentCache
  PROVE  /\ deployments' \in [Deployments -> DeploymentVersion]
         /\ deploymentWatch' \in [Deployments -> SUBSET DeploymentVersion]
         /\ NextDeployment(seen[w].spec.deployment, newDeployment(key[w], seen[w]))
              \in DeploymentVersion
         /\ Referenced'
<1>1. PICK d : d = seen[w].spec.deployment
  OBVIOUS
<1>2. PICK v : v = newDeployment(key[w], seen[w])
  OBVIOUS
<1>3. d \in Deployments /\ key[w] \in Clusters
  BY <1>1 DEF Typed, Busy, Reading
<1>4. deployments[d] \in DeploymentVersion
  BY <1>3 DEF Typed, TypeOK
<1>5. v \in DeploymentVersion /\ v.cluster \in Clusters
  BY <1>2, <1>3, <1>4, SentType DEF Typed
<1>6. NextDeployment(d, v) \in DeploymentVersion
  BY <1>3, <1>5, NextDeploymentType DEF Typed
<1>7. WriteDeployment(d, v)
  BY <1>1, <1>2
<1> QED BY <1>1, <1>2, <1>3, <1>5, <1>6, <1>7, WriteDeploymentType DEF Typed

(* A status update stores a well typed TaskCluster.                        *)
LEMMA ApplyStatusType ==
  ASSUME Typed, NEW w \in Workers, pc[w] = "status", ApplyStatus(w)
  PROVE  /\ clusters' \in [Clusters -> ClusterVersion]
         /\ clusterWatch' \in [Clusters -> SUBSET ClusterVersion]
<1>1. PICK c : c = key[w]
  OBVIOUS
<1>2. PICK new : new = [seen[w] EXCEPT !.available = held[w].available]
  OBVIOUS
<1>3. c \in Clusters
  BY <1>1 DEF Typed, Busy
<1>4. new \in ClusterVersion
  <2>1. seen[w] \in ClusterVersion /\ held[w] \in DeploymentVersion
    BY DEF Typed, TypeOK
  <2>2. held[w].available \in Nat
    BY <2>1 DEF DeploymentVersion
  <2> QED BY <1>2, <2>1, <2>2 DEF ClusterVersion
<1>5. CASE new = clusters[c]
  BY <1>1, <1>2, <1>5 DEF ApplyStatus, Typed, TypeOK
<1>6. CASE new # clusters[c]
  <2>1. WriteCluster(c, new)
    BY <1>1, <1>2, <1>6 DEF ApplyStatus
  <2> QED BY <2>1, <1>3, <1>4, WriteClusterType DEF Typed
<1> QED BY <1>5, <1>6

LEMMA TypedWorker == ASSUME Typed, NEW w \in Workers, Worker(w) PROVE Typed'
<1> USE DEF Typed, Busy, Reading, Goto, Steps, apiVars, informerVars, queueVars, workerVars, envVars
<1>1. CASE GetWork(w)
  BY <1>1 DEF GetWork, Gettable, TypeOK, Referenced, Versions
<1>2. CASE GetCluster(w)
  <2>1. key[w] \in Clusters
    BY <1>2 DEF GetCluster
  <2>2. PICK t : t = clusterCache[key[w]]
    OBVIOUS
  <2>3. t \in ClusterVersion
    BY <2>1, <2>2 DEF TypeOK
  <2>4. CASE t.exists
    <3>1. /\ seen' = [seen EXCEPT ![w] = t]
          /\ pc' = [pc EXCEPT ![w] = IF Complete(t.spec) THEN "getDeployment" ELSE "ok"]
      BY <1>2, <2>2, <2>4 DEF GetCluster
    <3>2. Complete(t.spec) => t.spec.deployment \in Deployments
      BY <2>3 DEF Complete, ClusterVersion, SpecType
    <3>3. UNCHANGED <<apiVars, informerVars, queueVars, key, held, envVars>>
      BY <1>2 DEF GetCluster
    <3>4. TypeOK' /\ Referenced'
      BY <2>3, <3>1, <3>3 DEF TypeOK, Referenced, Versions
    <3>5. (\A x \in Workers : Busy(x))'
      BY <2>1, <3>1, <3>2, <3>3 DEF TypeOK
    <3> QED BY <3>4, <3>5
  <2>5. CASE ~t.exists
    BY <1>2, <2>2, <2>5 DEF GetCluster, TypeOK, Referenced, Versions
  <2> QED BY <2>4, <2>5
<1>3. ASSUME NEW d \in DeploymentVersion, Holding(w, d), pc[w] \in Reading,
             deployments' \in [Deployments -> DeploymentVersion],
             deploymentWatch' \in [Deployments -> SUBSET DeploymentVersion],
             Referenced',
             UNCHANGED <<clusters, clusterCache, deploymentCache, clusterWatch, notify,
                         queueVars, key, seen, envVars>>
      PROVE  Typed'
  BY <1>3 DEF Holding, TypeOK
<1>4. CASE GetDeployment(w)
  <2>1. seen[w].spec.deployment \in Deployments
    BY <1>4 DEF GetDeployment
  <2>2. PICK t : t = deploymentCache[seen[w].spec.deployment]
    OBVIOUS
  <2>3. t \in DeploymentVersion
    BY <2>1, <2>2 DEF TypeOK
  <2>4. Referenced'
    BY <1>4 DEF GetDeployment, Referenced, Versions
  <2>5. CASE t.exists
    <3>1. Holding(w, t)
      BY <1>4, <2>2, <2>5 DEF GetDeployment
    <3>2. /\ deployments' \in [Deployments -> DeploymentVersion]
          /\ deploymentWatch' \in [Deployments -> SUBSET DeploymentVersion]
      BY <1>4 DEF GetDeployment, TypeOK
    <3> QED BY <1>3, <1>4, <2>3, <2>4, <3>1, <3>2 DEF GetDeployment
  <2>6. CASE ~t.exists
    BY <1>4, <2>2, <2>4, <2>6 DEF GetDeployment, TypeOK
  <2> QED BY <2>5, <2>6
<1>5. CASE CreateDeployment(w)
  <2>1. PICK d : d = seen[w].spec.deployment
    OBVIOUS
  <2>2. PICK v : v = newDeployment(key[w], seen[w])
    OBVIOUS
  <2>3. CASE ~deployments[d].exists
    <3>1. WriteDeployment(d, v) /\ Holding(w, NextDeployment(d, v))
      BY <1>5, <2>1, <2>2, <2>3 DEF CreateDeployment
    <3>2. pc[w] = "create" /\ deploymentCache' = deploymentCache
      BY <1>5 DEF CreateDeployment
    <3>3. /\ deployments' \in [Deployments -> DeploymentVersion]
          /\ deploymentWatch' \in [Deployments -> SUBSET DeploymentVersion]
          /\ NextDeployment(d, v) \in DeploymentVersion
          /\ Referenced'
      BY <2>1, <2>2, <3>1, <3>2, CreateType
    <3> QED BY <1>3, <1>5, <3>1, <3>2, <3>3 DEF CreateDeployment
  <2>4. CASE deployments[d].exists
    BY <1>5, <2>1, <2>4 DEF CreateDeployment, TypeOK, Referenced, Versions
  <2> QED BY <2>3, <2>4
<1>6. CASE UpdateDeployment(w)
  <2>1. CASE UpdateAccepted(key[w], seen[w].spec.deployment)
    <3>1. pc[w] = "update" /\ ApplyUpdate(w) /\ deploymentCache' = deploymentCache
      BY <1>6, <2>1 DEF UpdateDeployment
    <3>2. /\ deployments' \in [Deployments -> DeploymentVersion]
          /\ deploymentWatch' \in [Deployments -> SUBSET DeploymentVersion]
          /\ held' \in [Workers -> DeploymentVersion]
          /\ Referenced'
      BY <2>1, <3>1, ApplyUpdateType
    <3> QED BY <1>6, <2>1, <3>2 DEF UpdateDeployment, TypeOK
  <2>2. CASE ~UpdateAccepted(key[w], seen[w].spec.deployment)
    BY <1>6, <2>2 DEF UpdateDeployment, TypeOK, Referenced, Versions
  <2> QED BY <2>1, <2>2
<1>7. CASE updateTaskClusterStatus(w)
  <2>1. CASE Current(key[w], seen[w])
    BY <1>7, <2>1, ApplyStatusType
       DEF updateTaskClusterStatus, TypeOK, Referenced, Versions
  <2>2. CASE ~Current(key[w], seen[w])
    BY <1>7, <2>2 DEF updateTaskClusterStatus, TypeOK, Referenced, Versions
  <2> QED BY <2>1, <2>2
<1>8. CASE CallFails(w)
  <2>1. /\ pc' = [pc EXCEPT ![w] = "err"] /\ faults' \in Nat
        /\ pc[w] \in {"create", "update", "status"}
        /\ UNCHANGED <<clusterCache, deploymentCache, notify, queueVars, key, seen, restarts>>
    BY <1>8 DEF CallFails, TypeOK
  <2>2. CASE UNCHANGED <<apiVars, clusterWatch, deploymentWatch, held>>
    BY <2>1, <2>2 DEF TypeOK, Referenced, Versions
  <2>3. CASE /\ pc[w] = "create"
             /\ WriteDeployment(seen[w].spec.deployment, newDeployment(key[w], seen[w]))
             /\ UNCHANGED <<clusters, clusterWatch, held>>
    BY <2>1, <2>3, CreateType DEF TypeOK
  <2>4. CASE /\ pc[w] = "update" /\ UpdateAccepted(key[w], seen[w].spec.deployment)
             /\ ApplyUpdate(w) /\ UNCHANGED <<clusters, clusterWatch>>
    BY <2>1, <2>4, ApplyUpdateType DEF TypeOK
  <2>5. CASE /\ pc[w] = "status" /\ ApplyStatus(w)
             /\ UNCHANGED <<deployments, deploymentWatch, held>>
    BY <2>1, <2>5, ApplyStatusType DEF TypeOK, Referenced, Versions
  <2> QED BY <1>8, <2>2, <2>3, <2>4, <2>5 DEF CallFails
<1>9. CASE FinishWork(w)
  <2>1. NoClusterYet \in ClusterVersion /\ NoDeploymentYet \in DeploymentVersion
    BY DEF NoClusterYet, ClusterVersion, SpecType, NoReplicas, NoDeploymentYet, DeploymentVersion
  <2> QED BY <1>9, <2>1 DEF FinishWork, Requeued, TypeOK, Referenced, Versions
<1> QED BY <1>1, <1>2, <1>4, <1>5, <1>6, <1>7, <1>8, <1>9 DEF Worker, SyncHandler

LEMMA TypedRestart == ASSUME Typed, Restart PROVE Typed'
<1>1. NoClusterYet \in ClusterVersion /\ NoDeploymentYet \in DeploymentVersion
  BY DEF NoClusterYet, ClusterVersion, SpecType, NoReplicas, NoDeploymentYet, DeploymentVersion
<1>2. Referenced'
  BY DEF Restart, Typed, Referenced, Versions, apiVars
<1>3. notify' \subseteq Notification
  <2>1. ASSUME NEW d \in Deployments PROVE OwnerNotice(deployments[d]) \subseteq Notification
    BY DEF Typed, Referenced, Versions, OwnerNotice, Notification
  <2> QED BY <2>1 DEF Restart, Notification
<1>4. TypeOK'
  BY <1>1, <1>3 DEF Restart, Typed, TypeOK, Steps, apiVars
<1>5. (\A w \in Workers : Busy(w))'
  BY DEF Restart, Busy, Reading
<1> QED BY <1>2, <1>4, <1>5 DEF Typed

LEMMA TypedStep == Typed /\ [Next]_vars => Typed'
<1> SUFFICES ASSUME Typed, [Next]_vars PROVE Typed'
  OBVIOUS
<1>1. CASE UNCHANGED vars
  BY <1>1 DEF vars, apiVars, informerVars, queueVars, workerVars, envVars, Typed, TypeOK, Busy,
              Referenced, Versions
<1> QED BY <1>1, TypedEnvironment, TypedInformers, TypedQueue, TypedWorker, TypedRestart DEF Next

(* TypeOK: the controller's variables hold values of their types, whatever *)
(* caches, failing calls and restarts do.                                  *)
THEOREM TypeSafety == Spec => []TypeOK
<1>1. Spec => []Typed
  BY TypedInit, TypedStep, PTL DEF Spec
<1>2. Typed => TypeOK
  BY DEF Typed
<1> QED BY <1>1, <1>2, PTL

-----------------------------------------------------------------------------
(* What a step does to a Deployment.                                       *)

Untouched(d) ==
  /\ deployments'[d] = deployments[d]
  /\ deploymentCache'[d] = deploymentCache[d] /\ deploymentWatch'[d] = deploymentWatch[d]

Kept(d) == deployments'[d] = deployments[d] /\ Versions(d)' \subseteq Versions(d)

Stored(d, x) ==
  /\ x.rv = deployments[d].rv + 1 /\ deployments'[d] = x
  /\ deploymentCache'[d] = deploymentCache[d]
  /\ deploymentWatch'[d] = deploymentWatch[d] \cup {x}
  /\ Versions(d)' \subseteq Versions(d) \cup {x}

(* Others keep the owner or remove it, or create what nobody owns.         *)
ByOthers(d, x) ==
  \/ /\ deployments[d].exists
     /\ x.cluster = deployments[d].cluster /\ x.from = deployments[d].from
     /\ \/ x.owner = deployments[d].owner
        \/ d \in Releasable /\ x.owner = 0
  \/ ~deployments[d].exists /\ x.cluster = NoCluster /\ x.owner = 0

(* Worker w stores what it makes from its copy of the TaskCluster.         *)
ByWorker(w, d, x) ==
  /\ pc[w] \in {"create", "update"} /\ d = seen[w].spec.deployment
  /\ x.cluster = key[w] /\ x.owner = seen[w].uid /\ x.from = seen[w].rv
  /\ deployments[d].exists => pc[w] = "update" /\ deployments[d].cluster = key[w]

Written(d) ==
  \E x \in DeploymentVersion :
    Stored(d, x) /\ (ByOthers(d, x) \/ \E w \in Workers : ByWorker(w, d, x))

(* Nothing happens to the Deployments.                                     *)
LEMMA UntouchedWhenUnchanged ==
  ASSUME NEW d, UNCHANGED <<deployments, deploymentCache, deploymentWatch>>
  PROVE  Untouched(d)
BY DEF Untouched

(* A write stores one version of one Deployment.                           *)
LEMMA WriteEffect ==
  ASSUME TypeOK, NEW d \in Deployments, NEW v \in DeploymentVersion,
         WriteDeployment(d, v), deploymentCache' = deploymentCache
  PROVE  /\ \A e \in Deployments \ {d} : Untouched(e)
         /\ \E x \in DeploymentVersion :
              /\ Stored(d, x)
              /\ x.cluster = v.cluster /\ x.owner = v.owner /\ x.from = v.from
              /\ x = NextDeployment(d, v)
<1>1. PICK x : x = NextDeployment(d, v)
  OBVIOUS
<1>2. x \in DeploymentVersion
  BY <1>1, NextDeploymentType
<1>3. /\ x.cluster = v.cluster /\ x.owner = v.owner /\ x.from = v.from
      /\ x.rv = deployments[d].rv + 1
  BY <1>1 DEF NextDeployment, DeploymentVersion
<1>4. /\ deployments' = [deployments EXCEPT ![d] = x]
      /\ deploymentWatch' = [deploymentWatch EXCEPT ![d] = @ \cup {x}]
  BY <1>1 DEF WriteDeployment
<1>5. \A e \in Deployments \ {d} : Untouched(e)
  BY <1>4 DEF Untouched, TypeOK
<1>6. Stored(d, x)
  BY <1>3, <1>4 DEF Stored, Versions, TypeOK
<1> QED BY <1>1, <1>2, <1>3, <1>5, <1>6

(* What users and the rest of Kubernetes do to a Deployment.               *)
LEMMA OthersEffect ==
  ASSUME Typed, Environment, NEW d \in Deployments
  PROVE  Untouched(d) \/ Written(d)
<1>1. ASSUME NEW e \in Deployments, NEW v \in DeploymentVersion, OthersWrite(e, v), ByOthers(e, v)
      PROVE  Untouched(d) \/ Written(d)
  <2>1. WriteDeployment(e, v) /\ deploymentCache' = deploymentCache
    BY <1>1 DEF OthersWrite
  <2>2. CASE e # d
    BY <1>1, <2>1, <2>2, WriteEffect DEF Typed
  <2>3. CASE e = d
    BY <1>1, <2>1, <2>3, WriteEffect DEF Typed, Written, ByOthers
  <2> QED BY <2>2, <2>3
<1>2. CASE \E c \in Clusters : \/ DeleteCluster(c)
                               \/ \E s \in Specs : CreateCluster(c, s) \/ EditCluster(c, s)
  BY <1>2, UntouchedWhenUnchanged DEF DeleteCluster, CreateCluster, EditCluster
<1>3. ASSUME NEW e \in Deployments,
             \/ DeleteDeployment(e) \/ CreateForeign(e) \/ ReleaseDeployment(e) \/ Collect(e)
             \/ \E n \in 1..MaxReplicas : ScaleDeployment(e, n)
             \/ \E n \in 0..MaxReplicas : AvailableChanges(e, n)
      PROVE  Untouched(d) \/ Written(d)
  <2>1. deployments[e] \in DeploymentVersion
    BY DEF Typed, TypeOK
  <2>2. CASE DeleteDeployment(e) \/ Collect(e)
    <3> DEFINE v == [deployments[e] EXCEPT !.exists = FALSE]
    <3>1. v \in DeploymentVersion
      BY <2>1 DEF DeploymentVersion
    <3>2. v.cluster = deployments[e].cluster /\ v.owner = deployments[e].owner
          /\ v.from = deployments[e].from
      BY <2>1 DEF DeploymentVersion
    <3>3. OthersWrite(e, v) /\ deployments[e].exists
      BY <2>2 DEF DeleteDeployment, Collect
    <3> HIDE DEF v
    <3> QED BY <1>1, <3>1, <3>2, <3>3 DEF ByOthers
  <2>3. CASE CreateForeign(e)
    <3> DEFINE v == [NoDeploymentYet EXCEPT !.exists = TRUE, !.replicas = 1]
    <3>1. v \in DeploymentVersion /\ v.owner = 0 /\ v.cluster = NoCluster
      BY DEF NoDeploymentYet, DeploymentVersion
    <3>2. OthersWrite(e, v) /\ ~deployments[e].exists
      BY <2>3 DEF CreateForeign
    <3> HIDE DEF v
    <3> QED BY <1>1, <3>1, <3>2 DEF ByOthers
  <2>4. CASE ReleaseDeployment(e)
    <3> DEFINE v == [deployments[e] EXCEPT !.owner = 0]
    <3>1. v \in DeploymentVersion
      BY <2>1 DEF DeploymentVersion
    <3>2. v.cluster = deployments[e].cluster /\ v.owner = 0 /\ v.from = deployments[e].from
      BY <2>1 DEF DeploymentVersion
    <3>3. OthersWrite(e, v) /\ deployments[e].exists /\ e \in Releasable
      BY <2>4 DEF ReleaseDeployment
    <3> HIDE DEF v
    <3> QED BY <1>1, <3>1, <3>2, <3>3 DEF ByOthers
  <2>5. ASSUME NEW n \in 1..MaxReplicas, ScaleDeployment(e, n) PROVE Untouched(d) \/ Written(d)
    <3> DEFINE v == [deployments[e] EXCEPT !.replicas = n]
    <3>1. v \in DeploymentVersion
      BY <2>1 DEF DeploymentVersion
    <3>2. v.cluster = deployments[e].cluster /\ v.owner = deployments[e].owner
          /\ v.from = deployments[e].from
      BY <2>1 DEF DeploymentVersion
    <3>3. OthersWrite(e, v) /\ deployments[e].exists
      BY <2>5 DEF ScaleDeployment
    <3> HIDE DEF v
    <3> QED BY <1>1, <3>1, <3>2, <3>3 DEF ByOthers
  <2>6. ASSUME NEW n \in 0..MaxReplicas, AvailableChanges(e, n) PROVE Untouched(d) \/ Written(d)
    <3> DEFINE v == [deployments[e] EXCEPT !.available = n]
    <3>1. v \in DeploymentVersion
      BY <2>1 DEF DeploymentVersion
    <3>2. v.cluster = deployments[e].cluster /\ v.owner = deployments[e].owner
          /\ v.from = deployments[e].from
      BY <2>1 DEF DeploymentVersion
    <3>3. OthersWrite(e, v) /\ deployments[e].exists
      BY <2>6 DEF AvailableChanges
    <3> HIDE DEF v
    <3> QED BY <1>1, <3>1, <3>2, <3>3 DEF ByOthers
  <2> QED BY <1>3, <2>2, <2>3, <2>4, <2>5, <2>6
<1> QED BY <1>2, <1>3 DEF Environment

(* What Create does to a Deployment.                                       *)
LEMMA CreateEffect ==
  ASSUME Typed, NEW w \in Workers, pc[w] = "create",
         ~deployments[seen[w].spec.deployment].exists,
         WriteDeployment(seen[w].spec.deployment, newDeployment(key[w], seen[w])),
         deploymentCache' = deploymentCache,
         NEW d \in Deployments
  PROVE  Untouched(d) \/ Written(d)
<1>1. PICK e : e = seen[w].spec.deployment
  OBVIOUS
<1>2. PICK v : v = newDeployment(key[w], seen[w])
  OBVIOUS
<1>3. e \in Deployments /\ key[w] \in Clusters
  BY <1>1 DEF Typed, Busy, Reading
<1>4. v \in DeploymentVersion /\ v.cluster = key[w]
  <2>1. deployments[e] \in DeploymentVersion
    BY <1>3 DEF Typed, TypeOK
  <2> QED BY <1>2, <1>3, <2>1, SentType DEF Typed
<1>5. v.owner = seen[w].uid /\ v.from = seen[w].rv
  BY <1>2 DEF newDeployment, NoDeploymentYet
<1>6. WriteDeployment(e, v)
  BY <1>1, <1>2
<1>7. CASE d # e
  BY <1>3, <1>4, <1>6, <1>7, WriteEffect DEF Typed
<1>8. CASE d = e
  <2>1. PICK x \in DeploymentVersion :
          Stored(e, x) /\ x.cluster = v.cluster /\ x.owner = v.owner /\ x.from = v.from
    BY <1>3, <1>4, <1>6, WriteEffect DEF Typed
  <2>2. ByWorker(w, e, x)
    BY <1>1, <1>4, <1>5, <2>1 DEF ByWorker
  <2> QED BY <1>8, <2>1, <2>2 DEF Written
<1> QED BY <1>7, <1>8

(* What Update does to a Deployment.                                       *)
LEMMA UpdateEffect ==
  ASSUME Typed, NEW w \in Workers, pc[w] = "update", ApplyUpdate(w),
         UpdateAccepted(key[w], seen[w].spec.deployment),
         deploymentCache' = deploymentCache,
         NEW d \in Deployments
  PROVE  Untouched(d) \/ Written(d)
<1>1. PICK e : e = seen[w].spec.deployment
  OBVIOUS
<1>2. PICK v : v = Updated(key[w], seen[w], deployments[e])
  OBVIOUS
<1>3. e \in Deployments /\ key[w] \in Clusters
  BY <1>1 DEF Typed, Busy, Reading
<1>4. deployments[e] \in DeploymentVersion
  BY <1>3 DEF Typed, TypeOK
<1>5. v \in DeploymentVersion /\ v.cluster = key[w]
  BY <1>1, <1>2, <1>3, <1>4, SentType DEF Typed, UpdateAccepted
<1>6. v.owner = seen[w].uid /\ v.from = seen[w].rv
  BY <1>2, <1>4 DEF Updated, DeploymentVersion
<1>7. CASE Unchanged(v, deployments[e])
  BY <1>1, <1>2, <1>7, UntouchedWhenUnchanged DEF ApplyUpdate
<1>8. CASE ~Unchanged(v, deployments[e])
  <2>1. WriteDeployment(e, v)
    BY <1>1, <1>2, <1>8 DEF ApplyUpdate
  <2>2. CASE d # e
    BY <1>3, <1>5, <2>1, <2>2, WriteEffect DEF Typed
  <2>3. CASE d = e
    <3>1. PICK x \in DeploymentVersion :
            Stored(e, x) /\ x.cluster = v.cluster /\ x.owner = v.owner /\ x.from = v.from
      BY <1>3, <1>5, <2>1, WriteEffect DEF Typed
    <3>2. ByWorker(w, e, x)
      BY <1>1, <1>5, <1>6, <3>1 DEF ByWorker, UpdateAccepted
    <3> QED BY <2>3, <3>1, <3>2 DEF Written
  <2> QED BY <2>2, <2>3
<1> QED BY <1>7, <1>8

(* A step leaves a Deployment and what is known of it alone, stores one    *)
(* version of it, or lets the informer catch up with it.                   *)
LEMMA DeploymentFlow ==
  ASSUME Typed, [Next]_vars, NEW d \in Deployments
  PROVE  Untouched(d) \/ Written(d) \/ SeeDeployment(d) \/ Restart
<1> USE UntouchedWhenUnchanged DEF apiVars, informerVars, queueVars, workerVars, envVars
<1>1. CASE UNCHANGED vars
  BY <1>1 DEF vars
<1>2. CASE Informers
  <2>1. CASE \E c \in Clusters : SeeCluster(c) \/ Resync(c)
    BY <2>1 DEF SeeCluster, Resync
  <2>2. ASSUME NEW e \in Deployments, SeeDeployment(e), e # d PROVE Untouched(d)
    BY <2>2 DEF SeeDeployment, Untouched, Typed, TypeOK
  <2> QED BY <1>2, <2>1, <2>2 DEF Informers
<1>3. CASE (\E n \in notify : Handle(n)) \/ (\E c \in retry : RetryDue(c))
  BY <1>3 DEF Handle, RetryDue
<1>4. ASSUME NEW w \in Workers, Worker(w) PROVE Untouched(d) \/ Written(d)
  <2>1. CASE GetWork(w) \/ GetCluster(w) \/ GetDeployment(w) \/ updateTaskClusterStatus(w)
             \/ FinishWork(w)
    BY <2>1 DEF GetWork, GetCluster, GetDeployment, updateTaskClusterStatus, FinishWork
  <2>2. CASE CreateDeployment(w)
    <3>1. CASE ~deployments[seen[w].spec.deployment].exists
      BY <2>2, <3>1, CreateEffect DEF CreateDeployment
    <3>2. CASE deployments[seen[w].spec.deployment].exists
      BY <2>2, <3>2 DEF CreateDeployment
    <3> QED BY <3>1, <3>2
  <2>3. CASE UpdateDeployment(w)
    <3>1. CASE UpdateAccepted(key[w], seen[w].spec.deployment)
      BY <2>3, <3>1, UpdateEffect DEF UpdateDeployment
    <3>2. CASE ~UpdateAccepted(key[w], seen[w].spec.deployment)
      BY <2>3, <3>2 DEF UpdateDeployment
    <3> QED BY <3>1, <3>2
  <2>4. CASE CallFails(w)
    BY <2>4, CreateEffect, UpdateEffect DEF CallFails
  <2> QED BY <1>4, <2>1, <2>2, <2>3, <2>4 DEF Worker, SyncHandler
<1> QED BY <1>1, <1>2, <1>3, <1>4, OthersEffect DEF Next

(* In particular, the informer shows nothing that was not stored before.   *)
LEMMA DeploymentStep ==
  ASSUME Typed, [Next]_vars, NEW d \in Deployments
  PROVE  Kept(d) \/ Written(d)
<1>1. CASE Untouched(d)
  BY <1>1 DEF Untouched, Kept, Versions
<1>2. CASE SeeDeployment(d)
  BY <1>2 DEF SeeDeployment, Kept, Versions, Deliverable, LaterThan, Typed, TypeOK, apiVars
<1>3. CASE Restart
  BY <1>3 DEF Restart, Kept, Versions, apiVars
<1> QED BY <1>1, <1>2, <1>3, DeploymentFlow

-----------------------------------------------------------------------------
(* What a step does to a TaskCluster and to its cache.                     *)

(* Earlier is a preorder.                                                  *)
LEMMA EarlierTransitive ==
  ASSUME NEW t \in ClusterVersion, NEW u \in ClusterVersion, NEW v \in ClusterVersion,
         Earlier(t, u), Earlier(u, v)
  PROVE  Earlier(t, v)
BY DEF Earlier, ClusterVersion

LEMMA EarlierReflexive == ASSUME NEW v \in ClusterVersion PROVE Earlier(v, v)
BY DEF Earlier, ClusterVersion

(* The API server stores nothing that is older than what it had.           *)
LEMMA WriteInOrder ==
  ASSUME TypeOK, InOrder, NEW c \in Clusters, NEW v \in ClusterVersion,
         v.uid >= clusters[c].uid, WriteCluster(c, v), clusterCache' = clusterCache
  PROVE  InOrder'
<1>1. PICK x : x = NextCluster(c, v)
  OBVIOUS
<1>2. clusters[c].rv \in Nat /\ clusters[c].uid \in Nat /\ clusters[c].rv + 1 \in Nat
  BY DEF TypeOK, ClusterVersion
<1>3. x \in ClusterVersion /\ x.rv = clusters[c].rv + 1 /\ x.uid = v.uid
  BY <1>1, <1>2 DEF NextCluster, ClusterVersion
<1>4. /\ clusters' = [clusters EXCEPT ![c] = x]
      /\ clusterWatch' = [clusterWatch EXCEPT ![c] = @ \cup {x}]
  BY <1>1 DEF WriteCluster
<1>5. \A u \in ClusterVersion : Earlier(u, clusters[c]) => Earlier(u, x) /\ u.rv < x.rv
  BY <1>2, <1>3 DEF Earlier, ClusterVersion
<1>6. ASSUME NEW b \in Clusters
      PROVE  /\ Earlier(clusterCache[b], clusters'[b])
             /\ \A u \in clusterWatch'[b] :
                  /\ Earlier(clusterCache[b], u) /\ Earlier(u, clusters'[b])
                  /\ \A t \in clusterWatch'[b] : t.rv <= u.rv => Earlier(t, u)
  <2>1. /\ clusterCache[b] \in ClusterVersion /\ clusterWatch[b] \subseteq ClusterVersion
        /\ Earlier(clusterCache[b], clusters[b])
        /\ \A u \in clusterWatch[b] :
             /\ Earlier(clusterCache[b], u) /\ Earlier(u, clusters[b])
             /\ \A t \in clusterWatch[b] : t.rv <= u.rv => Earlier(t, u)
    BY DEF TypeOK, InOrder
  <2>2. CASE b = c
    <3>1. clusters'[b] = x /\ clusterWatch'[b] = clusterWatch[b] \cup {x}
      BY <1>4, <2>2 DEF TypeOK
    <3>2. Earlier(clusterCache[b], x) /\ Earlier(x, x)
      BY <1>3, <1>5, <2>1, <2>2, EarlierReflexive
    <3>3. \A u \in clusterWatch[b] : Earlier(u, x) /\ u.rv < x.rv
      BY <1>5, <2>1, <2>2
    <3>4. \A u \in clusterWatch[b] : ~(x.rv <= u.rv)
      BY <1>3, <2>1, <3>3 DEF ClusterVersion
    <3> QED BY <2>1, <3>1, <3>2, <3>3, <3>4
  <2>3. CASE b # c
    BY <1>4, <2>1, <2>3 DEF TypeOK
  <2> QED BY <2>2, <2>3
<1> QED BY <1>6 DEF InOrder

(* Where no TaskCluster and no cache of one changes, the order is kept.    *)
LEMMA OrderUnchanged ==
  ASSUME Typed, InOrder, UNCHANGED <<clusters, clusterCache, clusterWatch>>
  PROVE  InOrder' /\ \A c \in Clusters : Earlier(clusterCache[c], clusterCache'[c])
BY EarlierReflexive DEF Typed, TypeOK, InOrder

(* Updating the status of the stored version keeps the incarnation.        *)
LEMMA StatusInOrder ==
  ASSUME Typed, InOrder, NEW w \in Workers, Up2Date(w), pc[w] = "status",
         Current(key[w], seen[w]), ApplyStatus(w), clusterCache' = clusterCache
  PROVE  InOrder'
<1>1. PICK c : c = key[w]
  OBVIOUS
<1>2. PICK v : v = [seen[w] EXCEPT !.available = held[w].available]
  OBVIOUS
<1>3. c \in Clusters /\ seen[w] \in ClusterVersion /\ held[w] \in DeploymentVersion
  BY <1>1 DEF Typed, TypeOK, Busy
<1>4. clusters[c] \in ClusterVersion /\ clusterCache[c] \in ClusterVersion
  BY <1>3 DEF Typed, TypeOK
<1>5. v \in ClusterVersion /\ v.uid = seen[w].uid
  BY <1>2, <1>3 DEF ClusterVersion, DeploymentVersion
<1>6. Earlier(seen[w], clusters[c])
  <2>1. Earlier(seen[w], clusterCache[c])
    BY <1>1 DEF Up2Date, Reading
  <2>2. Earlier(clusterCache[c], clusters[c])
    BY <1>3 DEF InOrder
  <2> QED BY <2>1, <2>2, <1>3, <1>4, EarlierTransitive
<1>7. v.uid = clusters[c].uid
  BY <1>1, <1>5, <1>6 DEF Earlier, Current
<1>8. CASE v = clusters[c]
  BY <1>1, <1>2, <1>8, OrderUnchanged DEF ApplyStatus
<1>9. CASE v # clusters[c]
  <2>1. WriteCluster(c, v)
    BY <1>1, <1>2, <1>9 DEF ApplyStatus
  <2>2. v.uid >= clusters[c].uid
    BY <1>4, <1>7 DEF ClusterVersion
  <2> QED BY <1>3, <1>5, <2>1, <2>2, WriteInOrder DEF Typed
<1> QED BY <1>8, <1>9

(* The caches of TaskClusters stay in order and move forward only.         *)
LEMMA ClusterStep ==
  ASSUME Typed, InOrder, \A w \in Workers : Up2Date(w), [Next]_vars
  PROVE  InOrder' /\ \A c \in Clusters : Earlier(clusterCache[c], clusterCache'[c])
<1> USE OrderUnchanged DEF apiVars, informerVars, queueVars, workerVars, envVars
<1>0. ASSUME InOrder', clusterCache' = clusterCache
      PROVE  InOrder' /\ \A c \in Clusters : Earlier(clusterCache[c], clusterCache'[c])
  BY <1>0, EarlierReflexive DEF Typed, TypeOK
<1>1. CASE UNCHANGED vars
  BY <1>1 DEF vars
<1>2. CASE Environment
  <2>1. ASSUME NEW c \in Clusters, NEW s \in Specs, CreateCluster(c, s)
        PROVE  InOrder' /\ clusterCache' = clusterCache
    <3> DEFINE v == [NoClusterYet EXCEPT !.uid = clusters[c].uid + 1, !.exists = TRUE, !.spec = s]
    <3>1. clusters[c].uid \in Nat /\ clusters[c].uid + 1 \in Nat /\ s \in SpecType
      BY ConstantsAssumption DEF Typed, TypeOK, ClusterVersion
    <3>2. v \in ClusterVersion
      BY <3>1 DEF NoClusterYet, ClusterVersion
    <3>3. v.uid = clusters[c].uid + 1
      BY DEF NoClusterYet
    <3>4. v.uid >= clusters[c].uid
      BY <3>1, <3>3
    <3>5. WriteCluster(c, v) /\ clusterCache' = clusterCache
      BY <2>1 DEF CreateCluster
    <3> HIDE DEF v
    <3> QED BY <3>2, <3>4, <3>5, WriteInOrder DEF Typed
  <2>2. ASSUME NEW c \in Clusters, NEW v \in ClusterVersion, v.uid = clusters[c].uid,
               WriteCluster(c, v), clusterCache' = clusterCache
        PROVE  InOrder' /\ clusterCache' = clusterCache
    <3>1. v.uid >= clusters[c].uid
      BY <2>2 DEF ClusterVersion
    <3> QED BY <2>2, <3>1, WriteInOrder DEF Typed
  <2>3. ASSUME NEW c \in Clusters, NEW s \in Specs, EditCluster(c, s)
        PROVE  InOrder' /\ clusterCache' = clusterCache
    <3> DEFINE v == [clusters[c] EXCEPT !.spec = s]
    <3>1. clusters[c] \in ClusterVersion /\ s \in SpecType
      BY ConstantsAssumption DEF Typed, TypeOK
    <3>2. v \in ClusterVersion /\ v.uid = clusters[c].uid
      BY <3>1 DEF ClusterVersion
    <3>3. WriteCluster(c, v) /\ clusterCache' = clusterCache
      BY <2>3 DEF EditCluster
    <3> HIDE DEF v
    <3> QED BY <2>2, <3>2, <3>3
  <2>4. ASSUME NEW c \in Clusters, DeleteCluster(c)
        PROVE  InOrder' /\ clusterCache' = clusterCache
    <3> DEFINE v == [clusters[c] EXCEPT !.exists = FALSE]
    <3>1. clusters[c] \in ClusterVersion
      BY DEF Typed, TypeOK
    <3>2. v \in ClusterVersion /\ v.uid = clusters[c].uid
      BY <3>1 DEF ClusterVersion
    <3>3. WriteCluster(c, v) /\ clusterCache' = clusterCache
      BY <2>4 DEF DeleteCluster
    <3> HIDE DEF v
    <3> QED BY <2>2, <3>2, <3>3
  <2>6. ASSUME NEW d \in Deployments,
               \/ DeleteDeployment(d) \/ CreateForeign(d) \/ ReleaseDeployment(d) \/ Collect(d)
               \/ \E n \in 1..MaxReplicas : ScaleDeployment(d, n)
               \/ \E n \in 0..MaxReplicas : AvailableChanges(d, n)
        PROVE  UNCHANGED <<clusters, clusterCache, clusterWatch>>
    BY <2>6 DEF DeleteDeployment, CreateForeign, ReleaseDeployment, Collect, ScaleDeployment,
                AvailableChanges, OthersWrite
  <2> QED BY <1>0, <1>2, <2>1, <2>3, <2>4, <2>6 DEF Environment
<1>3. CASE Informers
  <2>1. ASSUME NEW c \in Clusters, SeeCluster(c)
        PROVE  InOrder' /\ \A b \in Clusters : Earlier(clusterCache[b], clusterCache'[b])
    <3>1. PICK v \in Deliverable(clusterWatch[c]) :
            /\ clusterCache' = [clusterCache EXCEPT ![c] = v]
            /\ clusterWatch' = [clusterWatch EXCEPT ![c] = LaterThan(v, @)]
            /\ clusters' = clusters
      BY <2>1 DEF SeeCluster
    <3>2. v \in clusterWatch[c] /\ clusterWatch[c] \subseteq ClusterVersion
      BY DEF Deliverable, Typed, TypeOK
    <3>3. Earlier(clusterCache[c], v) /\ Earlier(v, clusters[c])
      BY <3>2 DEF InOrder
    <3>4. \A u \in LaterThan(v, clusterWatch[c]) : u \in clusterWatch[c] /\ Earlier(v, u)
      BY <3>2 DEF LaterThan, InOrder, ClusterVersion
    <3>5. \A b \in Clusters : Earlier(clusterCache[b], clusterCache'[b])
      BY <3>1, <3>3, EarlierReflexive DEF Typed, TypeOK
    <3>6. ASSUME NEW b \in Clusters
          PROVE  /\ Earlier(clusterCache'[b], clusters[b])
                 /\ \A u \in clusterWatch'[b] :
                      /\ Earlier(clusterCache'[b], u) /\ Earlier(u, clusters[b])
                      /\ \A t \in clusterWatch'[b] : t.rv <= u.rv => Earlier(t, u)
      <4>1. CASE b = c
        <5>1. clusterCache'[b] = v /\ clusterWatch'[b] = LaterThan(v, clusterWatch[c])
          BY <3>1, <4>1 DEF Typed, TypeOK
        <5> QED BY <3>3, <3>4, <4>1, <5>1 DEF InOrder
      <4>2. CASE b # c
        BY <3>1, <4>2 DEF InOrder, Typed, TypeOK
      <4> QED BY <4>1, <4>2
    <3> QED BY <3>1, <3>5, <3>6 DEF InOrder
  <2>2. ASSUME NEW c \in Clusters, Resync(c) PROVE UNCHANGED <<clusters, clusterCache, clusterWatch>>
    BY <2>2 DEF Resync
  <2>3. ASSUME NEW d \in Deployments, SeeDeployment(d)
        PROVE  UNCHANGED <<clusters, clusterCache, clusterWatch>>
    BY <2>3 DEF SeeDeployment
  <2> QED BY <1>3, <2>1, <2>2, <2>3 DEF Informers
<1>4. CASE (\E n \in notify : Handle(n)) \/ (\E c \in retry : RetryDue(c))
  BY <1>4 DEF Handle, RetryDue
<1>5. ASSUME NEW w \in Workers, Worker(w)
      PROVE  InOrder' /\ \A c \in Clusters : Earlier(clusterCache[c], clusterCache'[c])
  <2>1. CASE GetWork(w) \/ GetCluster(w) \/ GetDeployment(w) \/ CreateDeployment(w)
             \/ UpdateDeployment(w) \/ FinishWork(w)
    BY <2>1 DEF GetWork, GetCluster, GetDeployment, CreateDeployment, UpdateDeployment, FinishWork
  <2>2. CASE updateTaskClusterStatus(w)
    <3>1. CASE Current(key[w], seen[w])
      BY <1>0, <2>2, <3>1, StatusInOrder DEF updateTaskClusterStatus
    <3>2. CASE ~Current(key[w], seen[w])
      BY <2>2, <3>2 DEF updateTaskClusterStatus
    <3> QED BY <3>1, <3>2
  <2>3. CASE CallFails(w)
    <3>1. CASE UNCHANGED <<clusters, clusterWatch>>
      BY <2>3, <3>1 DEF CallFails
    <3>2. CASE pc[w] = "status" /\ Current(key[w], seen[w]) /\ ApplyStatus(w)
      BY <1>0, <2>3, <3>2, StatusInOrder DEF CallFails
    <3> QED BY <2>3, <3>1, <3>2 DEF CallFails
  <2> QED BY <1>5, <2>1, <2>2, <2>3 DEF Worker, SyncHandler
<1>6. CASE Restart
  BY <1>6, EarlierReflexive DEF Restart, InOrder, Typed, TypeOK
<1> QED BY <1>1, <1>2, <1>3, <1>4, <1>5, <1>6 DEF Next

-----------------------------------------------------------------------------
(* What a step does to a worker.                                           *)

(* The other workers stay where they are and hold what they held.          *)
Undisturbed(w) ==
  pc'[w] = pc[w] /\ key'[w] = key[w] /\ seen'[w] = seen[w] /\ held'[w] = held[w]

LEMMA OthersUndisturbed ==
  ASSUME Typed, NEW w \in Workers, Worker(w), NEW x \in Workers, x # w
  PROVE  Undisturbed(x)
<1> USE DEF Undisturbed, Goto, Typed, TypeOK
<1>1. CASE GetWork(w) \/ GetCluster(w) \/ updateTaskClusterStatus(w) \/ FinishWork(w)
  BY <1>1 DEF GetWork, GetCluster, updateTaskClusterStatus, FinishWork
<1>2. CASE GetDeployment(w) \/ CreateDeployment(w)
  BY <1>2 DEF GetDeployment, CreateDeployment, Holding
<1>3. CASE UpdateDeployment(w) \/ CallFails(w)
  BY <1>3 DEF UpdateDeployment, CallFails, ApplyUpdate
<1> QED BY <1>1, <1>2, <1>3 DEF Worker, SyncHandler

(* Steps of the environment, informers and queue leave workers alone.      *)
LEMMA IdleStep ==
  ASSUME [Next]_vars, ~Restart, ~\E w \in Workers : Worker(w), NEW x \in Workers
  PROVE  Undisturbed(x)
<1> USE DEF Undisturbed, workerVars
<1>1. CASE UNCHANGED vars
  BY <1>1 DEF vars
<1>2. CASE Environment
  BY <1>2 DEF Environment, DeleteCluster, CreateCluster, EditCluster, DeleteDeployment,
              CreateForeign, ReleaseDeployment, Collect, ScaleDeployment, AvailableChanges,
              OthersWrite
<1>3. CASE Informers
  BY <1>3 DEF Informers, SeeCluster, Resync, SeeDeployment
<1>4. CASE (\E n \in notify : Handle(n)) \/ (\E c \in retry : RetryDue(c))
  BY <1>4 DEF Handle, RetryDue
<1> QED BY <1>1, <1>2, <1>3, <1>4 DEF Next

(* A worker of syncHandler keeps its copy, or has just read the cache.     *)
LEMMA ReadingStep ==
  ASSUME Typed, [Next]_vars, NEW w \in Workers, pc'[w] \in Reading
  PROVE  \/ pc[w] \in Reading /\ key'[w] = key[w] /\ seen'[w] = seen[w]
         \/ key'[w] \in Clusters /\ seen'[w] = clusterCache'[key'[w]] /\ seen'[w].exists
<1> USE DEF Reading
<1>1. CASE Undisturbed(w)
  BY <1>1 DEF Undisturbed
<1>2. CASE Worker(w)
  <2> USE DEF Goto, Typed, TypeOK
  <2>1. CASE GetWork(w) \/ updateTaskClusterStatus(w) \/ FinishWork(w)
    BY <2>1 DEF GetWork, updateTaskClusterStatus, FinishWork
  <2>2. CASE GetCluster(w)
    <3>1. key[w] \in Clusters
      BY <2>2 DEF GetCluster, Busy
    <3> QED BY <2>2, <3>1 DEF GetCluster, informerVars
  <2>3. CASE GetDeployment(w) \/ CreateDeployment(w)
    BY <2>3 DEF GetDeployment, CreateDeployment, Holding
  <2>4. CASE UpdateDeployment(w) \/ CallFails(w)
    BY <2>4 DEF UpdateDeployment, CallFails, ApplyUpdate
  <2> QED BY <1>2, <2>1, <2>2, <2>3, <2>4 DEF Worker, SyncHandler
<1>3. CASE Restart
  BY <1>3 DEF Restart
<1> QED BY <1>1, <1>2, <1>3, OthersUndisturbed, IdleStep

(* Before an update, a worker waits or has just found that the Deployment  *)
(* it holds, a stored or a cached version, is controlled.                  *)
LEMMA UpdateStep ==
  ASSUME Typed, [Next]_vars, NEW w \in Workers, pc'[w] = "update"
  PROVE  /\ pc[w] \in Reading /\ key'[w] = key[w] /\ seen'[w] = seen[w]
         /\ \/ pc[w] = "update" /\ held'[w] = held[w]
            \/ /\ held'[w].cluster = key[w] /\ held'[w].owner = seen[w].uid
               /\ held'[w] \in Versions(seen[w].spec.deployment)'
<1> USE DEF Reading
<1>1. CASE Undisturbed(w)
  BY <1>1 DEF Undisturbed
<1>2. CASE Worker(w)
  <2> USE DEF Goto, Typed, TypeOK
  <2>1. CASE GetWork(w) \/ updateTaskClusterStatus(w) \/ FinishWork(w) \/ GetCluster(w)
    BY <2>1 DEF GetWork, updateTaskClusterStatus, FinishWork, GetCluster
  <2>2. CASE GetDeployment(w)
    <3>1. PICK t : t = deploymentCache[seen[w].spec.deployment]
      OBVIOUS
    <3>2. t.exists
      BY <2>2, <3>1 DEF GetDeployment
    <3>3. Holding(w, t)
      BY <2>2, <3>1, <3>2 DEF GetDeployment
    <3>4. held'[w] = t /\ t.cluster = key[w] /\ t.owner = seen[w].uid
      BY <3>3 DEF Holding, Controlled
    <3>5. UNCHANGED <<deploymentCache, key, seen>>
      BY <2>2 DEF GetDeployment, informerVars
    <3>6. held'[w] \in Versions(seen[w].spec.deployment)'
      BY <3>1, <3>4, <3>5 DEF Versions
    <3> QED BY <2>2, <3>4, <3>5, <3>6 DEF GetDeployment
  <2>3. CASE CreateDeployment(w)
    <3>1. PICK d : d = seen[w].spec.deployment
      OBVIOUS
    <3>2. PICK v : v = newDeployment(key[w], seen[w])
      OBVIOUS
    <3>3. ~deployments[d].exists
      BY <2>3, <3>1 DEF CreateDeployment
    <3>4. PICK t : t = NextDeployment(d, v)
      OBVIOUS
    <3>5. Holding(w, t) /\ deployments' = [deployments EXCEPT ![d] = t]
      BY <2>3, <3>1, <3>2, <3>3, <3>4 DEF CreateDeployment, WriteDeployment
    <3>6. held'[w] = t /\ t.cluster = key[w] /\ t.owner = seen[w].uid
      BY <3>5 DEF Holding, Controlled
    <3>7. d \in Deployments
      BY <2>3, <3>1 DEF CreateDeployment, Busy
    <3>8. held'[w] \in Versions(seen[w].spec.deployment)'
      BY <2>3, <3>1, <3>5, <3>6, <3>7 DEF Versions, CreateDeployment
    <3> QED BY <2>3, <3>6, <3>8 DEF CreateDeployment
  <2>4. CASE UpdateDeployment(w) \/ CallFails(w)
    BY <2>4 DEF UpdateDeployment, CallFails
  <2> QED BY <1>2, <2>1, <2>2, <2>3, <2>4 DEF Worker, SyncHandler
<1>3. CASE Restart
  BY <1>3 DEF Restart
<1> QED BY <1>1, <1>2, <1>3, OthersUndisturbed, IdleStep

(* The work queue hands a key to one worker at a time.                     *)
LEMMA ExclusiveStep == ASSUME Typed, Exclusive, [Next]_vars PROVE Exclusive'
<1>1. ASSUME NEW w \in Workers, Worker(w) PROVE Exclusive'
  <2>1. \A x \in Workers : x # w => Undisturbed(x)
    BY <1>1, OthersUndisturbed
  <2>2. CASE GetWork(w)
    <3>1. PICK c \in Gettable : key' = [key EXCEPT ![w] = c]
      BY <2>2 DEF GetWork
    <3>2. \A x \in Workers : pc[x] # "idle" => key[x] # c
      BY <3>1 DEF Gettable, Processing
    <3>3. key'[w] = c
      BY <3>1 DEF Typed, TypeOK
    <3> QED BY <2>1, <3>2, <3>3 DEF Exclusive, Undisturbed
  <2>3. CASE ~GetWork(w)
    <3>1. pc[w] # "idle" /\ (pc'[w] # "idle" => key'[w] = key[w])
      BY <1>1, <2>3 DEF Worker, SyncHandler, GetCluster, GetDeployment, CreateDeployment,
         UpdateDeployment, updateTaskClusterStatus, CallFails, FinishWork, Goto, Typed, TypeOK
    <3> QED BY <2>1, <3>1 DEF Exclusive, Undisturbed
  <2> QED BY <2>2, <2>3
<1>2. CASE Restart
  BY <1>2 DEF Restart, Exclusive
<1>3. CASE ~Restart /\ ~\E w \in Workers : Worker(w)
  BY <1>3, IdleStep DEF Exclusive, Undisturbed
<1> QED BY <1>1, <1>2, <1>3

-----------------------------------------------------------------------------
(* The inductive invariant is preserved.                                   *)

(* The copy of a worker is of a TaskCluster it processes.                  *)
LEMMA SentIsTyped ==
  ASSUME Typed, NEW w \in Workers, NEW d, NEW x, ByWorker(w, d, x)
  PROVE  key[w] \in Clusters /\ seen[w] \in ClusterVersion /\ pc[w] \in Reading
BY DEF Typed, TypeOK, Busy, ByWorker, Reading

(* Every version of a Deployment, the stored one included, is typed.       *)
LEMMA VersionsTyped ==
  ASSUME Typed, NEW d \in Deployments
  PROVE  Versions(d) \subseteq DeploymentVersion /\ deployments[d] \in Versions(d)
BY DEF Typed, TypeOK, Versions

(* What is written was made from what the cache has shown.                 *)
LEMMA MadeFromCacheStep == ASSUME IInv, [Next]_vars PROVE MadeFromCache'
<1>1. ASSUME NEW c \in Clusters PROVE Earlier(clusterCache[c], clusterCache'[c])
  BY ClusterStep DEF IInv
<1>2. Typed'
  BY TypedStep DEF IInv
<1>3. ASSUME NEW c \in Clusters, NEW x \in DeploymentVersion, MadeBefore(x, c, clusterCache[c])
      PROVE  MadeBefore(x, c, clusterCache'[c])
  <2>1. clusterCache[c] \in ClusterVersion /\ clusterCache'[c] \in ClusterVersion
    BY <1>2 DEF IInv, Typed, TypeOK
  <2> QED BY <1>1, <1>3, <2>1 DEF MadeBefore, Earlier, ClusterVersion, DeploymentVersion
<1>4. ASSUME NEW c \in Clusters, NEW d \in Deployments, NEW x \in Versions(d)
      PROVE  MadeBefore(x, c, clusterCache'[c])
  BY <1>3, VersionsTyped DEF IInv, MadeFromCache
<1>5. ASSUME NEW c \in Clusters, NEW d \in Deployments, NEW x \in DeploymentVersion,
             ByOthers(d, x)
      PROVE  MadeBefore(x, c, clusterCache'[c])
  <2>1. MadeBefore(deployments[d], c, clusterCache'[c])
    BY <1>4, VersionsTyped DEF IInv
  <2>2. NoCluster # c
    BY ConstantsAssumption
  <2>3. clusterCache'[c] \in ClusterVersion /\ deployments[d] \in DeploymentVersion
    BY <1>2 DEF IInv, Typed, TypeOK
  <2> QED BY <1>5, <2>1, <2>2, <2>3 DEF ByOthers, MadeBefore, ClusterVersion, DeploymentVersion
<1>6. ASSUME NEW c \in Clusters, NEW d \in Deployments, NEW x \in DeploymentVersion,
             NEW w \in Workers, ByWorker(w, d, x)
      PROVE  MadeBefore(x, c, clusterCache'[c])
  <2>1. Earlier(seen[w], clusterCache[key[w]]) /\ seen[w] \in ClusterVersion
        /\ key[w] \in Clusters
    BY <1>6, SentIsTyped DEF IInv, Up2Date
  <2>2. MadeBefore(x, c, clusterCache[c])
    BY <1>6, <2>1 DEF ByWorker, MadeBefore, Earlier
  <2> QED BY <1>3, <2>2
<1>7. ASSUME NEW c \in Clusters, NEW d \in Deployments, NEW y \in Versions(d)'
      PROVE  MadeBefore(y, c, clusterCache'[c])
  <2>1. CASE Kept(d)
    BY <1>4, <1>7, <2>1 DEF Kept
  <2>2. CASE Written(d)
    BY <1>4, <1>5, <1>6, <1>7, <2>2 DEF Written, Stored
  <2> QED BY <2>1, <2>2, DeploymentStep DEF IInv
<1> QED BY <1>7 DEF MadeFromCache

(* A worker's update comes after every version with its selector.          *)
LEMMA ByWorkerIsLatest ==
  ASSUME IInv, NEW w \in Workers, NEW d \in Deployments, NEW x, ByWorker(w, d, x),
         NEW y \in Versions(d)
  PROVE  MadeBefore(y, key[w], seen[w])
BY SentIsTyped DEF IInv, Up2Date

(* What is written has the latest owner of its selector.                   *)
LEMMA OwnersGrowStep == ASSUME IInv, [Next]_vars PROVE OwnersGrow'
<1>1. ASSUME NEW d \in Deployments, NEW y \in Versions(d)' PROVE NotLater(y, deployments'[d])
  <2>1. CASE Kept(d)
    BY <1>1, <2>1 DEF Kept, IInv, OwnersGrow
  <2>2. ASSUME NEW x \in DeploymentVersion, Stored(d, x), ByOthers(d, x)
        PROVE  NotLater(y, deployments'[d])
    <3>1. NotLater(x, x)
      BY DEF NotLater, DeploymentVersion
    <3>2. ASSUME NEW z \in Versions(d) PROVE NotLater(z, x)
      BY <2>2 DEF IInv, OwnersGrow, ByOthers, NotLater
    <3> QED BY <1>1, <2>2, <3>1, <3>2 DEF Stored
  <2>3. ASSUME NEW x \in DeploymentVersion, Stored(d, x), NEW w \in Workers, ByWorker(w, d, x)
        PROVE  NotLater(y, deployments'[d])
    <3>1. NotLater(x, x)
      BY DEF NotLater, DeploymentVersion
    <3>2. ASSUME NEW z \in Versions(d) PROVE NotLater(z, x)
      BY <2>3, ByWorkerIsLatest DEF MadeBefore, ByWorker, NotLater
    <3> QED BY <1>1, <2>3, <3>1, <3>2 DEF Stored
  <2> QED BY <2>1, <2>2, <2>3, DeploymentStep DEF IInv, Written
<1> QED BY <1>1 DEF OwnersGrow

(* A worker's copy stays at least as new as what was written.              *)
LEMMA Up2DateStep == ASSUME IInv, [Next]_vars, NEW w \in Workers PROVE Up2Date(w)'
<1> SUFFICES ASSUME pc'[w] \in Reading
             PROVE  /\ Earlier(seen'[w], clusterCache'[key'[w]])
                    /\ \A d \in Deployments : \A y \in Versions(d)' :
                         MadeBefore(y, key'[w], seen'[w])
  BY DEF Up2Date
<1>1. MadeFromCache' /\ Typed'
  BY MadeFromCacheStep, TypedStep DEF IInv
<1>2. CASE key'[w] \in Clusters /\ seen'[w] = clusterCache'[key'[w]]
  <2>1. seen'[w] \in ClusterVersion
    BY <1>1 DEF Typed, TypeOK
  <2> QED BY <1>1, <1>2, <2>1, EarlierReflexive DEF MadeFromCache
<1>3. CASE pc[w] \in Reading /\ key'[w] = key[w] /\ seen'[w] = seen[w]
  <2>1. PICK c \in Clusters : c = key[w]
    BY <1>3 DEF IInv, Typed, Busy, Reading
  <2>2. /\ Earlier(seen[w], clusterCache[c])
        /\ \A d \in Deployments : \A x \in Versions(d) : MadeBefore(x, c, seen[w])
    BY <1>3, <2>1 DEF IInv, Up2Date
  <2>3. seen[w] \in ClusterVersion /\ clusterCache[c] \in ClusterVersion
        /\ clusterCache'[c] \in ClusterVersion
    BY <1>1 DEF IInv, Typed, TypeOK
  <2>4. Earlier(seen[w], clusterCache'[c])
    <3>1. Earlier(clusterCache[c], clusterCache'[c])
      BY ClusterStep DEF IInv
    <3> QED BY <2>2, <2>3, <3>1, EarlierTransitive
  <2>5. ASSUME NEW d \in Deployments, NEW y \in Versions(d)' PROVE MadeBefore(y, c, seen[w])
    <3>1. CASE Kept(d)
      BY <2>2, <2>5, <3>1 DEF Kept
    <3>2. ASSUME NEW x \in DeploymentVersion, ByOthers(d, x) PROVE MadeBefore(x, c, seen[w])
      <4>1. MadeBefore(deployments[d], c, seen[w]) /\ deployments[d] \in DeploymentVersion
        BY <2>2, VersionsTyped DEF IInv
      <4>2. NoCluster # c
        BY ConstantsAssumption
      <4> QED BY <2>3, <3>2, <4>1, <4>2 DEF ByOthers, MadeBefore, ClusterVersion, DeploymentVersion
    <3>3. ASSUME NEW x \in DeploymentVersion, NEW v \in Workers, ByWorker(v, d, x)
          PROVE  MadeBefore(x, c, seen[w])
      <4>1. CASE v = w
        BY <2>1, <2>3, <3>3, <4>1 DEF ByWorker, MadeBefore, ClusterVersion
      <4>2. CASE v # w
        <5>1. key[v] # key[w]
          BY <1>3, <3>3, <4>2 DEF IInv, Exclusive, ByWorker, Reading
        <5> QED BY <2>1, <3>3, <5>1 DEF ByWorker, MadeBefore
      <4> QED BY <4>1, <4>2
    <3>4. CASE Written(d)
      BY <2>2, <2>5, <3>2, <3>3, <3>4 DEF Written, Stored
    <3> QED BY <3>1, <3>4, DeploymentStep DEF IInv
  <2> QED BY <1>3, <2>1, <2>4, <2>5
<1> QED BY <1>2, <1>3, ReadingStep DEF IInv

(* What a worker found controlled stays so, or is nobody's, or is gone.    *)
LEMMA CheckedStep == ASSUME IInv, [Next]_vars, NEW w \in Workers PROVE Checked(w)'
<1> SUFFICES ASSUME pc'[w] = "update" PROVE Checked(w)'
  BY DEF Checked
<1>1. pc[w] \in Reading /\ key'[w] = key[w] /\ seen'[w] = seen[w]
  BY UpdateStep DEF IInv
<1>2. PICK d \in Deployments : d = seen[w].spec.deployment
  BY <1>1 DEF IInv, Typed, Busy
<1>3. CASE pc[w] = "update" /\ held'[w] = held[w]
  <2>1. /\ held[w].cluster = key[w] /\ held[w].owner = seen[w].uid
        /\ NotLater(held[w], deployments[d])
    BY <1>2, <1>3 DEF IInv, Checked
  <2>2. CASE Kept(d)
    BY <1>1, <1>2, <1>3, <2>1, <2>2 DEF Kept, Checked
  <2>3. ASSUME NEW x \in DeploymentVersion, Stored(d, x), ByOthers(d, x) PROVE Checked(w)'
    <3>1. NotLater(held[w], x)
      BY <2>1, <2>3 DEF ByOthers, NotLater
    <3> QED BY <1>1, <1>2, <1>3, <2>1, <2>3, <3>1 DEF Stored, Checked
  <2>4. ASSUME NEW x \in DeploymentVersion, Stored(d, x), NEW v \in Workers, ByWorker(v, d, x)
        PROVE  Checked(w)'
    <3>1. CASE v = w
      <4>1. seen[w].uid \in Nat
        BY DEF IInv, Typed, TypeOK, ClusterVersion
      <4>2. NotLater(held[w], x)
        BY <2>1, <2>4, <3>1, <4>1 DEF ByWorker, NotLater
      <4> QED BY <1>1, <1>2, <1>3, <2>1, <2>4, <4>2 DEF Stored, Checked
    <3>2. CASE v # w
      <4>1. key[v] # key[w]
        BY <1>3, <2>4, <3>2 DEF IInv, Exclusive, ByWorker
      <4>2. NotLater(held[w], x)
        BY <2>1, <2>4, <4>1 DEF ByWorker, NotLater
      <4> QED BY <1>1, <1>2, <1>3, <2>1, <2>4, <4>2 DEF Stored, Checked
    <3> QED BY <3>1, <3>2
  <2> QED BY <2>2, <2>3, <2>4, DeploymentStep DEF IInv, Written
<1>4. CASE /\ held'[w].cluster = key[w] /\ held'[w].owner = seen[w].uid
           /\ held'[w] \in Versions(d)'
  <2>1. NotLater(held'[w], deployments'[d])
    BY <1>4, OwnersGrowStep DEF OwnersGrow
  <2> QED BY <1>1, <1>2, <1>4, <2>1 DEF Checked
<1> QED BY <1>2, <1>3, <1>4, UpdateStep DEF IInv

(* The inductive invariant holds in every reachable state.                 *)
LEMMA IInvInit == Init => IInv
<1> SUFFICES ASSUME Init PROVE IInv
  OBVIOUS
<1>1. Typed
  BY TypedInit
<1>2. InOrder
  BY EarlierReflexive DEF Init, InOrder, Earlier, NoClusterYet
<1>3. MadeFromCache
  BY DEF Init, MadeFromCache, Versions, MadeBefore, NoClusterYet, NoDeploymentYet
<1>4. OwnersGrow
  BY DEF Init, OwnersGrow, Versions, NotLater, NoDeploymentYet
<1>5. Exclusive /\ \A w \in Workers : Up2Date(w) /\ Checked(w)
  BY DEF Init, Exclusive, Up2Date, Checked, Reading
<1> QED BY <1>1, <1>2, <1>3, <1>4, <1>5 DEF IInv

LEMMA IInvStep == IInv /\ [Next]_vars => IInv'
<1> SUFFICES ASSUME IInv, [Next]_vars PROVE IInv'
  OBVIOUS
<1>1. Typed' /\ Exclusive' /\ InOrder'
  BY TypedStep, ExclusiveStep, ClusterStep DEF IInv
<1>2. MadeFromCache' /\ OwnersGrow'
  BY MadeFromCacheStep, OwnersGrowStep
<1>3. (\A w \in Workers : Up2Date(w) /\ Checked(w))'
  BY Up2DateStep, CheckedStep
<1> QED BY <1>1, <1>2, <1>3 DEF IInv

LEMMA Invariance == Spec => []IInv
BY IInvInit, IInvStep, PTL DEF Spec

-----------------------------------------------------------------------------
(* What follows.                                                           *)

(* OwnerNeverReplaced: updateDeployment, sent without a resourceVersion    *)
(* after a check on a cached copy, never hands a Deployment from one owner *)
(* to another, because a worker that reaches it holds the latest owner.    *)
THEOREM OwnerSafety == Spec => OwnerNeverReplaced
<1>1. ASSUME IInv, [Next]_vars, NEW d \in Deployments,
             deployments[d].exists, deployments'[d].exists,
             deployments[d].owner # 0, deployments'[d].owner # 0
      PROVE  /\ deployments'[d].owner = deployments[d].owner
             /\ deployments'[d].cluster = deployments[d].cluster
  <2>1. CASE Kept(d)
    BY <2>1 DEF Kept
  <2>2. ASSUME NEW x \in DeploymentVersion, Stored(d, x), ByOthers(d, x)
        PROVE  x.owner = deployments[d].owner /\ x.cluster = deployments[d].cluster
    BY <1>1, <2>2 DEF ByOthers, Stored
  <2>3. ASSUME NEW x \in DeploymentVersion, Stored(d, x), NEW w \in Workers, ByWorker(w, d, x)
        PROVE  x.owner = deployments[d].owner /\ x.cluster = deployments[d].cluster
    <3>1. /\ pc[w] = "update" /\ d = seen[w].spec.deployment
          /\ deployments[d].cluster = key[w] /\ x.cluster = key[w] /\ x.owner = seen[w].uid
      BY <1>1, <2>3 DEF ByWorker
    <3>2. seen[w].uid <= deployments[d].owner
      BY <1>1, <3>1 DEF IInv, Checked, NotLater
    <3>3. deployments[d].owner <= seen[w].uid
      BY <1>1, <2>3, <3>1, ByWorkerIsLatest, VersionsTyped DEF IInv, MadeBefore
    <3>4. seen[w].uid \in Nat /\ deployments[d].owner \in Nat
      BY <1>1 DEF IInv, Typed, TypeOK, ClusterVersion, DeploymentVersion
    <3> QED BY <3>1, <3>2, <3>3, <3>4
  <2> QED BY <1>1, <2>1, <2>2, <2>3, DeploymentStep DEF IInv, Written, Stored
<1>2. IInv /\ [Next]_vars =>
        [\A d \in Deployments :
           deployments[d].exists /\ deployments'[d].exists
           /\ deployments[d].owner # 0 /\ deployments'[d].owner # 0 =>
             /\ deployments'[d].owner = deployments[d].owner
             /\ deployments'[d].cluster = deployments[d].cluster]_vars
  BY <1>1
<1> QED BY <1>2, Invariance, PTL DEF Spec, OwnerNeverReplaced

(* UpdatesRollForward: no update of a Deployment that exists puts back the *)
(* spec of an older version of its TaskCluster.                            *)
THEOREM RollForward == Spec => UpdatesRollForward
<1>1. ASSUME IInv, [Next]_vars, NEW d \in Deployments,
             deployments[d].exists, deployments'[d].exists
      PROVE  deployments'[d].from >= deployments[d].from
  <2>0. deployments[d] \in DeploymentVersion /\ deployments[d].from \in Nat
    BY <1>1 DEF IInv, Typed, TypeOK, DeploymentVersion
  <2>1. CASE Kept(d)
    BY <2>0, <2>1 DEF Kept
  <2>2. ASSUME NEW x \in DeploymentVersion, Stored(d, x), ByOthers(d, x)
        PROVE  x.from >= deployments[d].from
    BY <1>1, <2>0, <2>2 DEF ByOthers
  <2>3. ASSUME NEW x \in DeploymentVersion, Stored(d, x), NEW w \in Workers, ByWorker(w, d, x)
        PROVE  x.from >= deployments[d].from
    <3>1. deployments[d].cluster = key[w] /\ x.from = seen[w].rv
      BY <1>1, <2>3 DEF ByWorker
    <3>2. deployments[d].from <= seen[w].rv
      BY <1>1, <2>3, <3>1, ByWorkerIsLatest, VersionsTyped DEF IInv, MadeBefore
    <3>3. seen[w].rv \in Nat
      BY <1>1 DEF IInv, Typed, TypeOK, ClusterVersion
    <3> QED BY <2>0, <3>1, <3>2, <3>3
  <2> QED BY <1>1, <2>1, <2>2, <2>3, DeploymentStep DEF IInv, Written, Stored
<1>2. IInv /\ [Next]_vars =>
        [\A d \in Deployments :
           deployments[d].exists /\ deployments'[d].exists =>
             deployments'[d].from >= deployments[d].from]_vars
  BY <1>1
<1> QED BY <1>2, Invariance, PTL DEF Spec, UpdatesRollForward

-----------------------------------------------------------------------------
(* Wake-ups.  The invariant behind NoLostWakeup relates the caches to the  *)
(* versions still on their way: from one to the next the TaskCluster that  *)
(* a Deployment belongs to stays the same, so each is notified to it.      *)

(* The current version of TaskCluster c is known or on its way.            *)
ClusterVersions(c) == {clusters[c], clusterCache[c]} \cup clusterWatch[c]

ClusterShown(c) ==
  /\ clusters[c] \in {clusterCache[c]} \cup clusterWatch[c]
  /\ \A v \in ClusterVersions(c) : /\ v.exists => v.uid # 0
                                   /\ v.rv = clusters[c].rv => v = clusters[c]

(* What is known and on its way of Deployment d is one history of it, which*)
(* passes from one TaskCluster to another only when d does not exist.      *)
History(d) == {deploymentCache[d]} \cup deploymentWatch[d]

Follows(y, u) == y.rv = u.rv + 1 /\ (u.exists => y.cluster = u.cluster)

Shown(d) ==
  /\ deployments[d] \in History(d)
  /\ \A x \in History(d) : x.rv <= deployments[d].rv
  /\ \A x, y \in History(d) : x.rv = y.rv => x = y
  /\ \A y \in deploymentWatch[d] : /\ deploymentCache[d].rv < y.rv
                                   /\ \E u \in History(d) : Follows(y, u)

(* What was made for a TaskCluster refers to it, if nobody may remove that.*)
Labelled(d) ==
  d \notin Releasable => \A x \in Versions(d) : x.cluster \in Clusters => x.owner # 0

(* The copy of a worker is of a TaskCluster that existed, and what it      *)
(* reports the availability of is as that copy asks.                       *)
Reads(w) == pc[w] \in Reading => seen[w].uid # 0

Satisfied(w) ==
  pc[w] = "status" =>
    held[w].exists /\ Controlled(key[w], seen[w], held[w]) /\ ~Differs(seen[w], held[w])

HInv ==
  /\ \A c \in Clusters : ClusterShown(c)
  /\ \A d \in Deployments : Shown(d) /\ Labelled(d)
  /\ \A w \in Workers : Reads(w) /\ Satisfied(w)

(* TaskCluster version v needs nothing done if Deployment version x is it. *)
Fits(c, v, x) ==
  x.exists /\ Controlled(c, v, x) /\ ~Differs(v, x) /\ v.available = x.available

(* Worker w is still going to look at what the caches show of c.           *)
Attends(w, c) ==
  /\ key[w] = c
  /\ \/ pc[w] \in {"getCluster", "err"}
     \/ /\ pc[w] \in Reading /\ seen[w] = clusterCache[c]
        /\ pc[w] = "status" => held[w] = deploymentCache[seen[w].spec.deployment]

Attended(c) ==
  \/ c \in dirty \cup retry
  \/ notify \cap {<<"TaskCluster", c>>, <<"Deployment", c>>} # {}
  \/ \E w \in Workers : Attends(w, c)

(* A version of Deployment d is on its way that will be notified to c.     *)
Due(c, d) == \E y \in deploymentWatch[d] : y.exists /\ y.cluster = c

Unfit(c) ==
  LET v == clusterCache[c] IN
  /\ v.exists /\ Complete(v.spec) /\ v.spec.deployment \notin Releasable
  /\ ~Fits(c, v, deploymentCache[v.spec.deployment])

Watched(c) ==
  clusterWatch[c] = {} /\ Unfit(c) => Attended(c) \/ Due(c, clusterCache[c].spec.deployment)

WInv == \A c \in Clusters : Watched(c)

-----------------------------------------------------------------------------
(* What a step does to what is known of a TaskCluster.                     *)

ClusterUntouched(c) ==
  /\ clusters'[c] = clusters[c]
  /\ clusterCache'[c] = clusterCache[c] /\ clusterWatch'[c] = clusterWatch[c]

ClusterStored(c, x) ==
  /\ x.rv = clusters[c].rv + 1 /\ clusters'[c] = x
  /\ clusterCache'[c] = clusterCache[c]
  /\ clusterWatch'[c] = clusterWatch[c] \cup {x}

ClusterWritten(c) ==
  \E x \in ClusterVersion : ClusterStored(c, x) /\ (x.exists => x.uid # 0)

LEMMA ClusterWriteEffect ==
  ASSUME TypeOK, NEW b \in Clusters, NEW v \in ClusterVersion, v.exists => v.uid # 0,
         WriteCluster(b, v), clusterCache' = clusterCache, NEW c \in Clusters
  PROVE  ClusterUntouched(c) \/ ClusterWritten(c)
<1>1. PICK x : x = NextCluster(b, v)
  OBVIOUS
<1>2. clusters[b].rv + 1 \in Nat
  BY DEF TypeOK, ClusterVersion
<1>3. /\ x \in ClusterVersion /\ x.rv = clusters[b].rv + 1
      /\ x.exists = v.exists /\ x.uid = v.uid
  BY <1>1, <1>2 DEF NextCluster, ClusterVersion
<1>4. /\ clusters' = [clusters EXCEPT ![b] = x]
      /\ clusterWatch' = [clusterWatch EXCEPT ![b] = @ \cup {x}]
  BY <1>1 DEF WriteCluster
<1>5. CASE c # b
  BY <1>4, <1>5 DEF ClusterUntouched, TypeOK
<1>6. CASE c = b
  <2>1. ClusterStored(c, x)
    BY <1>3, <1>4, <1>6 DEF ClusterStored, TypeOK
  <2> QED BY <1>3, <2>1 DEF ClusterWritten
<1> QED BY <1>5, <1>6

(* Where nothing happens to the TaskClusters.                              *)
LEMMA ClusterWhenUnchanged ==
  ASSUME NEW c, UNCHANGED <<clusters, clusterCache, clusterWatch>>
  PROVE  ClusterUntouched(c)
BY DEF ClusterUntouched

(* Users create, edit and delete TaskClusters that have a uid.             *)
LEMMA UsersEffect ==
  ASSUME Typed, HInv, Environment, NEW c \in Clusters
  PROVE  ClusterUntouched(c) \/ ClusterWritten(c)
<1>0. ASSUME NEW b \in Clusters, clusters[b].exists PROVE clusters[b].uid # 0
  BY <1>0 DEF HInv, ClusterShown, ClusterVersions
<1>1. ASSUME NEW b \in Clusters, NEW s \in Specs, CreateCluster(b, s)
      PROVE  ClusterUntouched(c) \/ ClusterWritten(c)
  <2> DEFINE v == [NoClusterYet EXCEPT !.uid = clusters[b].uid + 1, !.exists = TRUE, !.spec = s]
  <2>1. clusters[b].uid + 1 \in Nat /\ clusters[b].uid + 1 # 0 /\ s \in SpecType
    BY ConstantsAssumption DEF Typed, TypeOK, ClusterVersion
  <2>2. v \in ClusterVersion /\ v.uid = clusters[b].uid + 1
    BY <2>1 DEF NoClusterYet, ClusterVersion
  <2>3. WriteCluster(b, v) /\ clusterCache' = clusterCache
    BY <1>1 DEF CreateCluster
  <2> HIDE DEF v
  <2> QED BY <2>1, <2>2, <2>3, ClusterWriteEffect DEF Typed
<1>2. ASSUME NEW b \in Clusters, NEW s \in Specs, EditCluster(b, s)
      PROVE  ClusterUntouched(c) \/ ClusterWritten(c)
  <2> DEFINE v == [clusters[b] EXCEPT !.spec = s]
  <2>1. clusters[b] \in ClusterVersion /\ s \in SpecType
    BY ConstantsAssumption DEF Typed, TypeOK
  <2>2. v \in ClusterVersion /\ v.uid = clusters[b].uid
    BY <2>1 DEF ClusterVersion
  <2>3. WriteCluster(b, v) /\ clusterCache' = clusterCache /\ clusters[b].exists
    BY <1>2 DEF EditCluster
  <2> HIDE DEF v
  <2> QED BY <1>0, <2>2, <2>3, ClusterWriteEffect DEF Typed
<1>3. ASSUME NEW b \in Clusters, DeleteCluster(b)
      PROVE  ClusterUntouched(c) \/ ClusterWritten(c)
  <2> DEFINE v == [clusters[b] EXCEPT !.exists = FALSE]
  <2>1. clusters[b] \in ClusterVersion
    BY DEF Typed, TypeOK
  <2>2. v \in ClusterVersion /\ ~v.exists
    BY <2>1 DEF ClusterVersion
  <2>3. WriteCluster(b, v) /\ clusterCache' = clusterCache
    BY <1>3 DEF DeleteCluster
  <2> HIDE DEF v
  <2> QED BY <2>2, <2>3, ClusterWriteEffect DEF Typed
<1>4. ASSUME NEW d \in Deployments,
             \/ DeleteDeployment(d) \/ CreateForeign(d) \/ ReleaseDeployment(d) \/ Collect(d)
             \/ \E n \in 1..MaxReplicas : ScaleDeployment(d, n)
             \/ \E n \in 0..MaxReplicas : AvailableChanges(d, n)
      PROVE  ClusterUntouched(c)
  <2>1. UNCHANGED <<clusters, clusterCache, clusterWatch>>
    BY <1>4 DEF DeleteDeployment, CreateForeign, ReleaseDeployment, Collect, ScaleDeployment,
                AvailableChanges, OthersWrite
  <2> QED BY <2>1, ClusterWhenUnchanged
<1> QED BY <1>1, <1>2, <1>3, <1>4 DEF Environment

(* A status update is of the incarnation the worker read.                  *)
LEMMA StatusEffect ==
  ASSUME Typed, HInv, NEW w \in Workers, pc[w] = "status", ApplyStatus(w),
         clusterCache' = clusterCache, NEW c \in Clusters
  PROVE  ClusterUntouched(c) \/ ClusterWritten(c)
<1>1. PICK b : b = key[w]
  OBVIOUS
<1>2. PICK v : v = [seen[w] EXCEPT !.available = held[w].available]
  OBVIOUS
<1>3. b \in Clusters /\ seen[w] \in ClusterVersion /\ held[w] \in DeploymentVersion
  BY <1>1 DEF Typed, TypeOK, Busy
<1>4. v \in ClusterVersion /\ v.uid # 0
  BY <1>2, <1>3 DEF ClusterVersion, DeploymentVersion, HInv, Reads, Reading
<1>5. CASE v = clusters[b]
  BY <1>1, <1>2, <1>5, ClusterWhenUnchanged DEF ApplyStatus
<1>6. CASE v # clusters[b]
  <2>1. WriteCluster(b, v)
    BY <1>1, <1>2, <1>6 DEF ApplyStatus
  <2> QED BY <1>3, <1>4, <2>1, ClusterWriteEffect DEF Typed
<1> QED BY <1>5, <1>6

LEMMA ClusterFlow ==
  ASSUME Typed, HInv, [Next]_vars, NEW c \in Clusters
  PROVE  ClusterUntouched(c) \/ ClusterWritten(c) \/ SeeCluster(c) \/ Restart
<1> USE ClusterWhenUnchanged DEF apiVars, informerVars, queueVars, workerVars, envVars
<1>1. CASE UNCHANGED vars
  BY <1>1 DEF vars
<1>2. CASE Informers
  <2>1. ASSUME NEW b \in Clusters, SeeCluster(b), b # c PROVE ClusterUntouched(c)
    BY <2>1 DEF SeeCluster, ClusterUntouched, Typed, TypeOK
  <2>2. ASSUME NEW b \in Clusters, Resync(b) PROVE ClusterUntouched(c)
    BY <2>2 DEF Resync
  <2>3. ASSUME NEW d \in Deployments, SeeDeployment(d) PROVE ClusterUntouched(c)
    BY <2>3 DEF SeeDeployment
  <2> QED BY <1>2, <2>1, <2>2, <2>3 DEF Informers
<1>3. CASE (\E n \in notify : Handle(n)) \/ (\E b \in retry : RetryDue(b))
  BY <1>3 DEF Handle, RetryDue
<1>4. ASSUME NEW w \in Workers, Worker(w) PROVE ClusterUntouched(c) \/ ClusterWritten(c)
  <2>1. CASE GetWork(w) \/ GetCluster(w) \/ GetDeployment(w) \/ CreateDeployment(w)
             \/ UpdateDeployment(w) \/ FinishWork(w)
    BY <2>1 DEF GetWork, GetCluster, GetDeployment, CreateDeployment, UpdateDeployment, FinishWork
  <2>2. CASE updateTaskClusterStatus(w)
    <3>1. CASE Current(key[w], seen[w])
      BY <2>2, <3>1, StatusEffect DEF updateTaskClusterStatus
    <3>2. CASE ~Current(key[w], seen[w])
      BY <2>2, <3>2 DEF updateTaskClusterStatus
    <3> QED BY <3>1, <3>2
  <2>3. CASE CallFails(w)
    BY <2>3, StatusEffect DEF CallFails
  <2> QED BY <1>4, <2>1, <2>2, <2>3 DEF Worker, SyncHandler
<1> QED BY <1>1, <1>2, <1>3, <1>4, UsersEffect DEF Next

-----------------------------------------------------------------------------
(* The history part of the invariant is preserved.                         *)

LEMMA ClusterShownStep ==
  ASSUME IInv, HInv, [Next]_vars, NEW c \in Clusters
  PROVE  ClusterShown(c)'
<1>0. ClusterShown(c) /\ Typed /\ Typed'
  BY TypedStep DEF IInv, HInv
<1>1. ClusterVersions(c) \subseteq ClusterVersion /\ clusters[c] \in ClusterVersion
  BY <1>0 DEF Typed, TypeOK, ClusterVersions
<1>2. \A v \in ClusterVersions(c) : v.rv <= clusters[c].rv
  BY <1>1 DEF IInv, InOrder, Earlier, ClusterVersions, ClusterVersion
<1>3. CASE ClusterUntouched(c)
  BY <1>0, <1>3 DEF ClusterUntouched, ClusterShown, ClusterVersions
<1>4. ASSUME NEW x \in ClusterVersion, ClusterStored(c, x), x.exists => x.uid # 0
      PROVE  ClusterShown(c)'
  <2>1. \A v \in ClusterVersions(c)' : v \in ClusterVersions(c) \/ v = x
    BY <1>4 DEF ClusterStored, ClusterVersions
  <2>2. \A v \in ClusterVersions(c) : v.rv # x.rv
    BY <1>1, <1>2, <1>4 DEF ClusterStored, ClusterVersion
  <2> QED BY <1>0, <1>4, <2>1, <2>2 DEF ClusterStored, ClusterShown
<1>5. CASE SeeCluster(c)
  <2>1. PICK v \in Deliverable(clusterWatch[c]) :
          /\ clusterCache' = [clusterCache EXCEPT ![c] = v]
          /\ clusterWatch' = [clusterWatch EXCEPT ![c] = LaterThan(v, @)]
          /\ clusters' = clusters
    BY <1>5 DEF SeeCluster, apiVars
  <2>2. v \in clusterWatch[c] /\ v \in ClusterVersions(c)
    BY DEF Deliverable, ClusterVersions
  <2>3. clusterCache'[c] = v /\ clusterWatch'[c] = LaterThan(v, clusterWatch[c])
    BY <1>0, <2>1 DEF Typed, TypeOK
  <2>4. ClusterVersions(c)' \subseteq ClusterVersions(c)
    BY <2>1, <2>2, <2>3 DEF ClusterVersions, LaterThan
  <2>5. clusters[c] \in {v} \cup LaterThan(v, clusterWatch[c])
    <3>1. CASE v.rv = clusters[c].rv
      BY <1>0, <2>2, <3>1 DEF ClusterShown
    <3>2. CASE v.rv # clusters[c].rv
      <4>1. v.rv < clusters[c].rv
        BY <1>1, <1>2, <2>2, <3>2 DEF ClusterVersion
      <4>2. clusterCache[c].rv <= v.rv
        BY <2>2 DEF IInv, InOrder, Earlier
      <4>3. clusters[c] # clusterCache[c]
        BY <1>1, <2>2, <4>1, <4>2 DEF ClusterVersion
      <4>4. clusters[c] \in clusterWatch[c]
        BY <1>0, <4>3 DEF ClusterShown
      <4>5. clusters[c].rv > v.rv
        BY <1>1, <2>2, <4>1 DEF ClusterVersion
      <4> QED BY <4>4, <4>5 DEF LaterThan
    <3> QED BY <3>1, <3>2
  <2> QED BY <1>0, <2>1, <2>3, <2>4, <2>5 DEF ClusterShown
<1>6. CASE Restart
  BY <1>0, <1>6 DEF Restart, apiVars, ClusterShown, ClusterVersions
<1> QED BY <1>0, <1>3, <1>4, <1>5, <1>6, ClusterFlow DEF ClusterWritten

(* A version that is stored goes on from the one stored before.            *)
LEMMA StoredFollows ==
  ASSUME Typed, NEW d \in Deployments, NEW x \in DeploymentVersion, Stored(d, x),
         ByOthers(d, x) \/ \E w \in Workers : ByWorker(w, d, x)
  PROVE  Follows(x, deployments[d])
BY DEF Follows, Stored, ByOthers, ByWorker

LEMMA ShownStep ==
  ASSUME Typed, [Next]_vars, NEW d \in Deployments, Shown(d)
  PROVE  Shown(d)'
<1>1. /\ History(d) \subseteq DeploymentVersion /\ deployments[d] \in DeploymentVersion
      /\ deploymentWatch[d] \subseteq History(d) /\ deploymentCache[d] \in History(d)
  BY DEF Typed, TypeOK, History
<1>2. CASE Untouched(d)
  BY <1>2 DEF Untouched, Shown, History
<1>3. ASSUME NEW x \in DeploymentVersion, Stored(d, x), Follows(x, deployments[d])
      PROVE  Shown(d)'
  <2>1. /\ History(d)' = History(d) \cup {x} /\ deployments'[d] = x
        /\ deploymentWatch'[d] = deploymentWatch[d] \cup {x}
        /\ deploymentCache'[d] = deploymentCache[d]
    BY <1>3 DEF Stored, History
  <2>2. \A u \in History(d) : u.rv < x.rv
    BY <1>1, <1>3 DEF Stored, Shown, DeploymentVersion
  <2>3. \A u \in History(d)' : u.rv <= x.rv
    BY <1>1, <2>1, <2>2 DEF DeploymentVersion
  <2>4. \A u, y \in History(d)' : u.rv = y.rv => u = y
    BY <1>1, <2>1, <2>2 DEF Shown, DeploymentVersion
  <2>5. ASSUME NEW y \in deploymentWatch'[d]
        PROVE  deploymentCache'[d].rv < y.rv /\ \E u \in History(d)' : Follows(y, u)
    BY <1>1, <1>3, <2>1, <2>2 DEF Shown
  <2> QED BY <2>1, <2>3, <2>4, <2>5 DEF Shown
<1>4. CASE SeeDeployment(d)
  <2>1. PICK v \in deploymentWatch[d] :
          /\ deploymentCache'[d] = v /\ deployments'[d] = deployments[d]
          /\ deploymentWatch'[d] = LaterThan(v, deploymentWatch[d])
    BY <1>4 DEF SeeDeployment, Deliverable, Typed, TypeOK, apiVars
  <2>2. \A u \in History(d) : u.rv >= v.rv => u \in History(d)'
    <3>1. ASSUME NEW u \in History(d), u.rv >= v.rv, u # v PROVE u \in deploymentWatch'[d]
      <4>1. u.rv > v.rv
        BY <1>1, <3>1 DEF Shown, DeploymentVersion
      <4>2. u # deploymentCache[d]
        BY <1>1, <4>1 DEF Shown, DeploymentVersion
      <4> QED BY <2>1, <4>1, <4>2 DEF History, LaterThan
    <3> QED BY <2>1, <3>1 DEF History
  <2>3. History(d)' \subseteq History(d)
    BY <2>1 DEF History, LaterThan
  <2>4. deployments'[d] \in History(d)'
    BY <1>1, <2>1, <2>2 DEF Shown, DeploymentVersion
  <2>5. ASSUME NEW y \in deploymentWatch'[d]
        PROVE  v.rv < y.rv /\ \E u \in History(d)' : Follows(y, u)
    <3>1. y \in deploymentWatch[d] /\ v.rv < y.rv
      BY <1>1, <2>1, <2>5 DEF LaterThan, DeploymentVersion
    <3>2. PICK u \in History(d) : Follows(y, u)
      BY <3>1 DEF Shown
    <3>3. u.rv >= v.rv
      BY <1>1, <3>1, <3>2 DEF Follows, DeploymentVersion
    <3> QED BY <2>2, <3>1, <3>2, <3>3
  <2> QED BY <2>1, <2>3, <2>4, <2>5 DEF Shown
<1>5. CASE Restart
  BY <1>1, <1>5 DEF Restart, apiVars, Shown, History, DeploymentVersion
<1> QED BY <1>2, <1>3, <1>4, <1>5, DeploymentFlow, StoredFollows DEF Written

LEMMA LabelledStep ==
  ASSUME IInv, HInv, [Next]_vars, NEW d \in Deployments
  PROVE  Labelled(d)'
<1> SUFFICES ASSUME d \notin Releasable, NEW y \in Versions(d)', y.cluster \in Clusters
             PROVE  y.owner # 0
  BY DEF Labelled
<1>1. \A x \in Versions(d) : x.cluster \in Clusters => x.owner # 0
  BY DEF HInv, Labelled
<1>2. CASE Kept(d)
  BY <1>1, <1>2 DEF Kept
<1>3. ASSUME NEW x \in DeploymentVersion, Stored(d, x), ByOthers(d, x) PROVE y.owner # 0
  BY <1>1, <1>3, ConstantsAssumption DEF Stored, ByOthers, Versions
<1>4. ASSUME NEW x \in DeploymentVersion, Stored(d, x), NEW w \in Workers, ByWorker(w, d, x)
      PROVE  y.owner # 0
  BY <1>1, <1>4 DEF Stored, ByWorker, HInv, Reads, Reading
<1> QED BY <1>2, <1>3, <1>4, DeploymentStep DEF IInv, Written

LEMMA ReadsStep ==
  ASSUME IInv, HInv, [Next]_vars, NEW w \in Workers
  PROVE  Reads(w)'
<1> SUFFICES ASSUME pc'[w] \in Reading PROVE seen'[w].uid # 0
  BY DEF Reads, Reading
<1>1. CASE pc[w] \in Reading /\ seen'[w] = seen[w]
  BY <1>1 DEF HInv, Reads
<1>2. CASE key'[w] \in Clusters /\ seen'[w] = clusterCache'[key'[w]] /\ seen'[w].exists
  <2>1. PICK c \in Clusters : c = key'[w]
    BY <1>2
  <2>2. ClusterShown(c)'
    BY ClusterShownStep
  <2> QED BY <1>2, <2>1, <2>2 DEF ClusterShown, ClusterVersions
<1> QED BY <1>1, <1>2, ReadingStep DEF IInv

(* A worker comes to report a Deployment that suits what it read: the one  *)
(* found in the cache, created, or stored by its update.                   *)
LEMMA SatisfiedStep ==
  ASSUME Typed, [Next]_vars, NEW w \in Workers, Satisfied(w)
  PROVE  Satisfied(w)'
<1> SUFFICES ASSUME pc'[w] = "status" PROVE Satisfied(w)'
  BY DEF Satisfied
<1>1. CASE Undisturbed(w)
  BY <1>1 DEF Undisturbed, Satisfied
<1>2. CASE Worker(w)
  <2> USE DEF Goto, Typed, TypeOK
  <2>1. CASE GetWork(w) \/ GetCluster(w) \/ updateTaskClusterStatus(w) \/ FinishWork(w)
    BY <2>1 DEF GetWork, GetCluster, updateTaskClusterStatus, FinishWork
  <2>2. ASSUME NEW x, x.exists, Holding(w, x), key' = key, seen' = seen PROVE Satisfied(w)'
    <3>1. held'[w] = x /\ Controlled(key[w], seen[w], x) /\ ~Differs(seen[w], x)
      BY <2>2 DEF Holding
    <3> QED BY <2>2, <3>1 DEF Satisfied
  <2>3. CASE GetDeployment(w)
    BY <2>2, <2>3 DEF GetDeployment
  <2>4. CASE CreateDeployment(w)
    <3>1. PICK d, v : d = seen[w].spec.deployment /\ v = newDeployment(key[w], seen[w])
      OBVIOUS
    <3>2. Holding(w, NextDeployment(d, v)) /\ key' = key /\ seen' = seen
      BY <2>4, <3>1 DEF CreateDeployment
    <3>3. NextDeployment(d, v).exists
      BY <3>1 DEF NextDeployment, newDeployment, NoDeploymentYet
    <3> QED BY <2>2, <3>2, <3>3
  <2>5. CASE UpdateDeployment(w)
    <3>1. PICK d, v : d = seen[w].spec.deployment /\ v = Updated(key[w], seen[w], deployments[d])
      OBVIOUS
    <3>2. d \in Deployments
      BY <2>5, <3>1 DEF UpdateDeployment, Busy, Reading
    <3>3. /\ deployments[d].exists /\ deployments[d].cluster = key[w]
          /\ ApplyUpdate(w) /\ key' = key /\ seen' = seen
      BY <2>5, <3>1 DEF UpdateDeployment, UpdateAccepted
    <3>4. /\ v.exists /\ v.cluster = key[w] /\ v.owner = seen[w].uid
          /\ v.replicas = seen[w].spec.replicas
      BY <3>1, <3>2, <3>3 DEF Updated, DeploymentVersion
    <3>5. CASE Unchanged(v, deployments[d])
      BY <3>1, <3>3, <3>4, <3>5 DEF ApplyUpdate, Unchanged, Satisfied, Controlled, Differs
    <3>6. CASE ~Unchanged(v, deployments[d])
      <4>1. held'[w] = NextDeployment(d, v)
        BY <3>1, <3>3, <3>6 DEF ApplyUpdate
      <4>2. v \in DeploymentVersion
        BY <2>5, <3>1, <3>2, SentType DEF UpdateDeployment, Busy
      <4>3. /\ held'[w].exists /\ held'[w].cluster = key[w] /\ held'[w].owner = seen[w].uid
            /\ held'[w].replicas = seen[w].spec.replicas
        BY <3>4, <4>1, <4>2 DEF NextDeployment, DeploymentVersion
      <4> QED BY <3>3, <4>3 DEF Satisfied, Controlled, Differs
    <3> QED BY <3>5, <3>6
  <2>6. CASE CallFails(w)
    BY <2>6 DEF CallFails
  <2> QED BY <1>2, <2>1, <2>3, <2>4, <2>5, <2>6 DEF Worker, SyncHandler
<1>3. CASE Restart
  BY <1>3 DEF Restart
<1> QED BY <1>1, <1>2, <1>3, OthersUndisturbed, IdleStep

LEMMA HInvInit == Init => HInv
<1> SUFFICES ASSUME Init PROVE HInv
  OBVIOUS
<1>1. ASSUME NEW c \in Clusters PROVE ClusterShown(c)
  BY DEF Init, ClusterShown, ClusterVersions, NoClusterYet
<1>2. ASSUME NEW d \in Deployments PROVE Shown(d) /\ Labelled(d)
  <2>1. /\ deployments[d] = NoDeploymentYet /\ deploymentCache[d] = NoDeploymentYet
        /\ deploymentWatch[d] = {}
    BY DEF Init
  <2>2. Shown(d)
    BY <2>1 DEF Shown, History, NoDeploymentYet
  <2> QED BY <2>1, <2>2, ConstantsAssumption DEF Labelled, Versions, NoDeploymentYet
<1>3. ASSUME NEW w \in Workers PROVE Reads(w) /\ Satisfied(w)
  BY DEF Init, Reads, Satisfied, Reading
<1> QED BY <1>1, <1>2, <1>3 DEF HInv

LEMMA HInvStep == ASSUME IInv, HInv, [Next]_vars PROVE HInv'
<1>1. ASSUME NEW c \in Clusters PROVE ClusterShown(c)'
  BY ClusterShownStep
<1>2. ASSUME NEW d \in Deployments PROVE Shown(d)' /\ Labelled(d)'
  BY ShownStep, LabelledStep DEF IInv, HInv
<1>3. ASSUME NEW w \in Workers PROVE Reads(w)' /\ Satisfied(w)'
  BY ReadsStep, SatisfiedStep DEF IInv, HInv
<1> QED BY <1>1, <1>2, <1>3 DEF HInv

-----------------------------------------------------------------------------
(* A TaskCluster is woken for what the informer shows of its Deployment.   *)

LEMMA NextNoticed ==
  ASSUME Typed, NEW d \in Deployments, Shown(d), Labelled(d), d \notin Releasable, ~Relists,
         SeeDeployment(d), NEW c \in Clusters,
         deploymentCache[d].exists, deploymentCache[d].cluster = c
  PROVE  <<"Deployment", c>> \in notify'
<1>1. PICK v \in Deliverable(deploymentWatch[d]) :
        \E u \in Given(deploymentCache[d], v) : notify' = notify \cup OwnerNotice(u)
  BY DEF SeeDeployment
<1>2. PICK u \in Given(deploymentCache[d], v) : notify' = notify \cup OwnerNotice(u)
  BY <1>1
<1>3. v \in deploymentWatch[d] /\ \A y \in deploymentWatch[d] : v.rv <= y.rv
  BY DEF Deliverable
<1>4. PICK t \in History(d) : Follows(v, t)
  BY <1>3 DEF Shown
<1>5. t = deploymentCache[d]
  <2>1. v \in DeploymentVersion /\ t \in DeploymentVersion
    BY <1>3 DEF Typed, TypeOK, History
  <2>2. t.rv < v.rv
    BY <1>4, <2>1 DEF Follows, DeploymentVersion
  <2>3. t \notin deploymentWatch[d]
    BY <1>3, <2>1, <2>2 DEF DeploymentVersion
  <2> QED BY <2>3 DEF History
<1>6. v.cluster = c
  BY <1>4, <1>5 DEF Follows
<1>7. v.owner # 0 /\ deploymentCache[d].owner # 0
  BY <1>3, <1>6 DEF Labelled, Versions
<1>8. u \in {v, deploymentCache[d]}
  BY <1>2 DEF Given
<1> QED BY <1>2, <1>6, <1>7, <1>8 DEF OwnerNotice

LEMMA DueNoticed ==
  ASSUME Typed, NEW d \in Deployments, Shown(d), Labelled(d), d \notin Releasable, ~Relists,
         SeeDeployment(d), NEW c \in Clusters, Due(c, d)
  PROVE  <<"Deployment", c>> \in notify' \/ Due(c, d)'
<1>1. PICK v \in Deliverable(deploymentWatch[d]) :
        \E u \in Given(deploymentCache[d], v) :
          /\ deploymentWatch' = [deploymentWatch EXCEPT ![d] = LaterThan(v, @)]
          /\ notify' = notify \cup OwnerNotice(u)
  BY DEF SeeDeployment
<1>2. v \in deploymentWatch[d] /\ \A y \in deploymentWatch[d] : v.rv <= y.rv
  BY DEF Deliverable
<1>3. PICK y \in deploymentWatch[d] : y.exists /\ y.cluster = c
  BY DEF Due
<1>4. CASE y = v
  <2>1. v.owner # 0
    BY <1>2, <1>3, <1>4 DEF Labelled, Versions
  <2> QED BY <1>1, <1>3, <1>4, <2>1 DEF Given, OwnerNotice
<1>5. CASE y # v
  <2>1. y \in DeploymentVersion /\ v \in DeploymentVersion
    BY <1>2 DEF Typed, TypeOK
  <2>2. y.rv # v.rv
    BY <1>2, <1>5 DEF Shown, History
  <2>3. y.rv > v.rv
    BY <1>2, <2>1, <2>2 DEF DeploymentVersion
  <2>4. deploymentWatch'[d] = LaterThan(v, deploymentWatch[d])
    BY <1>1 DEF Typed, TypeOK
  <2> QED BY <1>3, <2>3, <2>4 DEF LaterThan, Due
<1> QED BY <1>4, <1>5

(* A worker that is left alone goes on attending to a TaskCluster of which *)
(* the caches show nothing else.                                           *)
LEMMA GoesOnAttending ==
  ASSUME NEW c, NEW x, Attends(x, c), Undisturbed(x), clusterCache'[c] = clusterCache[c],
         \/ pc[x] # "status"
         \/ deploymentCache'[clusterCache[c].spec.deployment]
              = deploymentCache[clusterCache[c].spec.deployment]
  PROVE  Attends(x, c)'
BY DEF Attends, Undisturbed

(* Whoever processes c by what the caches show reads on, stores something  *)
(* for c, or has its key queued again.                                     *)
LEMMA WorkerAttends ==
  ASSUME IInv, HInv, NEW w \in Workers, Worker(w), NEW c \in Clusters, Attends(w, c),
         Unfit(c), clusterCache' = clusterCache, deploymentCache' = deploymentCache,
         clusterWatch[c] = {}, clusterWatch'[c] = {}
  PROVE  Attended(c)' \/ Due(c, clusterCache[c].spec.deployment)'
<1> USE DEF Goto
<1>0. PICK d : d = clusterCache[c].spec.deployment
  OBVIOUS
<1>1. /\ TypeOK /\ key[w] = c /\ clusterCache[c].exists /\ Complete(clusterCache[c].spec)
      /\ pc[w] \in Steps /\ clusterCache[c] \in ClusterVersion
  BY DEF Attends, Unfit, IInv, Typed, TypeOK
<1>2. d \in Deployments
  BY <1>0, <1>1 DEF Complete, ClusterVersion, SpecType
<1>3. ASSUME Attends(w, c)' PROVE Attended(c)'
  BY <1>3 DEF Attended
<1>4. ASSUME key'[w] = c, pc'[w] = "err" PROVE Attended(c)'
  BY <1>3, <1>4 DEF Attends
<1>5. ASSUME pc[w] \in Reading PROVE seen[w] = clusterCache[c]
  BY <1>5 DEF Attends, Reading
<1>6. ASSUME NEW v \in DeploymentVersion, WriteDeployment(d, v), v.exists, v.cluster = c
      PROVE  Due(c, d)'
  <2>1. NextDeployment(d, v).exists /\ NextDeployment(d, v).cluster = c
    BY <1>6 DEF NextDeployment, DeploymentVersion
  <2>2. NextDeployment(d, v) \in deploymentWatch'[d]
    BY <1>1, <1>2, <1>6 DEF WriteDeployment, TypeOK
  <2> QED BY <2>1, <2>2 DEF Due
<1>7. CASE GetWork(w)
  BY <1>7 DEF GetWork, Attends, Reading
<1>8. CASE GetCluster(w)
  <2>1. seen'[w] = clusterCache[c] /\ pc'[w] = "getDeployment" /\ key' = key
    BY <1>1, <1>8 DEF GetCluster, TypeOK
  <2> QED BY <1>1, <1>3, <2>1 DEF Attends, Reading
<1>9. CASE GetDeployment(w)
  <2>1. seen[w] = clusterCache[c] /\ key' = key /\ seen' = seen
    BY <1>5, <1>9 DEF GetDeployment, Reading
  <2>2. CASE deploymentCache[d].exists
    <3>1. Holding(w, deploymentCache[d])
      BY <1>0, <1>9, <2>1, <2>2 DEF GetDeployment
    <3>2. held'[w] = deploymentCache[d] /\ pc'[w] \in {"err", "update", "status"}
      BY <1>1, <3>1 DEF Holding, TypeOK
    <3> QED BY <1>0, <1>1, <1>3, <2>1, <3>2 DEF Attends, Reading
  <2>3. CASE ~deploymentCache[d].exists
    <3>1. pc'[w] = "create"
      BY <1>0, <1>1, <1>9, <2>1, <2>3 DEF GetDeployment, TypeOK
    <3> QED BY <1>1, <1>3, <2>1, <3>1 DEF Attends, Reading
  <2> QED BY <2>2, <2>3
<1>10. CASE CreateDeployment(w)
  <2>1. seen[w] = clusterCache[c] /\ key' = key
    BY <1>5, <1>10 DEF CreateDeployment, Reading
  <2>2. CASE ~deployments[d].exists
    <3>1. PICK v : v = newDeployment(c, clusterCache[c])
      OBVIOUS
    <3>2. WriteDeployment(d, v)
      BY <1>0, <1>1, <1>10, <2>1, <2>2, <3>1 DEF CreateDeployment
    <3>3. v \in DeploymentVersion /\ v.cluster = c
      <4>1. deployments[d] \in DeploymentVersion
        BY <1>1, <1>2 DEF TypeOK
      <4> QED BY <1>1, <2>1, <3>1, <4>1, SentType
    <3>4. v.exists
      BY <3>1 DEF newDeployment, NoDeploymentYet
    <3> QED BY <1>0, <1>6, <3>2, <3>3, <3>4
  <2>3. CASE deployments[d].exists
    BY <1>0, <1>1, <1>4, <1>10, <2>1, <2>3 DEF CreateDeployment, TypeOK
  <2> QED BY <2>2, <2>3
<1>11. CASE UpdateDeployment(w)
  <2>1. seen[w] = clusterCache[c] /\ key' = key /\ seen' = seen
    BY <1>5, <1>11 DEF UpdateDeployment, Reading
  <2>2. CASE ~UpdateAccepted(c, d)
    BY <1>0, <1>1, <1>4, <1>11, <2>1, <2>2 DEF UpdateDeployment, TypeOK
  <2>3. CASE UpdateAccepted(c, d)
    <3>1. PICK v : v = Updated(c, clusterCache[c], deployments[d])
      OBVIOUS
    <3>2. pc'[w] = "status" /\ ApplyUpdate(w)
      BY <1>0, <1>1, <1>11, <2>1, <2>3 DEF UpdateDeployment, TypeOK
    <3>3. deployments[d] \in DeploymentVersion
      BY <1>1, <1>2 DEF TypeOK
    <3>4. v \in DeploymentVersion /\ v.exists /\ v.cluster = c
      <4>1. v \in DeploymentVersion /\ v.cluster = deployments[d].cluster
        BY <1>1, <2>1, <3>1, <3>3, SentType
      <4>2. v.exists = deployments[d].exists
        BY <3>1, <3>3 DEF Updated, DeploymentVersion
      <4> QED BY <2>3, <4>1, <4>2 DEF UpdateAccepted
    <3>5. CASE ~Unchanged(v, deployments[d])
      <4>1. WriteDeployment(d, v)
        BY <1>0, <1>1, <2>1, <3>1, <3>2, <3>5 DEF ApplyUpdate
      <4> QED BY <1>0, <1>6, <3>4, <4>1
    <3>6. CASE Unchanged(v, deployments[d])
      <4>1. held'[w] = deployments[d] /\ deploymentWatch' = deploymentWatch
        BY <1>0, <1>1, <2>1, <3>1, <3>2, <3>6 DEF ApplyUpdate, TypeOK
      <4>2. CASE deployments[d] = deploymentCache[d]
        BY <1>0, <1>1, <1>3, <2>1, <3>2, <4>1, <4>2 DEF Attends, Reading
      <4>3. CASE deployments[d] \in deploymentWatch[d]
        BY <1>0, <2>3, <4>1, <4>3 DEF Due, UpdateAccepted
      <4> QED BY <1>2, <4>2, <4>3 DEF HInv, Shown, History
    <3> QED BY <3>5, <3>6
  <2> QED BY <2>2, <2>3
<1>12. CASE updateTaskClusterStatus(w)
  <2>1. /\ seen[w] = clusterCache[c] /\ held[w] = deploymentCache[d] /\ pc[w] = "status"
        /\ key' = key
    BY <1>0, <1>5, <1>12 DEF updateTaskClusterStatus, Attends, Reading
  <2>2. CASE ~Current(c, seen[w])
    BY <1>1, <1>4, <1>12, <2>1, <2>2 DEF updateTaskClusterStatus, TypeOK
  <2>3. CASE Current(c, seen[w])
    <3>1. PICK v : v = [seen[w] EXCEPT !.available = held[w].available]
      OBVIOUS
    <3>2. seen[w] = clusters[c]
      BY <2>1 DEF HInv, ClusterShown
    <3>3. CASE v = clusters[c]
      <4>1. clusterCache[c].available = deploymentCache[d].available
        BY <1>1, <2>1, <3>1, <3>2, <3>3 DEF ClusterVersion
      <4>2. Fits(c, clusterCache[c], deploymentCache[d])
        BY <1>1, <2>1, <4>1 DEF HInv, Satisfied, Fits
      <4> QED BY <1>0, <4>2 DEF Unfit
    <3>4. CASE v # clusters[c]
      <4>1. WriteCluster(c, v)
        BY <1>1, <1>12, <2>3, <3>1, <3>4 DEF updateTaskClusterStatus, ApplyStatus
      <4>2. clusterWatch'[c] # {}
        BY <1>1, <4>1 DEF WriteCluster, TypeOK
      <4> QED BY <4>2
    <3> QED BY <3>3, <3>4
  <2> QED BY <2>2, <2>3
<1>13. CASE CallFails(w)
  BY <1>1, <1>4, <1>13 DEF CallFails, TypeOK
<1>14. CASE FinishWork(w)
  BY <1>1, <1>14 DEF FinishWork, Requeued, Attends, Attended, Reading
<1> QED BY <1>7, <1>8, <1>9, <1>10, <1>11, <1>12, <1>13, <1>14 DEF Worker, SyncHandler

(* As long as the caches show the same, attention to c is not lost.        *)
LEMMA AttendedStep ==
  ASSUME IInv, HInv, [Next]_vars, ~Restart, NEW c \in Clusters, Unfit(c), Attended(c),
         clusterCache'[c] = clusterCache[c], clusterWatch[c] = {}, clusterWatch'[c] = {},
         deploymentCache'[clusterCache[c].spec.deployment]
           = deploymentCache[clusterCache[c].spec.deployment]
  PROVE  Attended(c)' \/ Due(c, clusterCache[c].spec.deployment)'
<1> DEFINE mine == {<<"TaskCluster", c>>, <<"Deployment", c>>}
<1>1. ASSUME NEW w \in Workers, Worker(w)
      PROVE  Attended(c)' \/ Due(c, clusterCache[c].spec.deployment)'
  <2>1. UNCHANGED <<notify, clusterCache, deploymentCache>> /\ retry \subseteq retry'
    BY <1>1 DEF Worker, SyncHandler, GetWork, GetCluster, GetDeployment, CreateDeployment,
       UpdateDeployment, updateTaskClusterStatus, CallFails, FinishWork, Requeued,
       informerVars, queueVars
  <2>2. CASE notify \cap mine # {} \/ c \in retry
    BY <2>1, <2>2 DEF Attended
  <2>3. CASE c \in dirty
    <3>1. CASE c \in dirty'
      BY <3>1 DEF Attended
    <3>2. CASE c \notin dirty'
      <4>1. GetWork(w)
        BY <1>1, <2>3, <3>2 DEF Worker, SyncHandler, GetCluster, GetDeployment,
           CreateDeployment, UpdateDeployment, updateTaskClusterStatus, CallFails, FinishWork,
           queueVars
      <4>2. key'[w] = c /\ pc'[w] = "getCluster"
        BY <2>3, <3>2, <4>1 DEF GetWork, Goto, IInv, Typed, TypeOK
      <4> QED BY <4>2 DEF Attended, Attends
    <3> QED BY <3>1, <3>2
  <2>4. ASSUME NEW x \in Workers, Attends(x, c), x # w PROVE Attended(c)'
    <3>1. Attends(x, c)'
      BY <1>1, <2>4, OthersUndisturbed, GoesOnAttending DEF IInv
    <3> QED BY <3>1 DEF Attended
  <2>5. CASE Attends(w, c)
    BY <1>1, <2>1, <2>5, WorkerAttends
  <2> QED BY <2>2, <2>3, <2>4, <2>5 DEF Attended
<1>2. CASE ~\E w \in Workers : Worker(w)
  <2>1. ASSUME NEW x \in Workers, Attends(x, c) PROVE Attended(c)'
    <3>1. Attends(x, c)'
      BY <1>2, <2>1, IdleStep, GoesOnAttending
    <3> QED BY <3>1 DEF Attended
  <2>2. CASE notify \cap mine # {}
    <3>1. CASE notify \subseteq notify'
      BY <2>2, <3>1 DEF Attended
    <3>2. ASSUME NEW n \in notify, Handle(n) PROVE Attended(c)'
      <4>1. CASE n \in mine
        <5>1. c \in dirty'
          BY <3>2, <4>1 DEF Handle, EnqueuedBy, Unfit
        <5> QED BY <5>1 DEF Attended
      <4>2. CASE n \notin mine
        BY <2>2, <3>2, <4>2 DEF Handle, Attended
      <4> QED BY <4>1, <4>2
    <3>3. CASE Environment \/ Informers \/ (\E b \in retry : RetryDue(b)) \/ UNCHANGED vars
      <4>1. CASE Environment
        BY <3>1, <4>1 DEF Environment, DeleteCluster, CreateCluster, EditCluster,
           DeleteDeployment, CreateForeign, ReleaseDeployment, Collect, ScaleDeployment,
           AvailableChanges, OthersWrite
      <4>2. CASE Informers
        BY <3>1, <4>2 DEF Informers, SeeCluster, Resync, SeeDeployment
      <4>3. CASE (\E b \in retry : RetryDue(b)) \/ UNCHANGED vars
        BY <3>1, <4>3 DEF RetryDue, vars, informerVars
      <4> QED BY <3>3, <4>1, <4>2, <4>3
    <3> QED BY <1>2, <3>2, <3>3 DEF Next
  <2>3. CASE c \in dirty \cup retry
    <3>1. dirty \cup retry \subseteq dirty' \cup retry'
      <4>1. CASE Environment
        BY <4>1 DEF Environment, DeleteCluster, CreateCluster, EditCluster,
           DeleteDeployment, CreateForeign, ReleaseDeployment, Collect, ScaleDeployment,
           AvailableChanges, OthersWrite, queueVars
      <4>2. CASE Informers
        BY <4>2 DEF Informers, SeeCluster, Resync, SeeDeployment, queueVars
      <4>3. CASE (\E n \in notify : Handle(n)) \/ (\E b \in retry : RetryDue(b))
        BY <4>3 DEF Handle, RetryDue
      <4>4. CASE UNCHANGED vars
        BY <4>4 DEF vars, queueVars
      <4> QED BY <1>2, <4>1, <4>2, <4>3, <4>4 DEF Next
    <3> QED BY <2>3, <3>1 DEF Attended
  <2> QED BY <2>1, <2>2, <2>3 DEF Attended
<1> QED BY <1>1, <1>2

LEMMA WatchedStep ==
  ASSUME ~Relists, IInv, HInv, [Next]_vars, NEW c \in Clusters, Watched(c)
  PROVE  Watched(c)'
<1> SUFFICES ASSUME clusterWatch'[c] = {}, Unfit(c)'
             PROVE  Attended(c)' \/ Due(c, clusterCache[c].spec.deployment)'
  BY DEF Watched
<1>0. Typed /\ Typed' /\ clusterCache'[c].exists
  BY TypedStep DEF IInv, Unfit
<1>1. CASE Restart
  <2>1. <<"TaskCluster", c>> \in notify'
    BY <1>0, <1>1 DEF Restart
  <2> QED BY <2>1 DEF Attended
<1>2. CASE SeeCluster(c)
  <2>1. <<"TaskCluster", c>> \in notify'
    BY <1>0, <1>2 DEF SeeCluster, Typed, TypeOK
  <2> QED BY <2>1 DEF Attended
<1>3. CASE ~Restart /\ ~SeeCluster(c)
  <2>1. clusterCache'[c] = clusterCache[c] /\ clusterWatch[c] = {}
    BY <1>0, <1>3, ClusterFlow DEF ClusterUntouched, ClusterWritten, ClusterStored
  <2>2. PICK d : d = clusterCache[c].spec.deployment
    OBVIOUS
  <2>3. d \in Deployments /\ d \notin Releasable
    <3>1. clusterCache[c].spec \in SpecType
      BY <1>0 DEF Typed, TypeOK, ClusterVersion
    <3> QED BY <2>1, <2>2, <3>1 DEF Unfit, Complete, SpecType
  <2>4. Shown(d) /\ Labelled(d)
    BY <2>3 DEF HInv
  <2>5. ASSUME <<"Deployment", c>> \in notify' PROVE Attended(c)'
    BY <2>5 DEF Attended
  <2>6. CASE SeeDeployment(d)
    <3>1. CASE deploymentCache[d].exists /\ deploymentCache[d].cluster = c
      BY <1>0, <2>3, <2>4, <2>5, <2>6, <3>1, NextNoticed
    <3>2. CASE ~(deploymentCache[d].exists /\ deploymentCache[d].cluster = c)
      <4>1. ~Fits(c, clusterCache[c], deploymentCache[d])
        BY <3>2 DEF Fits, Controlled
      <4>2. Attended(c) \/ Due(c, d)
        BY <2>1, <2>2, <4>1 DEF Watched, Unfit
      <4>3. CASE Due(c, d)
        BY <1>0, <2>1, <2>2, <2>3, <2>4, <2>5, <2>6, <4>3, DueNoticed
      <4>4. ASSUME NEW x \in Workers, Attends(x, c) PROVE Attended(c)'
        <5>1. pc[x] # "status"
          BY <2>2, <3>2, <4>4 DEF Attends, HInv, Satisfied, Controlled, Reading
        <5>2. Undisturbed(x)
          BY <2>6 DEF SeeDeployment, Undisturbed, workerVars
        <5>3. Attends(x, c)'
          BY <2>1, <4>4, <5>1, <5>2, GoesOnAttending
        <5> QED BY <5>3 DEF Attended
      <4>5. CASE notify \cap {<<"TaskCluster", c>>, <<"Deployment", c>>} # {}
                 \/ c \in dirty \cup retry
        BY <2>6, <4>5 DEF SeeDeployment, queueVars, Attended
      <4> QED BY <4>2, <4>3, <4>4, <4>5, <2>1, <2>2 DEF Attended
    <3> QED BY <3>1, <3>2
  <2>7. CASE ~SeeDeployment(d)
    <3>1. /\ deploymentCache'[d] = deploymentCache[d]
          /\ deploymentWatch[d] \subseteq deploymentWatch'[d]
      BY <1>0, <1>3, <2>3, <2>7, DeploymentFlow DEF Untouched, Written, Stored
    <3>2. Unfit(c)
      BY <2>1, <2>2, <3>1 DEF Unfit
    <3>3. Attended(c) \/ Due(c, d)
      BY <2>1, <2>2, <3>2 DEF Watched
    <3>4. CASE Attended(c)
      BY <1>3, <2>1, <2>2, <3>1, <3>2, <3>4, AttendedStep
    <3>5. CASE Due(c, d)
      BY <2>1, <2>2, <3>1, <3>5 DEF Due
    <3> QED BY <3>3, <3>4, <3>5
  <2> QED BY <2>6, <2>7
<1> QED BY <1>1, <1>2, <1>3

(* NoLostWakeup: while no watch breaks, the controller is at work for      *)
(* every TaskCluster not served as it asks, whatever its caches, failing   *)
(* calls and restarts do, and whoever else writes its Deployment.          *)
THEOREM WakeupsAreKept == ASSUME ~Relists PROVE Spec => []NoLostWakeup
<1>1. Init => IInv /\ HInv /\ WInv
  <2>1. ASSUME Init, NEW c \in Clusters PROVE Watched(c)
    BY <2>1 DEF Init, Watched, Unfit, NoClusterYet
  <2> QED BY <2>1, IInvInit, HInvInit DEF WInv
<1>2. IInv /\ HInv /\ WInv /\ [Next]_vars => IInv' /\ HInv' /\ WInv'
  BY IInvStep, HInvStep, WatchedStep DEF WInv
<1>3. IInv /\ HInv /\ WInv => NoLostWakeup
  <2> SUFFICES ASSUME IInv, HInv, WInv, NEW c \in Clusters, Wanted(c), ~Served(c), CaughtUp(c),
                      clusters[c].spec.deployment \notin Releasable
               PROVE  Awake(c)
    BY DEF NoLostWakeup
  <2>1. clusterCache[c] = clusters[c]
    BY DEF CaughtUp, HInv, ClusterShown
  <2>2. PICK d : d = clusters[c].spec.deployment
    OBVIOUS
  <2>3. d \in Deployments
    BY <2>2 DEF Wanted, Complete, IInv, Typed, TypeOK, ClusterVersion, SpecType
  <2>4. deploymentCache[d] = deployments[d] /\ ~Due(c, d)
    BY <2>2, <2>3 DEF CaughtUp, HInv, Shown, History, Due
  <2>5. ~Fits(c, clusters[c], deployments[d])
    BY <2>2 DEF Served, Owned, Named, Fits, Controlled, Differs
  <2>6. Attended(c)
    BY <2>1, <2>2, <2>4, <2>5 DEF WInv, Watched, Unfit, Wanted, CaughtUp
  <2>7. ASSUME NEW w \in Workers, Attends(w, c) PROVE c \in Processing
    BY <2>7 DEF Attends, Processing, Reading
  <2> QED BY <2>6, <2>7 DEF Attended, Awake
<1> QED BY <1>1, <1>2, <1>3, PTL DEF Spec

=============================================================================
