------------------------ MODULE TaskRefinementProofs ------------------------
(***************************************************************************)
(* The Task controller implements TaskLifecycle: through the refinement    *)
(* mapping of TaskController, an initial state is one of the lifecycle and *)
(* every step is one of its steps or none.  The mapping forgets caches,    *)
(* queue, workers and resourceVersions; the inductive invariant says why   *)
(* what they hold never makes a step that the lifecycle does not have.     *)
(***************************************************************************)
EXTENDS TaskControllerProofs

(* The variables of the lifecycle.                                         *)
Status == [t \in Tasks |-> [uid |-> tasks[t].uid, exists |-> tasks[t].exists,
                            podName |-> tasks[t].podName, state |-> tasks[t].state]]
Launched == {x \in Pods \X Tasks : pods[x[1]].ec[x[2]] # 0}
Terminated == {x \in Pods \X Tasks : x[2] \in pods[x[1]].done}

StatusOf(v) == [uid |-> v.uid, exists |-> v.exists, podName |-> v.podName, state |-> v.state]

StatusType == [uid: Nat, exists: BOOLEAN, podName: Pods \cup {NoPod}, state: TaskStates]

(* A status is determined by its four fields.                              *)
LEMMA StatusFields ==
  ASSUME NEW r \in StatusType, NEW s \in StatusType,
         r.uid = s.uid, r.exists = s.exists, r.podName = s.podName, r.state = s.state
  PROVE  r = s
BY DEF StatusType

(* The values that the steps of the lifecycle give to a status.            *)
LEMMA StatusCreated ==
  ASSUME NEW s \in StatusType, NEW n \in Nat,
         s.uid = n, s.exists = TRUE, s.podName = NoPod, s.state = "New"
  PROVE  s = [Lifecycle!Unborn EXCEPT !.uid = n, !.exists = TRUE]
<1> DEFINE r == [Lifecycle!Unborn EXCEPT !.uid = n, !.exists = TRUE]
<1>1. /\ r \in StatusType
      /\ r.uid = n /\ r.exists = TRUE /\ r.podName = NoPod /\ r.state = "New"
  BY DEF Lifecycle!Unborn, StatusType, TaskStates
<1> HIDE DEF r
<1>2. s = r
  BY <1>1, StatusFields
<1> QED BY <1>2 DEF r

LEMMA StatusDeleted ==
  ASSUME NEW s \in StatusType, NEW n \in Nat,
         s.uid = n, s.exists = FALSE, s.podName = NoPod, s.state = "New"
  PROVE  s = [Lifecycle!Unborn EXCEPT !.uid = n]
<1> DEFINE r == [Lifecycle!Unborn EXCEPT !.uid = n]
<1>1. /\ r \in StatusType
      /\ r.uid = n /\ r.exists = FALSE /\ r.podName = NoPod /\ r.state = "New"
  BY DEF Lifecycle!Unborn, StatusType, TaskStates
<1> HIDE DEF r
<1>2. s = r
  BY <1>1, StatusFields
<1> QED BY <1>2 DEF r

LEMMA StatusBound ==
  ASSUME NEW s \in StatusType, NEW o \in StatusType, NEW p \in Pods,
         s.uid = o.uid, s.exists = o.exists, s.podName = p, s.state = "Running"
  PROVE  s = [o EXCEPT !.podName = p, !.state = "Running"]
<1> DEFINE r == [o EXCEPT !.podName = p, !.state = "Running"]
<1>1. /\ r \in StatusType
      /\ r.uid = o.uid /\ r.exists = o.exists /\ r.podName = p /\ r.state = "Running"
  BY DEF Lifecycle!Unborn, StatusType, TaskStates
<1> HIDE DEF r
<1>2. s = r
  BY <1>1, StatusFields
<1> QED BY <1>2 DEF r

LEMMA StatusFinished ==
  ASSUME NEW s \in StatusType, NEW o \in StatusType,
         s.uid = o.uid, s.exists = o.exists, s.podName = o.podName, s.state = "Finished"
  PROVE  s = [o EXCEPT !.state = "Finished"]
<1> DEFINE r == [o EXCEPT !.state = "Finished"]
<1>1. /\ r \in StatusType
      /\ /\ r.uid = o.uid /\ r.exists = o.exists
         /\ r.podName = o.podName /\ r.state = "Finished"
  BY DEF Lifecycle!Unborn, StatusType, TaskStates
<1> HIDE DEF r
<1>2. s = r
  BY <1>1, StatusFields
<1> QED BY <1>2 DEF r

LEMMA RefinesInit == Init => Lifecycle!Init
BY DEF Init, Lifecycle!Init, Lifecycle!Unborn, NoTaskYet, NoPodYet

(* A write of a Task is a step of the lifecycle, or none if only its       *)
(* metadata changed.                                                       *)
LEMMA RefinesTaskWrite ==
  ASSUME IInv, IInv', PodsKept, NEW t \in Tasks, NEW v \in TaskVersion, TaskWrite(t, v)
  PROVE  Lifecycle!Next \/ UNCHANGED Lifecycle!vars
<1>1. /\ tasks[t] \in TaskVersion /\ tasks' = [tasks EXCEPT ![t] = v]
      /\ tasks \in [Tasks -> TaskVersion] /\ pods' = pods
  BY DEF IInv, Typed, TypeOK, TaskWrite, PodsKept
<1>2. /\ Status' = [Status EXCEPT ![t] = StatusOf(v)]
      /\ Status[t] = StatusOf(tasks[t]) /\ UNCHANGED <<Launched, Terminated>>
  BY <1>1 DEF Status, StatusOf, Launched, Terminated
<1>0. StatusOf(v) \in StatusType /\ Status[t] \in StatusType
      /\ StatusOf(v).uid = v.uid /\ StatusOf(v).exists = v.exists
      /\ StatusOf(v).podName = v.podName /\ StatusOf(v).state = v.state
  BY <1>1, <1>2 DEF StatusOf, StatusType, TaskVersion
<1>3. Status[t].uid = tasks[t].uid /\ Status[t].exists = tasks[t].exists
      /\ Status[t].podName = tasks[t].podName /\ Status[t].state = tasks[t].state
  BY <1>2 DEF StatusOf
<1>4. v.exists \in BOOLEAN /\ tasks[t].exists \in BOOLEAN
  BY <1>1 DEF TaskVersion
<1>5. CASE Created(t, v)
  <2>1. Status[t].uid + 1 \in Nat
    BY <1>0 DEF StatusType
  <2>2. StatusOf(v) = [Lifecycle!Unborn EXCEPT !.uid = Status[t].uid + 1, !.exists = TRUE]
    BY <1>0, <1>3, <1>4, <1>5, <2>1, StatusCreated DEF Created
  <2>3. Lifecycle!Create(t)
    BY <1>2, <1>3, <1>5, <2>2 DEF Created, Status, Launched, Terminated, Lifecycle!Create
  <2> QED BY <2>3 DEF Lifecycle!Next
<1>6. CASE Deleted(t, v)
  <2>1. Status[t].uid \in Nat
    BY <1>0 DEF StatusType
  <2>2. StatusOf(v) = [Lifecycle!Unborn EXCEPT !.uid = Status[t].uid]
    BY <1>0, <1>3, <1>4, <1>6, <2>1, StatusDeleted DEF Deleted
  <2>3. Lifecycle!Delete(t)
    BY <1>2, <1>3, <1>6, <2>2 DEF Deleted, Status, Launched, Terminated, Lifecycle!Delete
  <2> QED BY <2>3 DEF Lifecycle!Next
<1>7. CASE Edited(t, v)
  <2>1. StatusOf(v) = StatusOf(tasks[t])
    BY <1>4, <1>7 DEF Edited, SameObject, StatusOf
  <2>2. Status \in [Tasks -> {StatusOf(tasks[u]) : u \in Tasks}]
    BY DEF Status, StatusOf
  <2>3. Status' = Status
    BY <1>2, <2>1, <2>2
  <2> QED BY <1>2, <2>3 DEF Lifecycle!vars, Status, Launched, Terminated
<1>8. CASE MadeRunning(t, v)
  <2>1. PICK w \in Workers : /\ pc[w] = "markRunning" /\ key[w] = t /\ seen[w] = tasks[t]
                             /\ v.podName = target[w] /\ v.state = "Running"
    BY <1>8 DEF MadeRunning
  <2>2. target[w] \in Pods /\ pods[target[w]].ec[t] # 0 /\ tasks[t].podName = NoPod
    BY <2>1 DEF IInv, WorkerInv, Chosen, Patched, Unassigned
  <2>3. <<target[w], t>> \in Launched
    BY <2>2 DEF Launched
  <2>4. tasks[t].state = "New"
    BY <2>2 DEF IInv, TaskCopies, WellFormed
  <2>5. tasks[t].exists /\ v.exists /\ v.uid = tasks[t].uid
    BY <1>8 DEF MadeRunning, SameObject
  <2>6. StatusOf(v) = [Status[t] EXCEPT !.podName = target[w], !.state = "Running"]
    <3>1. StatusOf(v).uid = Status[t].uid /\ StatusOf(v).exists = Status[t].exists
      BY <1>0, <1>3, <1>4, <2>5
    <3>2. StatusOf(v).podName = target[w] /\ StatusOf(v).state = "Running"
      BY <1>0, <2>1
    <3> QED BY <1>0, <2>2, <3>1, <3>2, StatusBound
  <2>7. Status' = [Status EXCEPT ![t].podName = target[w], ![t].state = "Running"]
    BY <1>2, <2>6 DEF Status
  <2>8. Lifecycle!Bind(target[w], t)
    BY <1>2, <1>3, <2>2, <2>3, <2>4, <2>5, <2>7
       DEF Lifecycle!Bind, Status, Launched, Terminated
  <2> QED BY <2>2, <2>8 DEF Lifecycle!Next
<1>9. CASE MadeFinished(t, v)
  <2>1. PICK w \in Workers : pc[w] = "markFinished" /\ key[w] = t /\ seen[w] = tasks[t]
    BY <1>9 DEF MadeFinished
  <2>2. tasks[t].podName \in Pods /\ t \in pods[tasks[t].podName].done /\ tasks[t].state # "Finished"
    BY <2>1 DEF IInv, WorkerInv, Bound, Ended, CopyHeld, Holding
  <2>3. <<tasks[t].podName, t>> \in Terminated
    BY <2>2 DEF Terminated
  <2>4. tasks[t].state = "Running"
    BY <1>1, <2>2, ConstantsAssumption DEF IInv, TaskCopies, WellFormed, TaskVersion, TaskStates
  <2>5. /\ tasks[t].exists /\ v.exists /\ v.uid = tasks[t].uid
        /\ v.podName = tasks[t].podName /\ v.state = "Finished"
    BY <1>9 DEF MadeFinished, SameObject
  <2>6. StatusOf(v) = [Status[t] EXCEPT !.state = "Finished"]
    <3>1. StatusOf(v).uid = Status[t].uid /\ StatusOf(v).exists = Status[t].exists
      BY <1>0, <1>3, <1>4, <2>5
    <3>2. StatusOf(v).podName = Status[t].podName /\ StatusOf(v).state = "Finished"
      BY <1>0, <1>3, <2>5
    <3> QED BY <1>0, <3>1, <3>2, StatusFinished
  <2>7. Status' = [Status EXCEPT ![t].state = "Finished"]
    BY <1>2, <2>6 DEF Status
  <2>8. Lifecycle!Finish(t)
    BY <1>2, <1>3, <2>3, <2>4, <2>5, <2>7
       DEF Lifecycle!Finish, Status, Launched, Terminated
  <2> QED BY <2>8 DEF Lifecycle!Next
<1> QED BY <1>5, <1>6, <1>7, <1>8, <1>9 DEF TaskWrite

(* A write of a Pod launches a container, ends one, or shows nothing.      *)
LEMMA RefinesPodWrite ==
  ASSUME IInv, IInv', TasksKept, NEW p \in Pods, NEW v \in PodVersion, PodWrite(p, v)
  PROVE  Lifecycle!Next \/ UNCHANGED Lifecycle!vars
<1>1. /\ pods[p] \in PodVersion /\ pods' = [pods EXCEPT ![p] = v]
      /\ pods \in [Pods -> PodVersion] /\ tasks' = tasks
  BY DEF IInv, Typed, TypeOK, PodWrite, TasksKept
<1>2. UNCHANGED Status
  BY <1>1 DEF Status
<1>3. CASE Conditions(p, v)
  <2>1. UNCHANGED <<Launched, Terminated>>
    BY <1>1, <1>3 DEF Conditions, Launched, Terminated
  <2> QED BY <1>2, <2>1 DEF Lifecycle!vars, Status, Launched, Terminated
<1>4. CASE ContainerEnded(p, v)
  <2>1. PICK t \in Tasks : pods[p].ec[t] # 0 /\ v.done = pods[p].done \cup {t}
    BY <1>4 DEF ContainerEnded
  <2>2. UNCHANGED Launched /\ <<p, t>> \in Launched
    BY <1>1, <1>4, <2>1 DEF ContainerEnded, Launched
  <2>3. Terminated' = Terminated \cup {<<p, t>>}
    BY <1>1, <2>1 DEF Terminated
  <2>4. Lifecycle!End(p, t)
    BY <1>2, <2>2, <2>3 DEF Lifecycle!End, Status, Launched, Terminated
  <2> QED BY <2>4 DEF Lifecycle!Next
<1>5. CASE ContainerAdded(p, v)
  <2>1. PICK w \in Workers : /\ pc[w] = "patch" /\ target[w] = p
                             /\ v.ec = [pods[p].ec EXCEPT ![key[w]] = seen[w].uid]
    BY <1>5 DEF ContainerAdded
  <2>0. PICK t \in Tasks : t = key[w]
    BY <2>1 DEF IInv, Typed, Busy
  <2>2. /\ seen[w].uid # 0 /\ seen[w].uid <= tasks[t].uid
        /\ seen[w] \in TaskVersion /\ tasks[t] \in TaskVersion
    BY <2>1, <2>0 DEF IInv, Typed, TypeOK, Busy, WorkerInv, CopyHeld, Holding, OldVersion, WellFormed
  <2>3. Launched' = Launched \cup {<<p, t>>}
    BY <1>1, <2>1, <2>0, <2>2 DEF Launched, PodVersion
  <2>4. UNCHANGED Terminated
    BY <1>1, <1>5 DEF Terminated, ContainerAdded
  <2>5. Status[t].uid > 0
    BY <2>2 DEF Status, TaskVersion
  <2>6. Lifecycle!Launch(p, t)
    BY <1>2, <2>3, <2>4, <2>5 DEF Lifecycle!Launch, Status, Launched, Terminated
  <2> QED BY <2>6 DEF Lifecycle!Next
<1> QED BY <1>3, <1>4, <1>5 DEF PodWrite

LEMMA RefinesStep ==
  ASSUME IInv, [Next]_vars PROVE Lifecycle!Next \/ UNCHANGED Lifecycle!vars
<1>1. IInv'
  BY IInvStep
<1>2. CASE TasksKept /\ PodsKept
  BY <1>2 DEF TasksKept, PodsKept, Lifecycle!vars
<1>3. CASE PodsKept /\ \E t \in Tasks, v \in TaskVersion : TaskWrite(t, v)
  BY <1>1, <1>3, RefinesTaskWrite
<1>4. CASE TasksKept /\ \E p \in Pods, v \in PodVersion : PodWrite(p, v)
  BY <1>1, <1>4, RefinesPodWrite
<1> QED BY <1>2, <1>3, <1>4, StepEffect DEF ApiStep

(* Every behaviour of the controller is one of TaskLifecycle: a Task is    *)
(* bound once, to a Pod that has its container, and finished once, after   *)
(* that container ended; it may be launched more than once.                *)
THEOREM Refinement == Spec => ImplementsLifecycle
<1>1. IInv /\ [Next]_vars => [Lifecycle!Next]_(Lifecycle!vars)
  BY RefinesStep
<1> QED BY RefinesInit, <1>1, Invariance, PTL DEF Spec, ImplementsLifecycle, Lifecycle!Spec

=============================================================================
