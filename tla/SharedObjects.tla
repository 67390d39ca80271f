--------------------------- MODULE SharedObjects ---------------------------
(***************************************************************************)
(* The memory that workers, handlers and informers share.  A lister hands  *)
(* out pointers into the informer's cache and asks that what is behind     *)
(* them be treated as read-only; a worker that wants to change something   *)
(* changes a deep copy.  An object is a struct, whose status lies in it,   *)
(* with references to cells: maps, arrays, a count.  What a cell holds is  *)
(* told by where it comes from: the version it was decoded for, and what   *)
(* was added since.                                                        *)
(***************************************************************************)
EXTENDS Naturals

CONSTANTS
  Tasks, Pods, TaskClusters,   \* keys of cached objects
  TaskWorkers, ClusterWorkers,
  MaxVersion,                  \* bound: versions of an object that are delivered
  Bare,                        \* versions without the optional parts of their spec
  Nil, Finished, Available     \* no reference; assigned states

Keys == Tasks \cup Pods \cup TaskClusters
Workers == TaskWorkers \cup ClusterWorkers

KindOf(k) == IF k \in Tasks THEN "Task" ELSE IF k \in Pods THEN "Pod" ELSE "TaskCluster"

Kinds == {"Task", "Pod", "TaskCluster"}

Fields == {"meta", "command", "args", "replicas", "containers"}

(* What TaskSpec and TaskClusterSpec refer to.                             *)
Optional == [Task |-> {"command", "args"}, TaskCluster |-> {"replicas"},
             Pod |-> {"containers"}]

(* Version v of object k is <<k, v>>, the copy of worker w is <<w, kind>>. *)
Published == Keys \X (1..MaxVersion)
Copies == Workers \X Kinds
Drafts == Workers \X {"Deployment"}
Objects == Published \cup Copies \cup Drafts

Cells == Objects \X Fields

Parts == Published \cup {Finished, Available}

ASSUME KeysAssumption ==
  /\ Tasks \cap Pods = {} /\ (Tasks \cup Pods) \cap TaskClusters = {}
  /\ Keys \cap Workers = {} /\ TaskWorkers \cap ClusterWorkers = {}
  /\ MaxVersion \in Nat /\ Bare \subseteq Published
  /\ Nil \notin Published \cup Cells

VARIABLES
  delivered,  \* of every key: the version in the cache
  refs,       \* of every object: where its fields point
  status,     \* of every object: its status
  cell,       \* what the cells hold
  pc, held,   \* of every worker: where it is, the versions it has pointers to
  sent        \* of every worker: the request it has just made

memory == <<refs, status, cell>>
vars == <<delivered, refs, status, cell, pc, held, sent>>

NoRequest == [f \in Fields \cup {"status"} |-> {}]

TypeOK ==
  /\ delivered \in [Keys -> 0..MaxVersion]
  /\ refs \in [Objects -> [Fields -> Cells \cup {Nil}]]
  /\ status \in [Objects -> SUBSET Parts]
  /\ cell \in [Cells -> SUBSET Published]
  /\ pc \in [Workers -> {"idle", "task", "append", "patch", "running", "finished",
                         "cluster", "deployment", "available", "update"}]
  /\ held \in [Workers -> [Kinds -> Published \cup {Nil}]]
  /\ sent \in [Workers -> [Fields \cup {"status"} -> SUBSET Parts]]

Init ==
  /\ delivered = [k \in Keys |-> 0]
  /\ refs = [o \in Objects |-> [f \in Fields |-> Nil]]
  /\ status = [o \in Objects |-> {}]
  /\ cell = [c \in Cells |-> {}]
  /\ pc = [w \in Workers |-> "idle"]
  /\ held = [w \in Workers |-> [kind \in Kinds |-> Nil]]
  /\ sent = [w \in Workers |-> NoRequest]

-----------------------------------------------------------------------------
(* The informer decodes a new version and puts it in the place of the old. *)
Deliver(k) ==
  LET o == <<k, delivered[k] + 1>>
      present == {"meta"} \cup (IF o \in Bare THEN {} ELSE Optional[KindOf(k)]) IN
  /\ delivered[k] < MaxVersion
  /\ delivered' = [delivered EXCEPT ![k] = @ + 1]
  /\ refs' = [refs EXCEPT ![o] = [f \in Fields |-> IF f \in present THEN <<o, f>> ELSE Nil]]
  /\ status' = [status EXCEPT ![o] = {o}]
  /\ cell' = [c \in Cells |-> IF c[1] = o THEN {o} ELSE cell[c]]
  /\ UNCHANGED <<pc, held, sent>>

FoundAlways(k) == TRUE  \* mutant: the error is not looked at

Found(k) == delivered[k] > 0

(* A lister's Get or List: the pointer, not what it points to.             *)
Cached(k) == <<k, delivered[k]>>

Pointed(o, f) == IF refs[o][f] = Nil THEN {} ELSE cell[refs[o][f]]

-----------------------------------------------------------------------------
(* Deep copies: the struct is assigned, then what it refers to is          *)
(* allocated anew, field by field.                                         *)

TaskSpecDeepCopyInto == {"command", "args"}

TaskClusterSpecShallow == {}  \* mutant: the count is shared

TaskClusterSpecDeepCopyInto == {"replicas"}

Allocated == [Task |-> {"meta"} \cup TaskSpecDeepCopyInto,
              TaskCluster |-> {"meta"} \cup TaskClusterSpecDeepCopyInto,
              Pod |-> {"meta", "containers"}]

CopiedRefs(in, out, kind) ==
  [f \in Fields |-> IF refs[in][f] # Nil /\ f \in Allocated[kind] THEN <<out, f>> ELSE refs[in][f]]

CopiedCell(in, out) ==
  [c \in Cells |-> IF c[1] = out THEN Pointed(in, c[2]) ELSE cell[c]]

NoCopy(w, kind) == held[w][kind]  \* mutant: the cached object is changed

CopyOf(w, kind) == <<w, kind>>

-----------------------------------------------------------------------------
Goto(w, label) == pc' = [pc EXCEPT ![w] = label]

Hold(w, k) == held' = [held EXCEPT ![w][KindOf(k)] = Cached(k)]

(* syncHandler returns and its copies are garbage.                         *)
Return(w) ==
  /\ pc[w] # "idle"
  /\ Goto(w, "idle")
  /\ held' = [held EXCEPT ![w] = [kind \in Kinds |-> Nil]]
  /\ refs' = [o \in Objects |-> IF o[1] = w THEN [f \in Fields |-> Nil] ELSE refs[o]]
  /\ status' = [o \in Objects |-> IF o[1] = w THEN {} ELSE status[o]]
  /\ cell' = [c \in Cells |-> IF c[1][1] = w THEN {} ELSE cell[c]]
  /\ sent' = [sent EXCEPT ![w] = NoRequest]
  /\ UNCHANGED delivered

(* The queue gives a key to one worker at a time.                          *)
Get(w, k) ==
  /\ pc[w] = "idle" /\ Found(k)
  /\ \A u \in Workers : held[u][KindOf(k)] # Nil => held[u][KindOf(k)][1] # k
  /\ Hold(w, k)
  /\ UNCHANGED <<delivered, memory, sent>>

GetTask(w, k) == k \in Tasks /\ Get(w, k) /\ Goto(w, "task")

(* To give the Task to a Pod, or to see that it has ended in its Pod.      *)
GetPod(w, k) ==
  /\ pc[w] = "task" /\ Found(k)
  /\ Hold(w, k)
  /\ Goto(w, "append") \/ Goto(w, "finished")
  /\ UNCHANGED <<delivered, memory, sent>>

(* The Pod's list of containers is longer by one, in an array of its own.  *)
appendTaskContainer(w) ==
  LET in == held[w]["Pod"]
      out == CopyOf(w, "Pod") IN
  /\ pc[w] = "append"
  /\ refs' = [refs EXCEPT ![out] = [CopiedRefs(in, out, "Pod") EXCEPT
                                      !["containers"] = <<out, "containers">>]]
  /\ cell' = [CopiedCell(in, out) EXCEPT
                ![<<out, "containers">>] = Pointed(in, "containers") \cup {held[w]["Task"]}]
  /\ status' = [status EXCEPT ![out] = status[in]]
  /\ Goto(w, "patch")
  /\ UNCHANGED <<delivered, held, sent>>

(* The patch is what the copy has more than the original; the container's  *)
(* command and arguments are still those of the cached Task.               *)
patchPodEphemeralContainers(w) ==
  /\ pc[w] = "patch"
  /\ sent' = [sent EXCEPT ![w] =
       [NoRequest EXCEPT
          !["containers"] = Pointed(CopyOf(w, "Pod"), "containers")
                            \ Pointed(held[w]["Pod"], "containers"),
          !["command"] = Pointed(held[w]["Task"], "command"),
          !["args"] = Pointed(held[w]["Task"], "args")]]
  /\ Goto(w, "running")
  /\ UNCHANGED <<delivered, memory, held>>

(* A copy with an assigned status.                                         *)
Mark(w, kind, state) ==
  LET in == held[w][kind]
      out == CopyOf(w, kind) IN
  /\ refs' = [refs EXCEPT ![out] = CopiedRefs(in, out, kind)]
  /\ cell' = CopiedCell(in, out)
  /\ status' = [status EXCEPT ![out] = status[in] \cup {state}]
  /\ Goto(w, "update")
  /\ UNCHANGED <<delivered, held, sent>>

markTaskRunning(w) == pc[w] = "running" /\ Mark(w, "Task", held[w]["Pod"])

markTaskFinished(w) == pc[w] = "finished" /\ Mark(w, "Task", Finished)

KindFor(w) == IF w \in TaskWorkers THEN "Task" ELSE "TaskCluster"

(* The copy is written out, all of it.                                     *)
UpdateStatus(w) ==
  LET copied == CopyOf(w, KindFor(w)) IN
  /\ pc[w] = "update"
  /\ sent' = [sent EXCEPT ![w] = [f \in Fields \cup {"status"} |->
                IF f = "status" THEN status[copied] ELSE Pointed(copied, f)]]
  /\ UNCHANGED <<delivered, memory, pc, held>>

GetTaskCluster(w, k) == k \in TaskClusters /\ Get(w, k) /\ Goto(w, "cluster")

(* The Deployment shares the replica count with the cached TaskCluster.    *)
newDeployment(w) ==
  /\ pc[w] = "cluster"
  /\ refs' = [refs EXCEPT ![<<w, "Deployment">>]["replicas"] =
                            refs[held[w]["TaskCluster"]]["replicas"]]
  /\ Goto(w, "deployment")
  /\ UNCHANGED <<delivered, status, cell, held, sent>>

(* Create or Update.                                                       *)
SendDeployment(w) ==
  /\ pc[w] = "deployment"
  /\ sent' = [sent EXCEPT ![w] =
       [NoRequest EXCEPT !["replicas"] = Pointed(<<w, "Deployment">>, "replicas")]]
  /\ Goto(w, "available")
  /\ UNCHANGED <<delivered, memory, held>>

(* From "cluster" where the Deployment is as it should be.                 *)
updateTaskClusterStatus(w) ==
  pc[w] \in {"cluster", "available"} /\ Mark(w, "TaskCluster", Available)

-----------------------------------------------------------------------------
TaskStep(w) ==
  \/ \E k \in Tasks : GetTask(w, k)
  \/ \E k \in Pods : GetPod(w, k)
  \/ appendTaskContainer(w) \/ patchPodEphemeralContainers(w)
  \/ markTaskRunning(w) \/ markTaskFinished(w) \/ UpdateStatus(w) \/ Return(w)

ClusterStep(w) ==
  \/ \E k \in TaskClusters : GetTaskCluster(w, k)
  \/ newDeployment(w) \/ SendDeployment(w)
  \/ updateTaskClusterStatus(w) \/ UpdateStatus(w) \/ Return(w)

Next ==
  \/ \E k \in Keys : Deliver(k)
  \/ \E w \in TaskWorkers : TaskStep(w)
  \/ \E w \in ClusterWorkers : ClusterStep(w)

Spec == Init /\ [][Next]_vars

-----------------------------------------------------------------------------
IsDelivered(o) == o[2] <= delivered[o[1]]

(* What readers of object o find behind their pointer to it.               *)
Content(o) == [f \in Fields \cup {"status"} |->
                 IF f = "status" THEN status[o] ELSE Pointed(o, f)]

(* An object that was in the cache never changes in place, whoever still   *)
(* has a pointer to it and whatever the others do with theirs.             *)
CachedIsReadOnly ==
  [][\A o \in Published : IsDelivered(o) => Content(o)' = Content(o)]_vars

(* A worker's copy shares no cell with another object: neither with the    *)
(* one it was made from nor with another worker's.                         *)
CopiesArePrivate ==
  \A o \in Copies, u \in Objects, f \in Fields, g \in Fields :
    refs[o][f] # Nil /\ refs[o][f] = refs[u][g] => o = u

(* What a worker sends is of the version it decided on, all of it, with    *)
(* its own change and no other: never a mixture of versions, never another *)
(* worker's container, never an empty patch.                               *)
Whole(w) ==
  LET o == held[w][KindFor(w)]
      change == IF w \in ClusterWorkers THEN {Available} ELSE {Finished, held[w]["Pod"]} IN
  \E s \in change : sent[w] = [Content(o) EXCEPT !["status"] = {o, s}]

(* The patch adds the one container, with the Task's command.              *)
OneContainer(w) ==
  LET o == held[w]["Task"] IN
  sent[w] = [NoRequest EXCEPT !["containers"] = {o}, !["command"] = Content(o)["command"],
                              !["args"] = Content(o)["args"]]

RequestsAreWhole ==
  \A w \in Workers : sent[w] # NoRequest =>
    \/ Whole(w)
    \/ w \in TaskWorkers /\ OneContainer(w)
    \/ w \in ClusterWorkers /\ sent[w] =
         [NoRequest EXCEPT !["replicas"] = Content(held[w]["TaskCluster"])["replicas"]]

=============================================================================
