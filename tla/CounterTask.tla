---------------------------- MODULE CounterTask ----------------------------
(***************************************************************************)
(* The counter demo on the platform it runs on.  The program of a Task     *)
(* reads a count and a limit from the Task's input object and, below the   *)
(* limit, creates an output object with the next count and the next Task   *)
(* with that object as its input.  The platform is what TaskLifecycle      *)
(* promises: a Task may be run more than once, and it is finished when a   *)
(* container of it has ended, whatever the program's exit code was.        *)
(***************************************************************************)
EXTENDS Integers, FiniteSets, FiniteSetsExt

CONSTANTS
  MaxTask,    \* bound: number of the last Task name, "task-<MaxTask>"
  Inputs,     \* what the user's input object may hold
  Malformed,  \* a value that is missing or no integer
  Pods, NoPod,
  MaxReruns,  \* bound: runs of Tasks that were run before
  MaxFaults   \* bound: failing calls, lost answers, crashes, deleted Tasks

Tasks == 0..MaxTask

(* Objects go by the number of the Task whose output they are.             *)
input == -1
ObjectNames == {input} \cup Tasks

Value == Tasks \cup {Malformed}  \* enough while counts stay within limits
Data == [count: Value, limit: Value]
NoData == [count |-> Malformed, limit |-> Malformed, absent |-> TRUE]

WellFormed(data) == data.count # Malformed /\ data.limit # Malformed

ASSUME InputsAssumption ==
  /\ MaxTask \in Nat /\ MaxReruns \in Nat /\ MaxFaults \in Nat /\ Malformed \notin Int
  /\ Inputs \subseteq Data

VARIABLES
  status, launched, ended,  \* of TaskLifecycle
  inputObject,              \* of every Task: spec.inputObject
  objects,                  \* TaskObjects, NoData where there is none
  pc, self,                 \* of every container: where its program is, and what it parsed
  faults

platformVars == <<status, launched, ended>>
vars == <<platformVars, inputObject, objects, pc, self, faults>>

Platform == INSTANCE TaskLifecycle

Containers == Pods \X Tasks
Running == {"taskDefinition", "taskInput", "createObject", "createTask"}

TypeOK ==
  /\ status \in [Tasks -> [uid: Nat, exists: BOOLEAN, podName: Pods \cup {NoPod},
                           state: {"New", "Running", "Finished"}]]
  /\ launched \subseteq Containers /\ ended \subseteq launched
  /\ inputObject \in [Tasks -> ObjectNames]
  /\ objects \in [ObjectNames -> Data \cup {NoData}]
  /\ pc \in [Containers -> Running \cup {"none", "exited"}]
  /\ self \in [Containers -> [count: Tasks, limit: Tasks]]
  /\ faults \in 0..MaxFaults

(* The user has created the input object and task-0.                       *)
Init ==
  /\ status = [n \in Tasks |-> IF n = 0 THEN [Platform!Unborn EXCEPT !.uid = 1, !.exists = TRUE]
                               ELSE Platform!Unborn]
  /\ launched = {} /\ ended = {}
  /\ inputObject = [n \in Tasks |-> input]
  /\ \E data \in Inputs :
       objects = [o \in ObjectNames |-> IF o = input THEN data ELSE NoData]
  /\ pc = [r \in Containers |-> "none"]
  /\ self = [r \in Containers |-> [count |-> 0, limit |-> 0]]
  /\ faults = 0

Fault == faults < MaxFaults /\ faults' = faults + 1

-----------------------------------------------------------------------------
(* The platform.                                                           *)

Run(n) == \E p \in Pods : <<p, n>> \in launched

Reruns == Cardinality(launched) - Cardinality({n \in Tasks : Run(n)})

Launch(p, n) ==
  /\ <<p, n>> \notin launched /\ (Run(n) => Reruns < MaxReruns)
  /\ Platform!Launch(p, n)
  /\ pc' = [pc EXCEPT ![<<p, n>>] = "taskDefinition"]
  /\ UNCHANGED <<inputObject, objects, self, faults>>

End(p, n) ==
  /\ pc[<<p, n>>] = "exited" /\ <<p, n>> \notin ended
  /\ Platform!End(p, n)
  /\ UNCHANGED <<inputObject, objects, pc, self, faults>>

Settle(n) ==
  /\ Platform!Finish(n) \/ \E p \in Pods : Platform!Bind(p, n)
  /\ UNCHANGED <<inputObject, objects, pc, self, faults>>

Delete(n) ==
  /\ Fault
  /\ Platform!Delete(n)
  /\ UNCHANGED <<inputObject, objects, pc, self>>

-----------------------------------------------------------------------------
(* The program, in container r of Task r[2].  log.Fatalf ends it like a    *)
(* return: nothing looks at the exit code.                                 *)

Goto(r, label) == pc' = [pc EXCEPT ![r] = label]

taskDefinition(r) ==
  /\ pc[r] = "taskDefinition"
  /\ Goto(r, IF status[r[2]].exists THEN "taskInput" ELSE "exited")
  /\ UNCHANGED <<platformVars, inputObject, objects, self, faults>>

PastLimit(count, limit) == count > limit  \* mutant: off by one

AtLimit(count, limit) == count >= limit

(* taskInput, parseInput and the test in main.                             *)
taskInput(r) ==
  LET data == objects[inputObject[r[2]]] IN
  /\ pc[r] = "taskInput"
  /\ IF WellFormed(data) /\ ~AtLimit(data.count, data.limit)
     THEN Goto(r, "createObject") /\ self' = [self EXCEPT ![r] = data]
     ELSE Goto(r, "exited") /\ UNCHANGED self
  /\ UNCHANGED <<platformVars, inputObject, objects, faults>>

OldName(count) == count - 1  \* mutant: named for the count that was read

(* The number of the next Task, createNextTask's count being self.count+1. *)
NextName(count) == count

TolerateExisting(n) == TRUE  \* mutant: AlreadyExists taken for success

Creatable(n) == objects[n] = NoData

(* createNextTask up to the first Create.  A lost answer looks like a      *)
(* failure.                                                                *)
createObject(r) ==
  /\ pc[r] = "createObject"
  /\ IF Creatable(r[2])
     THEN /\ objects' = [objects EXCEPT ![r[2]] =
                           [count |-> self[r].count + 1, limit |-> self[r].limit]]
          /\ \/ Goto(r, "createTask") /\ UNCHANGED faults
             \/ Goto(r, "exited") /\ Fault
     ELSE Goto(r, "exited") /\ UNCHANGED <<objects, faults>>
  /\ UNCHANGED <<platformVars, inputObject, self>>

createTask(r) ==
  LET next == NextName(self[r].count + 1) IN
  /\ pc[r] = "createTask"
  /\ IF status[next].exists
     THEN UNCHANGED <<platformVars, inputObject>>
     ELSE /\ Platform!Create(next)
          /\ inputObject' = [inputObject EXCEPT ![next] = r[2]]
  /\ Goto(r, "exited")
  /\ UNCHANGED <<objects, self, faults>>

(* A call fails, or the container is killed: the program goes no further.  *)
Die(r) ==
  /\ pc[r] \in Running
  /\ Fault
  /\ Goto(r, "exited")
  /\ UNCHANGED <<platformVars, inputObject, objects, self>>

Program(r) == taskDefinition(r) \/ taskInput(r) \/ createObject(r) \/ createTask(r)

-----------------------------------------------------------------------------
Next ==
  \/ \E n \in Tasks : Settle(n) \/ Delete(n) \/ \E p \in Pods : Launch(p, n) \/ End(p, n)
  \/ \E r \in Containers : Program(r) \/ Die(r)

Spec == Init /\ [][Next]_vars

(* The Task controller sees that every Task is run once, not that it is    *)
(* run again; containers run and their end is noticed.  All of it is of    *)
(* bounded length, so it is enough that something which can go on does.    *)
Progress ==
  \/ \E n \in Tasks :
       \/ Settle(n)
       \/ ~Run(n) /\ \E p \in Pods : Launch(p, n)
  \/ \E r \in Containers : Program(r) \/ End(r[1], r[2])

FairSpec == Spec /\ WF_vars(Progress)

-----------------------------------------------------------------------------
Start == IF WellFormed(objects[input]) THEN objects[input].count ELSE 0
Limit == IF WellFormed(objects[input]) THEN objects[input].limit ELSE 0

Outputs == {n \in Tasks : objects[n] # NoData}
Reached == Max({Start} \cup {objects[n].count : n \in Outputs})

(* However often Tasks are run, fail or die half way, the counts that the  *)
(* output objects hold go up by ones, and never past the limit.            *)
Counter == INSTANCE Counting WITH count <- Reached, limit <- Limit
CountsUp == Counter!Spec

Born(n) == status[n].uid > 0

(* The chain does not fork, and no Task is created before its input is     *)
(* there or a second time after a user deleted it: every Task but the      *)
(* first is the only one to take the output of another, which names it.    *)
ChainIsSimple ==
  \A n \in Tasks \ {0} : Born(n) =>
    /\ status[n].uid = 1
    /\ inputObject[n] \in Outputs /\ objects[inputObject[n]].count = n
    /\ \A m \in Tasks : Born(m) /\ inputObject[m] = inputObject[n] => m = n

(* An output was created and whoever created it is gone before the Task.   *)
Lost(n) ==
  /\ n \in Outputs /\ ~Born(objects[n].count)
  /\ \A p \in Pods : pc[<<p, n>>] # "createTask"

(* Nothing mends a chain that broke between its two calls: a further run   *)
(* finds the output there and gives up.                                    *)
LostStaysLost == [][\A n \in Tasks : Lost(n) => Lost(n)']_vars

(* Unless a fault occurs, and a duplicate run is not a fault, the limit is *)
(* reached and every Task ends as Finished.                                *)
ChainReachesLimit ==
  <>[](\/ faults > 0 \/ ~WellFormed(objects[input])
       \/ /\ Reached >= Limit
          /\ \A n \in Tasks : Born(n) => status[n].state = "Finished")

=============================================================================
