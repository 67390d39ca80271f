------------------------- MODULE CounterTaskProofs -------------------------
(* Proofs about CounterTask, for any limit, any number of Pods, of runs    *)
(* and of faults: the chain is simple, its counts go up by ones, and what  *)
(* is lost stays lost.                                                     *)
EXTENDS CounterTask, TLAPS

-----------------------------------------------------------------------------
(* The inductive invariant.                                                *)

(* The count that Task n reads from its input.                             *)
Count(n) == IF n = 0 THEN Start ELSE n

CanGoOn(n) == WellFormed(objects[input]) /\ Count(n) < Limit

(* A program past its reads has read right, and one between its two calls  *)
(* is alone there, with the next Task still to be created.                 *)
RunInv ==
  \A r \in Containers :
    /\ pc[r] # "none" => Born(r[2])
    /\ pc[r] \in {"createObject", "createTask"} =>
         CanGoOn(r[2]) /\ self[r].count = Count(r[2]) /\ self[r].limit = Limit
    /\ pc[r] = "createTask" =>
         /\ r[2] \in Outputs /\ ~Born(Count(r[2]) + 1)
         /\ \A s \in Containers : pc[s] = "createTask" /\ s[2] = r[2] => s = r

OutputInv ==
  /\ objects[input] \in Data
  /\ \A n \in Outputs :
       /\ CanGoOn(n) /\ Born(n)
       /\ objects[n].count = Count(n) + 1 /\ objects[n].limit = Limit

(* Tasks but the first have numbers past the start, so that no two Tasks   *)
(* read the same count.                                                    *)
BornInv ==
  /\ inputObject[0] = input
  /\ \A n \in Tasks : status[n].exists => Born(n)
  /\ \A n \in Tasks \ {0} : Born(n) =>
       /\ status[n].uid = 1 /\ n > Start
       /\ inputObject[n] \in Outputs /\ Count(inputObject[n]) + 1 = n

(* v is the highest count: a Task without output has read it, and every    *)
(* output below it has been taken by a Task.                               *)
Top(v) ==
  /\ v = Start \/ \E n \in Outputs : v = Count(n) + 1
  /\ v >= Start /\ \A n \in Outputs : Count(n) + 1 <= v
  /\ \A n \in Tasks : Born(n) /\ n \notin Outputs => Count(n) = v
  /\ \A n \in Outputs : Count(n) + 1 < v => Born(Count(n) + 1)

TopInv == \E v \in Nat : Top(v)

IInv == TypeOK /\ RunInv /\ OutputInv /\ BornInv /\ TopInv

-----------------------------------------------------------------------------
(* What follows from it at once.                                           *)

LEMMA Numbers ==
  ASSUME OutputInv
  PROVE  /\ Start \in Tasks /\ Limit \in Tasks /\ Tasks \subseteq Nat
         /\ 0 \in Tasks /\ \A n \in Tasks : Count(n) \in Tasks
         /\ \A n \in Tasks : CanGoOn(n) => Count(n) + 1 \in Tasks
<1>1. Tasks \subseteq Nat /\ 0 \in Tasks
  BY InputsAssumption DEF Tasks
<1>2. objects[input].count \in Tasks \cup {Malformed} /\ objects[input].limit \in Tasks \cup {Malformed}
  BY DEF OutputInv, Data, Value
<1>3. Start \in Tasks /\ Limit \in Tasks
  BY <1>1, <1>2 DEF Start, Limit, WellFormed
<1>4. \A n \in Tasks : Count(n) \in Tasks
  BY <1>1, <1>3 DEF Count
<1>5. \A k \in Tasks : k < Limit => k + 1 \in Tasks
  BY <1>3, InputsAssumption DEF Tasks
<1> QED  BY <1>1, <1>3, <1>4, <1>5 DEF CanGoOn

(* Two Tasks that were ever created have read different counts.            *)
LEMMA CountsDiffer ==
  ASSUME OutputInv, BornInv, NEW m \in Tasks, NEW n \in Tasks, Born(m), Born(n),
         Count(m) = Count(n)
  PROVE  m = n
BY Numbers DEF BornInv, Count

LEMMA InputIsNoOutput == input \notin Tasks /\ Outputs \subseteq Tasks
BY InputsAssumption DEF input, Tasks, Outputs

LEMMA Simple == IInv => ChainIsSimple
<1> SUFFICES ASSUME IInv, NEW n \in Tasks \ {0}, Born(n)
             PROVE  /\ status[n].uid = 1
                    /\ inputObject[n] \in Outputs /\ objects[inputObject[n]].count = n
                    /\ \A m \in Tasks : Born(m) /\ inputObject[m] = inputObject[n] => m = n
  BY DEF ChainIsSimple
<1>1. status[n].uid = 1 /\ inputObject[n] \in Outputs /\ Count(inputObject[n]) + 1 = n
  BY DEF IInv, BornInv
<1>2. objects[inputObject[n]].count = n
  BY <1>1 DEF IInv, OutputInv
<1>3. ASSUME NEW m \in Tasks, Born(m), inputObject[m] = inputObject[n]  PROVE m = n
  <2>1. m # 0
    BY <1>1, <1>3, InputIsNoOutput DEF IInv, BornInv
  <2> QED
    BY <1>1, <1>3, <2>1 DEF IInv, BornInv
<1> QED  BY <1>1, <1>2, <1>3

LEMMA MaxIs ==
  ASSUME NEW S, NEW v \in S, \A x \in S : x \in Nat /\ v >= x
  PROVE  Max(S) = v
<1>1. \A x \in S : (\A y \in S : x >= y) => x = v
  OBVIOUS
<1> QED  BY <1>1 DEF Max

LEMMA TopIsReached ==
  ASSUME OutputInv, NEW v \in Nat, Top(v)
  PROVE  Reached = v
<1> DEFINE S == {Start} \cup {objects[n].count : n \in Outputs}
<1>1. v \in S
  BY DEF Top, OutputInv
<1>2. \A x \in S : x \in Nat /\ v >= x
  BY Numbers, InputIsNoOutput DEF Top, OutputInv
<1> HIDE DEF S
<1>3. Max(S) = v
  BY <1>1, <1>2, MaxIs
<1> QED  BY <1>3 DEF Reached, S

-----------------------------------------------------------------------------
LEMMA InitIInv == Init => IInv
<1> SUFFICES ASSUME Init  PROVE IInv
  OBVIOUS
<1>1. Tasks \subseteq Nat /\ 0 \in Tasks /\ input \notin Tasks
  BY InputsAssumption DEF Tasks, input
<1>2. Outputs = {} /\ objects[input] \in Inputs
  BY <1>1 DEF Init, Outputs, ObjectNames
<1>3. objects[input] \in Data
  BY <1>2, InputsAssumption
<1>4. \A n \in Tasks : (Born(n) <=> n = 0) /\ (status[n].exists <=> n = 0)
  BY <1>1 DEF Init, Born, Platform!Unborn
<1>5. TypeOK
  <2>1. status \in [Tasks -> [uid: Nat, exists: BOOLEAN, podName: Pods \cup {NoPod},
                              state: {"New", "Running", "Finished"}]]
    BY DEF Init, Platform!Unborn
  <2>2. objects \in [ObjectNames -> Data \cup {NoData}]
    BY InputsAssumption DEF Init
  <2>3. self \in [Containers -> [count: Tasks, limit: Tasks]]
    BY <1>1 DEF Init
  <2>4. faults \in 0..MaxFaults
    BY InputsAssumption DEF Init
  <2> QED
    BY <2>1, <2>2, <2>3, <2>4 DEF Init, TypeOK, ObjectNames
<1>6. RunInv /\ OutputInv
  BY <1>2, <1>3 DEF Init, RunInv, OutputInv
<1>7. BornInv
  BY <1>1, <1>4 DEF Init, BornInv
<1>8. TopInv
  <2>1. Start \in Nat
    BY <1>1, <1>6, Numbers
  <2>2. Top(Start)
    BY <1>2, <1>4, <2>1 DEF Top, Count
  <2> QED  BY <2>1, <2>2 DEF TopInv
<1> QED  BY <1>5, <1>6, <1>7, <1>8 DEF IInv

-----------------------------------------------------------------------------
(* Steps that create nothing.                                              *)

StatusType ==
  [uid: Nat, exists: BOOLEAN, podName: Pods \cup {NoPod},
   state: {"New", "Running", "Finished"}]

(* No Task is born in a step that leaves the uids alone.                   *)
NoneBorn ==
  \A n \in Tasks : status'[n].uid = status[n].uid /\ (status'[n].exists => status[n].exists)

LEMMA Quiet ==
  ASSUME IInv, UNCHANGED <<objects, inputObject>>, NoneBorn
  PROVE  OutputInv' /\ BornInv' /\ TopInv'
<1>1. Start' = Start /\ Limit' = Limit /\ Outputs' = Outputs
  BY DEF Start, Limit, Outputs
<1>2. \A n \in Tasks : Born(n)' <=> Born(n)
  BY DEF NoneBorn, Born
<1>3. OutputInv'
  BY <1>1, <1>2, InputIsNoOutput DEF IInv, OutputInv, CanGoOn, Count
<1>4. BornInv'
  BY <1>1, <1>2 DEF NoneBorn, IInv, BornInv, Count
<1>5. ASSUME NEW v \in Nat, Top(v)  PROVE Top(v)'
  <2>1. \A n \in Outputs : Count(n) + 1 < v => Count(n) + 1 \in Tasks
    BY Numbers, InputIsNoOutput DEF IInv, OutputInv
  <2> QED
    BY <1>1, <1>2, <1>5, <2>1 DEF Top, Count
<1> QED  BY <1>3, <1>4, <1>5 DEF IInv, TopInv

(* Programs that stay where they are, end, or come to their first reads.   *)
LEMMA RunQuiet ==
  ASSUME IInv, UNCHANGED <<objects, inputObject>>, NoneBorn,
         \A r \in Containers :
           \/ pc'[r] = pc[r] /\ self'[r] = self[r]
           \/ pc'[r] \in {"exited", "taskDefinition", "taskInput"} /\ Born(r[2])
  PROVE  RunInv'
<1>1. Start' = Start /\ Limit' = Limit /\ Outputs' = Outputs
  BY DEF Start, Limit, Outputs
<1>2. \A n \in Tasks : Born(n)' <=> Born(n)
  BY DEF NoneBorn, Born
<1>3. SUFFICES ASSUME NEW r \in Containers
               PROVE  /\ pc'[r] # "none" => Born(r[2])'
                      /\ pc'[r] \in {"createObject", "createTask"} =>
                           CanGoOn(r[2])' /\ self'[r].count = Count(r[2])' /\ self'[r].limit = Limit'
                      /\ pc'[r] = "createTask" =>
                           /\ r[2] \in Outputs' /\ ~(Born(Count(r[2]) + 1)')
                           /\ \A s \in Containers :
                                pc'[s] = "createTask" /\ s[2] = r[2] => s = r
  BY DEF RunInv
<1>4. r[2] \in Tasks
  BY DEF Containers
<1>5. pc[r] = "createTask" => Count(r[2]) + 1 \in Tasks
  BY <1>4, Numbers DEF IInv, RunInv
<1>6. CASE pc'[r] = pc[r] /\ self'[r] = self[r]
  <2>1. pc'[r] # "none" => Born(r[2])'
    BY <1>2, <1>4, <1>6 DEF IInv, RunInv
  <2>2. pc'[r] \in {"createObject", "createTask"} =>
          CanGoOn(r[2])' /\ self'[r].count = Count(r[2])' /\ self'[r].limit = Limit'
    BY <1>1, <1>6 DEF IInv, RunInv, CanGoOn, Count
  <2>3. pc'[r] = "createTask" => r[2] \in Outputs' /\ ~(Born(Count(r[2]) + 1)')
    BY <1>1, <1>2, <1>5, <1>6 DEF IInv, RunInv, Count
  <2>4. ASSUME pc'[r] = "createTask", NEW s \in Containers, pc'[s] = "createTask", s[2] = r[2]
        PROVE  s = r
    BY <2>4, <1>6 DEF IInv, RunInv
  <2> QED  BY <2>1, <2>2, <2>3, <2>4
<1>7. CASE pc'[r] \in {"exited", "taskDefinition", "taskInput"} /\ Born(r[2])
  BY <1>2, <1>4, <1>7
<1> QED  BY <1>6, <1>7

LEMMA LaunchIInv ==
  ASSUME IInv, NEW p \in Pods, NEW n \in Tasks, Launch(p, n)
  PROVE  IInv'
<1>1. /\ pc' = [pc EXCEPT ![<<p, n>>] = "taskDefinition"] /\ Born(n)
      /\ launched' = launched \cup {<<p, n>>}
      /\ UNCHANGED <<status, ended, inputObject, objects, self, faults>>
  BY DEF Launch, Platform!Launch, Born
<1>2. NoneBorn
  BY <1>1 DEF NoneBorn
<1>3. TypeOK'
  BY <1>1 DEF IInv, TypeOK, Containers, Running
<1>4. RunInv'
  BY <1>1, <1>2, RunQuiet DEF IInv, TypeOK
<1> QED  BY <1>1, <1>2, <1>3, <1>4, Quiet DEF IInv

LEMMA EndIInv ==
  ASSUME IInv, NEW p \in Pods, NEW n \in Tasks, End(p, n)
  PROVE  IInv'
<1>1. /\ <<p, n>> \in launched /\ ended' = ended \cup {<<p, n>>}
      /\ UNCHANGED <<status, launched, inputObject, objects, pc, self, faults>>
  BY DEF End, Platform!End
<1>2. NoneBorn
  BY <1>1 DEF NoneBorn
<1>3. TypeOK'
  BY <1>1 DEF IInv, TypeOK
<1>4. RunInv'
  BY <1>1, <1>2, RunQuiet
<1> QED  BY <1>1, <1>2, <1>3, <1>4, Quiet DEF IInv

(* A Task is bound, finished or deleted.                                   *)
LEMMA StatusQuiet ==
  ASSUME IInv, NEW n \in Tasks, Settle(n) \/ Delete(n)
  PROVE  /\ UNCHANGED <<launched, ended, inputObject, objects, pc, self>>
         /\ status' \in [Tasks -> StatusType] /\ NoneBorn
<1>1. UNCHANGED <<launched, ended, inputObject, objects, pc, self>>
  BY DEF Settle, Delete, Platform!Finish, Platform!Bind, Platform!Delete
<1>2. status \in [Tasks -> StatusType]
  BY DEF IInv, TypeOK, StatusType
<1>3. ASSUME Platform!Finish(n)  PROVE status' \in [Tasks -> StatusType] /\ NoneBorn
  BY <1>2, <1>3 DEF Platform!Finish, StatusType, NoneBorn
<1>4. ASSUME NEW p \in Pods, Platform!Bind(p, n)
      PROVE  status' \in [Tasks -> StatusType] /\ NoneBorn
  BY <1>2, <1>4 DEF Platform!Bind, StatusType, NoneBorn
<1>5. ASSUME Platform!Delete(n)  PROVE status' \in [Tasks -> StatusType] /\ NoneBorn
  BY <1>2, <1>5 DEF Platform!Delete, Platform!Unborn, StatusType, NoneBorn
<1> QED  BY <1>1, <1>3, <1>4, <1>5 DEF Settle, Delete

LEMMA StatusIInv ==
  ASSUME IInv, NEW n \in Tasks, Settle(n) \/ Delete(n)
  PROVE  IInv'
<1>1. /\ UNCHANGED <<launched, ended, inputObject, objects, pc, self>>
      /\ status' \in [Tasks -> StatusType] /\ NoneBorn
  BY StatusQuiet
<1>2. faults' \in 0..MaxFaults
  BY InputsAssumption DEF Settle, Delete, Fault, IInv, TypeOK
<1>3. TypeOK'
  BY <1>1, <1>2 DEF IInv, TypeOK, StatusType
<1>4. RunInv'
  BY <1>1, RunQuiet
<1> QED  BY <1>1, <1>3, <1>4, Quiet DEF IInv

(* The program goes on to its next read, or ends early.                    *)
LEMMA ReadIInv ==
  ASSUME IInv, NEW r \in Containers, taskDefinition(r) \/ Die(r)
  PROVE  IInv'
<1>1. /\ UNCHANGED <<status, launched, ended, inputObject, objects, self>>
      /\ pc[r] \in Running
      /\ pc' = [pc EXCEPT ![r] = "taskInput"] \/ pc' = [pc EXCEPT ![r] = "exited"]
  BY DEF taskDefinition, Die, Goto, platformVars, Running
<1>2. NoneBorn
  BY <1>1 DEF NoneBorn
<1>3. faults' \in 0..MaxFaults
  BY InputsAssumption DEF taskDefinition, Die, Fault, IInv, TypeOK
<1>4. TypeOK'
  BY <1>1, <1>3 DEF IInv, TypeOK, Running
<1>5. RunInv'
  BY <1>1, <1>2, RunQuiet DEF IInv, TypeOK, RunInv, Running
<1> QED  BY <1>1, <1>2, <1>4, <1>5, Quiet DEF IInv

LEMMA InputIInv ==
  ASSUME IInv, NEW r \in Containers, taskInput(r)
  PROVE  IInv'
<1> DEFINE n == r[2]
           data == objects[inputObject[n]]
<1>1. n \in Tasks /\ Born(n)
  BY DEF taskInput, Containers, IInv, RunInv
<1>2. UNCHANGED <<status, launched, ended, inputObject, objects, faults>>
  BY DEF taskInput, platformVars
<1>3. NoneBorn
  BY <1>2 DEF NoneBorn
<1>4. CASE WellFormed(data) /\ ~AtLimit(data.count, data.limit)
  <2>1. pc' = [pc EXCEPT ![r] = "createObject"] /\ self' = [self EXCEPT ![r] = data]
    BY <1>4 DEF taskInput, Goto
  <2>2. data \in Data
    BY <1>1, <1>4 DEF IInv, TypeOK, WellFormed, NoData
  <2>3. data.count = Count(n) /\ data.limit = Limit /\ WellFormed(objects[input])
    <3>1. CASE n = 0
      <4>1. data = objects[input]
        BY <3>1 DEF IInv, BornInv
      <4> QED
        BY <1>4, <3>1, <4>1 DEF Count, Start, Limit
    <3>2. CASE n # 0
      <4>1. inputObject[n] \in Outputs /\ Count(inputObject[n]) + 1 = n
        BY <1>1, <3>2 DEF IInv, BornInv
      <4> QED
        BY <3>2, <4>1 DEF IInv, OutputInv, CanGoOn, Count
    <3> QED  BY <3>1, <3>2
  <2>4. CanGoOn(n)
    BY <1>1, <1>4, <2>3, Numbers DEF CanGoOn, AtLimit, IInv
  <2>5. data.count \in Tasks /\ data.limit \in Tasks
    BY <1>1, <2>3, Numbers DEF IInv
  <2>6. TypeOK'
    <3>1. data \in [count: Tasks, limit: Tasks]
      BY <2>2, <2>5 DEF Data
    <3> HIDE DEF data
    <3> QED
      BY <1>2, <2>1, <3>1 DEF IInv, TypeOK, Running
  <2>7. RunInv'
    <3> HIDE DEF data
    <3>1. Start' = Start /\ Limit' = Limit /\ Outputs' = Outputs
      BY <1>2 DEF Start, Limit, Outputs
    <3>2. \A m \in Tasks : Born(m)' <=> Born(m)
      BY <1>2 DEF Born
    <3>3. SUFFICES ASSUME NEW s \in Containers
                   PROVE  /\ pc'[s] # "none" => Born(s[2])'
                          /\ pc'[s] \in {"createObject", "createTask"} =>
                               /\ CanGoOn(s[2])' /\ self'[s].count = Count(s[2])'
                               /\ self'[s].limit = Limit'
                          /\ pc'[s] = "createTask" =>
                               /\ s[2] \in Outputs' /\ ~(Born(Count(s[2]) + 1)')
                               /\ \A u \in Containers :
                                    pc'[u] = "createTask" /\ u[2] = s[2] => u = s
      BY DEF RunInv
    <3>4. CASE s = r
      <4>1. pc'[s] = "createObject" /\ self'[s] = data
        BY <2>1, <3>4 DEF IInv, TypeOK
      <4> QED
        BY <1>1, <1>2, <2>3, <2>4, <3>1, <3>2, <3>4, <4>1 DEF CanGoOn, Count
    <3>5. CASE s # r
      <4>1. pc'[s] = pc[s] /\ self'[s] = self[s]
        BY <2>1, <3>5 DEF IInv, TypeOK
      <4>2. \A u \in Containers : pc'[u] = "createTask" => pc[u] = "createTask"
        BY <2>1 DEF IInv, TypeOK
      <4>3. s[2] \in Tasks /\ (pc[s] = "createTask" => Count(s[2]) + 1 \in Tasks)
        BY Numbers DEF Containers, IInv, RunInv
      <4> QED
        BY <1>2, <3>1, <3>2, <4>1, <4>2, <4>3 DEF IInv, RunInv, CanGoOn, Count
    <3> QED  BY <3>4, <3>5
  <2> QED  BY <1>2, <1>3, <2>6, <2>7, Quiet DEF IInv
<1>5. CASE ~(WellFormed(data) /\ ~AtLimit(data.count, data.limit))
  <2>1. pc' = [pc EXCEPT ![r] = "exited"] /\ self' = self
    BY <1>5 DEF taskInput, Goto
  <2>2. TypeOK'
    BY <1>2, <2>1 DEF IInv, TypeOK
  <2>3. RunInv'
    BY <1>1, <1>2, <1>3, <2>1, RunQuiet DEF IInv, TypeOK
  <2> QED  BY <1>2, <1>3, <2>2, <2>3, Quiet DEF IInv
<1> QED  BY <1>4, <1>5

-----------------------------------------------------------------------------
(* The first Create.                                                       *)

(* Where the output is created, its Task has read the highest count.       *)
LEMMA ObjectIInv ==
  ASSUME IInv, NEW r \in Containers, createObject(r)
  PROVE  IInv' /\ (Reached' = Reached \/ (Reached < Limit /\ Reached' = Reached + 1))
<1> DEFINE n == r[2]
           data == [count |-> self[r].count + 1, limit |-> self[r].limit]
<1>1. /\ n \in Tasks /\ Born(n) /\ CanGoOn(n)
      /\ self[r].count = Count(n) /\ self[r].limit = Limit
  BY DEF createObject, Containers, IInv, RunInv
<1>2. UNCHANGED <<status, launched, ended, inputObject, self>>
  BY DEF createObject, platformVars
<1>3. NoneBorn
  BY <1>2 DEF NoneBorn
<1>4. faults' \in 0..MaxFaults
  BY InputsAssumption DEF createObject, Fault, IInv, TypeOK
<1>5. CASE ~Creatable(n)
  <2>1. objects' = objects /\ pc' = [pc EXCEPT ![r] = "exited"]
    BY <1>5 DEF createObject, Goto
  <2>2. TypeOK'
    BY <1>2, <1>4, <2>1 DEF IInv, TypeOK
  <2>3. RunInv'
    BY <1>1, <1>2, <1>3, <2>1, RunQuiet DEF IInv, TypeOK
  <2>4. Reached' = Reached
    BY <2>1 DEF Reached, Start, Outputs
  <2> QED  BY <1>2, <1>3, <2>1, <2>2, <2>3, <2>4, Quiet DEF IInv
<1>6. CASE Creatable(n)
  <2>1. /\ objects' = [objects EXCEPT ![n] = data]
        /\ pc' = [pc EXCEPT ![r] = "createTask"] \/ pc' = [pc EXCEPT ![r] = "exited"]
    BY <1>6 DEF createObject, Goto
  <2>2. Count(n) \in Nat /\ Count(n) + 1 \in Tasks /\ Limit \in Tasks /\ Start \in Tasks
    BY <1>1, Numbers DEF IInv
  <2>3. data \in Data /\ data # NoData /\ data.count = Count(n) + 1 /\ data.limit = Limit
    BY <1>1, <2>2 DEF Data, Value, NoData
  <2> HIDE DEF data
  <2>4. n \notin Outputs /\ Outputs' = Outputs \cup {n} /\ n # input
    <3>1. \A m \in Tasks : objects'[m] = IF m = n THEN data ELSE objects[m]
      BY <2>1 DEF IInv, TypeOK, ObjectNames
    <3> QED
      BY <1>1, <1>6, <2>3, <3>1, InputIsNoOutput DEF Outputs, Creatable
  <2>5. /\ objects'[n] = data
        /\ \A o \in ObjectNames : o # n => objects'[o] = objects[o]
        /\ objects' \in [ObjectNames -> Data \cup {NoData}]
    BY <1>1, <2>1, <2>3 DEF IInv, TypeOK, ObjectNames
  <2>6. Start' = Start /\ Limit' = Limit
    BY <2>4, <2>5 DEF Start, Limit, ObjectNames
  <2>7. \A m \in Tasks : Born(m)' <=> Born(m)
    BY <1>2 DEF Born
  <2>8. ASSUME NEW m \in Tasks, Born(m), Count(m) = Count(n)  PROVE m = n
    BY <1>1, <2>8, CountsDiffer DEF IInv
  <2>9. PICK v \in Nat : Top(v)
    BY DEF IInv, TopInv
  <2>10. Count(n) = v
    BY <1>1, <2>4, <2>9 DEF Top
  <2>11. TypeOK'
    BY <1>2, <1>4, <2>1, <2>5 DEF IInv, TypeOK, Running
  <2>12. OutputInv'
    <3>1. objects'[input] = objects[input]
      BY <2>4, <2>5 DEF ObjectNames
    <3>2. ASSUME NEW m \in Outputs'
          PROVE  /\ CanGoOn(m)' /\ Born(m)'
                 /\ objects'[m].count = Count(m)' + 1 /\ objects'[m].limit = Limit'
      <4>1. CASE m = n
        BY <1>1, <2>3, <2>5, <2>6, <2>7, <3>1, <4>1 DEF CanGoOn, Count
      <4>2. CASE m # n
        <5>1. m \in Outputs /\ m \in Tasks /\ objects'[m] = objects[m]
          BY <2>4, <2>5, <3>2, <4>2, InputIsNoOutput DEF ObjectNames
        <5> QED
          BY <2>6, <2>7, <3>1, <5>1 DEF IInv, OutputInv, CanGoOn, Count
      <4> QED  BY <4>1, <4>2
    <3> QED  BY <3>1, <3>2 DEF IInv, OutputInv
  <2>13. BornInv'
    BY <1>2, <2>4, <2>6, <2>7 DEF IInv, BornInv, Count
  <2>14. Top(v + 1)'
    <3>1. \A m \in Outputs : Count(m) \in Nat /\ Count(m) + 1 \in Tasks
      BY Numbers, InputIsNoOutput DEF IInv, OutputInv
    <3>2. /\ v + 1 = Start' \/ \E m \in Outputs' : v + 1 = Count(m)' + 1
          /\ v + 1 >= Start' /\ \A m \in Outputs' : Count(m)' + 1 <= v + 1
      <4>1. \A m \in Tasks : Count(m)' = Count(m)
        BY <2>6 DEF Count
      <4>2. n \in Outputs' /\ Count(n)' + 1 = v + 1
        BY <1>1, <2>4, <2>10, <4>1
      <4>3. v + 1 >= Start' /\ Start' \in Nat
        BY <2>2, <2>6, <2>9, Numbers DEF IInv, Top
      <4>4. ASSUME NEW m \in Outputs'  PROVE Count(m)' + 1 <= v + 1
        <5>1. CASE m = n
          BY <4>2, <5>1
        <5>2. CASE m # n
          <6>1. m \in Outputs /\ Count(m)' = Count(m) /\ Count(m) + 1 <= v
            BY <2>4, <2>9, <4>1, <4>4, <5>2, InputIsNoOutput DEF Top
          <6> QED  BY <3>1, <6>1
        <5> QED  BY <5>1, <5>2
      <4> QED  BY <4>2, <4>3, <4>4
    <3>3. ASSUME NEW m \in Tasks, Born(m), m \notin Outputs'  PROVE FALSE
      BY <2>4, <2>8, <2>9, <2>10, <3>3 DEF Top
    <3>4. ASSUME NEW m \in Outputs', Count(m)' + 1 < v + 1  PROVE Born(Count(m) + 1)
      <4>1. m \in Outputs /\ Count(m)' = Count(m) /\ Count(n) \in Nat
        BY <2>2, <2>4, <2>6, <2>10, <3>4 DEF Count
      <4>2. CASE Count(m) + 1 < v
        BY <2>9, <4>1, <4>2 DEF Top
      <4>3. CASE Count(m) + 1 = v
        <5>1. n # 0
          <6>1. Count(m) >= Start
            BY <4>1, <2>2, Numbers, InputIsNoOutput DEF IInv, OutputInv, BornInv, Count
          <6> QED
            BY <2>2, <2>10, <3>1, <4>1, <4>3, <6>1 DEF Count
        <5> QED
          BY <1>1, <2>10, <4>3, <5>1 DEF Count
      <4> QED  BY <3>1, <3>4, <4>1, <4>2, <4>3
    <3>5. \A m \in Outputs' : Count(m)' + 1 < v + 1 => Born(Count(m) + 1)'
      BY <2>4, <2>6, <2>7, <3>1, <3>4, <2>2, <2>10 DEF Count
    <3> QED
      BY <2>7, <3>2, <3>3, <3>5 DEF Top
  <2>15. RunInv'
    <3>1. ~Born(Count(n) + 1)
      <4>1. SUFFICES ASSUME Born(Count(n) + 1)  PROVE FALSE
        OBVIOUS
      <4> DEFINE k == Count(n) + 1
      <4>2. k # 0 /\ k \in Tasks
        BY <2>2
      <4>3. inputObject[k] \in Outputs /\ Count(inputObject[k]) + 1 = k
        BY <4>1, <4>2 DEF IInv, BornInv
      <4>4. inputObject[k] \in Tasks /\ Born(inputObject[k]) /\ Count(inputObject[k]) \in Nat
        BY <4>3, Numbers, InputIsNoOutput DEF IInv, OutputInv
      <4>5. Count(inputObject[k]) = Count(n)
        BY <2>2, <4>3, <4>4
      <4> QED  BY <2>4, <2>8, <4>3, <4>4, <4>5
    <3>2. \A s \in Containers : pc[s] = "createTask" => s[2] # n
      BY <2>4 DEF IInv, RunInv
    <3>3. ASSUME NEW s \in Containers
          PROVE  /\ pc'[s] # "none" => Born(s[2])'
                 /\ pc'[s] \in {"createObject", "createTask"} =>
                      /\ CanGoOn(s[2])' /\ self'[s].count = Count(s[2])'
                      /\ self'[s].limit = Limit'
                 /\ pc'[s] = "createTask" =>
                      /\ s[2] \in Outputs' /\ ~(Born(Count(s[2]) + 1)')
                      /\ \A u \in Containers : pc'[u] = "createTask" /\ u[2] = s[2] => u = s
      <4>1. \A u \in Containers : u # r => pc'[u] = pc[u]
        BY <2>1 DEF IInv, TypeOK
      <4>2. pc'[r] \in {"createTask", "exited"} /\ objects'[input] = objects[input]
        BY <2>1, <2>4, <2>5 DEF IInv, TypeOK, ObjectNames
      <4>3. CASE s = r
        BY <1>1, <1>2, <2>2, <2>4, <2>6, <2>7, <3>1, <3>2, <4>1, <4>2, <4>3 DEF CanGoOn, Count
      <4>4. CASE s # r
        <5>1. s[2] \in Tasks /\ (pc[s] = "createTask" => Count(s[2]) + 1 \in Tasks)
          BY Numbers DEF Containers, IInv, RunInv
        <5>2. pc'[s] # "none" => Born(s[2])'
          BY <2>7, <4>1, <4>4, <5>1 DEF IInv, RunInv
        <5>3. pc'[s] \in {"createObject", "createTask"} =>
                CanGoOn(s[2])' /\ self'[s].count = Count(s[2])' /\ self'[s].limit = Limit'
          BY <1>2, <2>6, <4>1, <4>2, <4>4 DEF IInv, RunInv, CanGoOn, Count
        <5>4. pc'[s] = "createTask" => s[2] \in Outputs' /\ ~(Born(Count(s[2]) + 1)')
          BY <2>4, <2>6, <2>7, <4>1, <4>4, <5>1 DEF IInv, RunInv, Count
        <5>5. ASSUME pc'[s] = "createTask", NEW u \in Containers, pc'[u] = "createTask", u[2] = s[2]
              PROVE  u = s
          BY <3>2, <4>1, <4>4, <5>5 DEF IInv, RunInv
        <5> QED  BY <5>2, <5>3, <5>4, <5>5
      <4> QED  BY <4>3, <4>4
    <3> QED  BY <3>3 DEF RunInv
  <2>16. Reached = v /\ Reached' = v + 1 /\ v < Limit
    <3>1. Reached = v
      BY <2>9, TopIsReached DEF IInv
    <3>2. Reached' = v + 1
      <4> DEFINE S == {Start'} \cup {objects'[m].count : m \in Outputs'}
      <4>1. v + 1 \in S
        BY <2>3, <2>4, <2>5, <2>10
      <4>2. \A m \in Outputs : objects'[m].count = Count(m) + 1 /\ Count(m) \in Nat
        BY <2>4, <2>5, Numbers, InputIsNoOutput DEF IInv, OutputInv, ObjectNames
      <4>3. ASSUME NEW x \in S  PROVE x \in Nat /\ v + 1 >= x
        BY <2>2, <2>3, <2>4, <2>5, <2>6, <2>9, <2>10, <4>2, Numbers DEF IInv, Top
      <4> HIDE DEF S
      <4>4. Max(S) = v + 1
        BY <4>1, <4>3, MaxIs
      <4> QED  BY <4>4 DEF Reached, S
    <3> QED  BY <1>1, <2>10, <3>1, <3>2 DEF CanGoOn
  <2> QED
    BY <2>11, <2>12, <2>13, <2>14, <2>15, <2>16 DEF IInv, TopInv
<1> QED  BY <1>5, <1>6

-----------------------------------------------------------------------------
(* The second Create.                                                      *)

LEMMA Newborn ==
  ASSUME NEW k \in Nat
  PROVE  LET new == [Platform!Unborn EXCEPT !.uid = k, !.exists = TRUE] IN
         new \in StatusType /\ new.uid = k
<1>1. Platform!Unborn \in StatusType
  BY DEF Platform!Unborn, StatusType
<1>2. [Platform!Unborn EXCEPT !.uid = k] \in StatusType
  BY <1>1 DEF StatusType
<1> DEFINE u == [Platform!Unborn EXCEPT !.uid = k]
<1>3. u.uid = k
  BY <1>1 DEF StatusType
<1> HIDE DEF u
<1>4. [u EXCEPT !.exists = TRUE] \in StatusType /\ [u EXCEPT !.exists = TRUE].uid = k
  BY <1>2, <1>3 DEF StatusType, u
<1> QED  BY <1>4 DEF u

LEMMA TaskIInv ==
  ASSUME IInv, NEW r \in Containers, createTask(r)
  PROVE  IInv'
<1> DEFINE n == r[2]
           next == Count(n) + 1
<1>1. /\ n \in Outputs /\ n \in Tasks /\ CanGoOn(n) /\ ~Born(next)
      /\ self[r].count = Count(n)
      /\ \A s \in Containers : pc[s] = "createTask" /\ s[2] = n => s = r
  BY DEF createTask, Containers, IInv, RunInv
<1>2. next \in Tasks /\ next # 0 /\ Count(n) \in Nat /\ Start \in Nat
  BY <1>1, Numbers DEF IInv
<1>3. ~status[next].exists /\ status[next].uid = 0
  BY <1>1, <1>2 DEF IInv, TypeOK, BornInv, Born
<1>4. /\ status' = [status EXCEPT ![next] =
                      [Platform!Unborn EXCEPT !.uid = status[next].uid + 1, !.exists = TRUE]]
      /\ inputObject' = [inputObject EXCEPT ![next] = n]
      /\ pc' = [pc EXCEPT ![r] = "exited"]
      /\ UNCHANGED <<launched, ended, objects, self, faults>>
  BY <1>1, <1>3 DEF createTask, NextName, Goto, Platform!Create
<1> HIDE DEF next
<1>5. status \in [Tasks -> StatusType]
  BY DEF IInv, TypeOK, StatusType
<1>6. /\ status' \in [Tasks -> StatusType]
      /\ status'[next].uid = 1
      /\ \A m \in Tasks : m # next => status'[m] = status[m]
  <2> DEFINE new == [Platform!Unborn EXCEPT !.uid = status[next].uid + 1, !.exists = TRUE]
  <2>1. status[next].uid + 1 = 1
    BY <1>3
  <2>2. new \in StatusType
    BY <2>1, Newborn
  <2>3. new.uid = 1
    BY <2>1, Newborn
  <2> HIDE DEF new
  <2> QED
    BY <1>2, <1>4, <1>5, <2>2, <2>3 DEF new
<1>7. /\ inputObject'[next] = n /\ \A m \in Tasks : m # next => inputObject'[m] = inputObject[m]
      /\ inputObject' \in [Tasks -> ObjectNames]
  BY <1>1, <1>2, <1>4 DEF IInv, TypeOK, ObjectNames
<1>8. Start' = Start /\ Limit' = Limit /\ Outputs' = Outputs
  BY <1>4 DEF Start, Limit, Outputs
<1>9. \A m \in Tasks : Born(m)' <=> (Born(m) \/ m = next)
  BY <1>6 DEF Born
<1>10. \A m \in Outputs : m \in Tasks /\ Count(m) \in Nat /\ Count(m) + 1 \in Tasks /\ m # next
  BY <1>1, Numbers, InputIsNoOutput DEF IInv, OutputInv
<1>11. TypeOK'
  BY <1>4, <1>6, <1>7 DEF IInv, TypeOK, StatusType
<1>12. OutputInv'
  BY <1>4, <1>8, <1>9, <1>10 DEF IInv, OutputInv, CanGoOn, Count
<1>13. BornInv'
  <2>1. inputObject'[0] = input
    BY <1>2, <1>7, Numbers DEF IInv, BornInv
  <2>2. \A m \in Tasks : status'[m].exists => Born(m)'
    BY <1>6, <1>9 DEF IInv, BornInv
  <2>3. n >= 0 /\ Count(n) >= Start
    BY <1>1, <1>2, Numbers DEF IInv, OutputInv, BornInv, Count
  <2>4. next > Start /\ Count(n) + 1 = next
    BY <1>2, <2>3 DEF next
  <2>5. ASSUME NEW m \in Tasks \ {0}, Born(m)'
        PROVE  /\ status'[m].uid = 1 /\ m > Start
               /\ inputObject'[m] \in Outputs /\ Count(inputObject'[m]) + 1 = m
    <3>1. CASE m = next
      BY <1>1, <1>6, <1>7, <2>4, <3>1
    <3>2. CASE m # next
      BY <1>6, <1>7, <1>9, <2>5, <3>2 DEF IInv, BornInv
    <3> QED  BY <3>1, <3>2
  <2> QED
    BY <1>8, <2>1, <2>2, <2>5 DEF BornInv, Count
<1>14. TopInv'
  <2>1. PICK v \in Nat : Top(v)
    BY DEF IInv, TopInv
  <2>2. next = v
    BY <1>1, <1>2, <2>1 DEF Top, next
  <2>3. Top(v)'
    BY <1>2, <1>8, <1>9, <1>10, <2>1, <2>2 DEF Top, Count
  <2> QED  BY <2>3 DEF TopInv
<1>15. RunInv'
  <2>1. ASSUME NEW s \in Containers
        PROVE  /\ pc'[s] # "none" => Born(s[2])'
               /\ pc'[s] \in {"createObject", "createTask"} =>
                    CanGoOn(s[2])' /\ self'[s].count = Count(s[2])' /\ self'[s].limit = Limit'
               /\ pc'[s] = "createTask" =>
                    /\ s[2] \in Outputs' /\ ~(Born(Count(s[2]) + 1)')
                    /\ \A u \in Containers : pc'[u] = "createTask" /\ u[2] = s[2] => u = s
    <3>1. pc'[r] = "exited" /\ \A u \in Containers : u # r => pc'[u] = pc[u]
      BY <1>4 DEF IInv, TypeOK
    <3>2. CASE s = r
      BY <1>1, <1>9, <3>1, <3>2 DEF IInv, OutputInv
    <3>3. CASE s # r
      <4>1. s[2] \in Tasks /\ (pc[s] = "createTask" => Count(s[2]) + 1 \in Tasks)
        BY Numbers DEF Containers, IInv, RunInv
      <4>2. pc'[s] # "none" => Born(s[2])'
        BY <1>9, <3>1, <3>3, <4>1 DEF IInv, RunInv
      <4>3. pc'[s] \in {"createObject", "createTask"} =>
              CanGoOn(s[2])' /\ self'[s].count = Count(s[2])' /\ self'[s].limit = Limit'
        BY <1>4, <1>8, <3>1, <3>3 DEF IInv, RunInv, CanGoOn, Count
      <4>4. ASSUME pc'[s] = "createTask"
            PROVE  s[2] \in Outputs' /\ ~(Born(Count(s[2]) + 1)')
        <5>1. pc[s] = "createTask" /\ s[2] \in Outputs /\ Born(s[2]) /\ ~Born(Count(s[2]) + 1)
          BY <3>1, <3>3, <4>4 DEF IInv, RunInv
        <5>2. s[2] # n /\ Count(s[2]) # Count(n)
          BY <1>1, <3>3, <4>1, <5>1, CountsDiffer DEF IInv, OutputInv
        <5>3. Count(s[2]) + 1 # next
          BY <1>2, <1>10, <5>1, <5>2 DEF next
        <5> QED
          BY <1>8, <1>9, <4>1, <5>1, <5>3 DEF Count
      <4>5. ASSUME pc'[s] = "createTask", NEW u \in Containers, pc'[u] = "createTask", u[2] = s[2]
            PROVE  u = s
        BY <3>1, <3>3, <4>5 DEF IInv, RunInv
      <4> QED  BY <4>2, <4>3, <4>4, <4>5
    <3> QED  BY <3>2, <3>3
  <2> QED  BY <2>1 DEF RunInv
<1> QED  BY <1>11, <1>12, <1>13, <1>14, <1>15 DEF IInv

LEMMA NextIInv == IInv /\ [Next]_vars => IInv'
<1> SUFFICES ASSUME IInv, [Next]_vars  PROVE IInv'
  OBVIOUS
<1>1. ASSUME NEW n \in Tasks, Settle(n) \/ Delete(n)  PROVE IInv'
  BY <1>1, StatusIInv
<1>2. ASSUME NEW n \in Tasks, NEW p \in Pods, Launch(p, n) \/ End(p, n)  PROVE IInv'
  BY <1>2, LaunchIInv, EndIInv
<1>3. ASSUME NEW r \in Containers, Program(r) \/ Die(r)  PROVE IInv'
  BY <1>3, ReadIInv, InputIInv, ObjectIInv, TaskIInv DEF Program
<1>4. CASE UNCHANGED vars
  <2>1. UNCHANGED <<status, launched, ended, inputObject, objects, pc, self, faults>>
    BY <1>4 DEF vars, platformVars
  <2>2. NoneBorn
    BY <2>1 DEF NoneBorn
  <2>3. TypeOK'
    BY <2>1 DEF IInv, TypeOK
  <2> QED  BY <2>1, <2>2, <2>3, Quiet, RunQuiet DEF IInv
<1> QED  BY <1>1, <1>2, <1>3, <1>4 DEF Next

LEMMA Invariance == Spec => []IInv
BY InitIInv, NextIInv, PTL DEF Spec

-----------------------------------------------------------------------------
(* Every container of every Task keeps to the type invariant.              *)
THEOREM TypeCorrect == Spec => []TypeOK
<1>1. IInv => TypeOK
  BY DEF IInv
<1> QED  BY <1>1, Invariance, PTL

(* The chain does not fork, names its links by their counts and creates no *)
(* Task twice, whatever is run again, fails, dies or is deleted.           *)
THEOREM ChainStaysSimple == Spec => []ChainIsSimple
BY Simple, Invariance, PTL

-----------------------------------------------------------------------------
(* What every step does to the highest count and to a broken chain.        *)

LEMMA StepCounts ==
  ASSUME IInv, [Next]_vars
  PROVE  [Counter!Increment]_(Counter!vars)
<1>1. ASSUME objects' = objects  PROVE UNCHANGED <<Reached, Limit>>
  BY <1>1 DEF Reached, Limit, Start, Outputs
<1>2. CASE \E r \in Containers : createObject(r)
  <2>1. PICK r \in Containers : createObject(r)
    BY <1>2
  <2>2. Reached' = Reached \/ (Reached < Limit /\ Reached' = Reached + 1)
    BY <2>1, ObjectIInv
  <2>3. objects'[input] = objects[input]
    <3>1. r[2] # input
      BY InputIsNoOutput DEF Containers
    <3> QED
      BY <2>1, <3>1 DEF createObject, IInv, TypeOK, ObjectNames
  <2>4. Limit' = Limit
    BY <2>3 DEF Limit
  <2> QED  BY <2>2, <2>4 DEF Counter!Increment, Counter!vars
<1>3. CASE ~ \E r \in Containers : createObject(r)
  <2>1. ASSUME NEW n \in Tasks, Settle(n) \/ Delete(n)  PROVE objects' = objects
    BY <2>1, StatusQuiet
  <2>2. ASSUME NEW n \in Tasks, NEW p \in Pods, Launch(p, n) \/ End(p, n)  PROVE objects' = objects
    BY <2>2 DEF Launch, End
  <2>3. ASSUME NEW r \in Containers, Program(r) \/ Die(r)  PROVE objects' = objects
    BY <1>3, <2>3 DEF Program, Die, taskDefinition, taskInput, createTask
  <2>4. ASSUME UNCHANGED vars  PROVE objects' = objects
    BY <2>4 DEF vars
  <2>5. objects' = objects
    BY <2>1, <2>2, <2>3, <2>4 DEF Next
  <2> QED  BY <1>1, <2>5 DEF Counter!vars
<1> QED  BY <1>2, <1>3

LEMMA InitCounts == Init => Counter!Init
<1> SUFFICES ASSUME Init  PROVE Counter!Init
  OBVIOUS
<1>1. IInv
  BY InitIInv
<1>2. PICK v \in Nat : Top(v)
  BY <1>1 DEF IInv, TopInv
<1>3. Reached = v
  BY <1>1, <1>2, TopIsReached DEF IInv
<1>4. Limit \in Nat
  BY <1>1, Numbers DEF IInv
<1> QED  BY <1>3, <1>4 DEF Counter!Init

(* What keeps a lost Task lost.                                            *)
LEMMA KeepsLost ==
  ASSUME NEW n \in Tasks, Lost(n), objects'[n] = objects[n],
         \A p \in Pods : pc'[<<p, n>>] = "createTask" => pc[<<p, n>>] = "createTask",
         status'[objects[n].count].uid = status[objects[n].count].uid
  PROVE  Lost(n)'
BY DEF Lost, Outputs, Born

LEMMA StepLosesNone ==
  ASSUME IInv, [Next]_vars, NEW n \in Tasks, Lost(n)
  PROVE  Lost(n)'
<1>1. /\ n \in Outputs /\ Born(n) /\ objects[n].count = Count(n) + 1
      /\ Count(n) \in Nat /\ Count(n) + 1 \in Tasks
  BY Numbers DEF Lost, IInv, OutputInv
<1>2. \A p \in Pods : <<p, n>> \in Containers /\ pc[<<p, n>>] # "createTask"
  BY DEF Lost, Containers
<1>3. ASSUME NEW m \in Tasks, Settle(m) \/ Delete(m)  PROVE Lost(n)'
  BY <1>1, <1>3, StatusQuiet, KeepsLost DEF NoneBorn
<1>4. ASSUME NEW m \in Tasks, NEW p \in Pods, Launch(p, m) \/ End(p, m)  PROVE Lost(n)'
  <2>1. UNCHANGED <<status, objects>>
    BY <1>4 DEF Launch, End, Platform!Launch, Platform!End
  <2>2. pc' = pc \/ pc' = [pc EXCEPT ![<<p, m>>] = "taskDefinition"]
    BY <1>4 DEF Launch, End
  <2>3. \A q \in Pods : pc'[<<q, n>>] = "createTask" => pc[<<q, n>>] = "createTask"
    BY <1>2, <2>2 DEF IInv, TypeOK
  <2> QED  BY <2>1, <2>3, KeepsLost
<1>5. ASSUME NEW r \in Containers, taskDefinition(r) \/ taskInput(r) \/ Die(r)  PROVE Lost(n)'
  <2>1. UNCHANGED <<status, objects>>
    BY <1>5 DEF taskDefinition, taskInput, Die, platformVars
  <2>2. \E label \in {"taskInput", "createObject", "exited"} : pc' = [pc EXCEPT ![r] = label]
    BY <1>5 DEF taskDefinition, taskInput, Die, Goto
  <2>3. \A q \in Pods : pc'[<<q, n>>] = "createTask" => pc[<<q, n>>] = "createTask"
    BY <1>2, <2>2 DEF IInv, TypeOK
  <2> QED  BY <2>1, <2>3, KeepsLost
<1>6. ASSUME NEW r \in Containers, createObject(r)  PROVE Lost(n)'
  <2>1. status' = status
    BY <1>6 DEF createObject, platformVars
  <2>2. CASE r[2] = n
    <3>1. ~Creatable(n)
      BY <1>1 DEF Outputs, Creatable
    <3>2. objects' = objects /\ pc' = [pc EXCEPT ![r] = "exited"]
      BY <1>6, <2>2, <3>1 DEF createObject, Goto
    <3>3. \A q \in Pods : pc'[<<q, n>>] = "createTask" => pc[<<q, n>>] = "createTask"
      BY <1>2, <3>2 DEF IInv, TypeOK
    <3> QED  BY <2>1, <3>2, <3>3, KeepsLost
  <2>3. CASE r[2] # n
    <3>1. objects'[n] = objects[n]
      BY <1>6, <2>3 DEF createObject, IInv, TypeOK, ObjectNames
    <3>2. \E label \in {"createTask", "exited"} : pc' = [pc EXCEPT ![r] = label]
      BY <1>6 DEF createObject, Goto
    <3>3. \A q \in Pods : <<q, n>> # r
      BY <2>3
    <3>4. \A q \in Pods : pc'[<<q, n>>] = "createTask" => pc[<<q, n>>] = "createTask"
      BY <1>2, <3>2, <3>3 DEF IInv, TypeOK
    <3> QED  BY <2>1, <3>1, <3>4, KeepsLost
  <2> QED  BY <2>2, <2>3
<1>7. ASSUME NEW r \in Containers, createTask(r)  PROVE Lost(n)'
  <2>1. /\ r[2] \in Tasks /\ r[2] \in Outputs /\ Born(r[2]) /\ Count(r[2]) \in Nat
        /\ self[r].count = Count(r[2])
    BY <1>7, Numbers DEF createTask, Containers, IInv, RunInv, OutputInv
  <2>2. r[2] # n
    BY <1>2, <1>7 DEF createTask, Containers
  <2>3. Count(r[2]) # Count(n)
    BY <1>1, <2>1, <2>2, CountsDiffer DEF IInv
  <2>4. Count(r[2]) + 1 # Count(n) + 1
    BY <1>1, <2>1, <2>3
  <2>5. status'[Count(n) + 1] = status[Count(n) + 1]
    BY <1>1, <1>7, <2>1, <2>4 DEF createTask, NextName, Platform!Create, platformVars, IInv, TypeOK
  <2>6. objects' = objects /\ pc' = [pc EXCEPT ![r] = "exited"]
    BY <1>7 DEF createTask, Goto
  <2>7. \A q \in Pods : pc'[<<q, n>>] = "createTask" => pc[<<q, n>>] = "createTask"
    BY <1>2, <2>6 DEF IInv, TypeOK
  <2> QED  BY <1>1, <2>5, <2>6, <2>7, KeepsLost
<1>8. ASSUME UNCHANGED vars  PROVE Lost(n)'
  BY <1>8, KeepsLost DEF vars, platformVars
<1> QED  BY <1>3, <1>4, <1>5, <1>6, <1>7, <1>8 DEF Next, Program

(* The demo implements a counter: whatever is run again, fails, dies or is *)
(* deleted, the highest count goes up by ones and stops at the limit.      *)
THEOREM ProgramCounts == Spec => CountsUp
<1>1. Init => Counter!Init
  BY InitCounts
<1>2. IInv /\ [Next]_vars => [Counter!Increment]_(Counter!vars)
  BY StepCounts
<1> QED  BY <1>1, <1>2, Invariance, PTL DEF Spec, CountsUp, Counter!Spec

(* A chain that broke between its two calls is mended by no further run.   *)
THEOREM BrokenStaysBroken == Spec => LostStaysLost
<1>1. IInv /\ [Next]_vars => [\A n \in Tasks : Lost(n) => Lost(n)']_vars
  BY StepLosesNone
<1> QED  BY <1>1, Invariance, PTL DEF Spec, LostStaysLost

=============================================================================
