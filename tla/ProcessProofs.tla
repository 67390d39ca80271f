--------------------------- MODULE ProcessProofs ---------------------------
(* Proofs about Process, for any number of signals.                        *)
EXTENDS Process, TLAPS

(* The handler and the controllers' goroutines are begun once each.        *)
StepInv ==
  /\ step \in 1..11
  /\ run["taskcluster"] # "none" => step > 9
  /\ run["task"] # "none" => step > 10
  /\ step = 1 => handler = "none"

(* A controller that serves is past its start; a Run that failed never did. *)
RunInv ==
  /\ run = [k \in Controllers |-> run[k]] /\ result = [k \in Controllers |-> result[k]]
  /\ served \subseteq Controllers
  /\ \A k \in served : run[k] \notin {"none", "syncing"}
  /\ \A k \in Controllers : run[k] = "serving" => k \in served
  /\ \A k \in Controllers : result[k] # "nil" =>
       k \notin served /\ cancelled /\ run[k] \notin {"none", "syncing", "serving"}

(* An error that is assigned, seen or acted on is one that a Run returned. *)
ErrInv ==
  /\ err # "nil" => \E k \in Controllers : result[k] # "nil"
  /\ \A k \in Controllers : run[k] = "exiting" => \E j \in Controllers : result[j] # "nil"

(* The handler has taken, and the channel holds, signals that were sent.   *)
SignalInv ==
  /\ sent \in Nat /\ c \in Nat
  /\ handler \in {"none", "first", "second"}
  /\ c + (IF handler = "second" THEN 1 ELSE 0) <= sent
  /\ cancelled => handler = "second"

IInv == StepInv /\ RunInv /\ ErrInv /\ SignalInv /\ ExitHasCause

LEMMA InitIInv == Init => IInv
<1> SUFFICES ASSUME Init  PROVE IInv
  OBVIOUS
<1>1. StepInv /\ ExitHasCause  BY DEF Init, StepInv, ExitHasCause, Controllers
<1>2. RunInv  BY DEF Init, RunInv
<1>3. ErrInv /\ SignalInv  BY DEF Init, ErrInv, SignalInv
<1> QED  BY <1>1, <1>2, <1>3 DEF IInv

LEMMA StepsAre ==
  /\ Steps[1] = "signals" /\ Steps[2] = "kubeconfig" /\ Steps[3] = "kubeclient"
  /\ Steps[4] = "taskclient" /\ Steps[5] = "new taskcluster" /\ Steps[6] = "new task"
  /\ Steps[7] = "start kube" /\ Steps[8] = "start example"
  /\ Steps[9] = "run taskcluster" /\ Steps[10] = "run task" /\ Steps[11] = "wait"
BY DEF Steps

LEMMA StepOf ==
  ASSUME step \in 1..11
  PROVE  /\ Steps[step] # "wait" => step < 11
         /\ Steps[step] = "signals" => step = 1
         /\ Steps[step] = "run taskcluster" => step = 9
         /\ Steps[step] = "run task" => step = 10
<1>1. \/ step = 1 \/ step = 2 \/ step = 3 \/ step = 4 \/ step = 5 \/ step = 6
      \/ step = 7 \/ step = 8 \/ step = 9 \/ step = 10 \/ step = 11
  OBVIOUS
<1>2. Steps[step] # "wait" => step < 11
  <2>1. Steps[step] # "wait" => step # 11
    BY StepsAre
  <2> QED  BY <2>1
<1>3. Steps[step] = "signals" => step = 1
  BY <1>1, StepsAre
<1>4. Steps[step] = "run taskcluster" => step = 9
  BY <1>1, StepsAre
<1>5. Steps[step] = "run task" => step = 10
  BY <1>1, StepsAre
<1> QED  BY <1>2, <1>3, <1>4, <1>5

(* A failed Run leaves a controller that never served, and a signal.       *)
LEMMA FailureHasCause ==
  ASSUME RunInv, SignalInv, \E k \in Controllers : result[k] # "nil"
  PROVE  sent >= 2 \/ (sent = 1 /\ served # Controllers)
BY DEF RunInv, SignalInv

-----------------------------------------------------------------------------
(* One lemma per group of actions.                                         *)

(* The handler is begun at the first step; every other step of the setup   *)
(* goes on, or not, and touches neither goroutines nor signals.            *)
Begun == step = 1 /\ step' = step + 1 /\ handler' = "first"

GoneOn ==
  /\ step' = step \/ (step < 11 /\ step' = step + 1)
  /\ UNCHANGED handler

LEMMA SetupSteps ==
  ASSUME step \in 1..11,
         \/ SetupSignalHandler \/ Configure
         \/ \E k \in Controllers : NewController(k)
         \/ StartFactory("start kube", kubeInformers)
         \/ StartFactory("start example", exampleInformers)
  PROVE  /\ Begun \/ GoneOn
         /\ UNCHANGED <<synced, run, result, err, served, c, cancelled, sent, exit>>
<1>1. CASE SetupSignalHandler
  <2>1. step = 1
    BY <1>1, StepOf DEF SetupSignalHandler, At
  <2> QED
    BY <1>1, <2>1 DEF SetupSignalHandler, Proceed, Begun, cacheVars, runVars
<1>2. CASE Configure
  BY <1>2, StepOf DEF Configure, At, Proceed, GoneOn, cacheVars, runVars, signalVars
<1>3. ASSUME NEW k \in Controllers, NewController(k)
      PROVE  /\ GoneOn
             /\ UNCHANGED <<synced, run, result, err, served, c, cancelled, sent, exit>>
  <2>1. newStep[k] # "wait"
    <3>1. CASE k = "task"  BY <3>1 DEF newStep
    <3>2. CASE k = "taskcluster"  BY <3>2 DEF newStep
    <3> QED  BY <3>1, <3>2 DEF Controllers
  <2> QED
    BY <1>3, <2>1, StepOf DEF NewController, At, Proceed, GoneOn, runVars, signalVars
<1>4. CASE \/ StartFactory("start kube", kubeInformers)
           \/ StartFactory("start example", exampleInformers)
  BY <1>4, StepOf DEF StartFactory, At, Proceed, GoneOn, runVars, signalVars
<1> QED  BY <1>1, <1>2, <1>3, <1>4

LEMMA SetupIInv ==
  ASSUME IInv, exit = "none", Begun \/ GoneOn,
         UNCHANGED <<synced, run, result, err, served, c, cancelled, sent, exit>>
  PROVE  IInv'
<1>1. StepInv'
  BY DEF IInv, StepInv, Begun, GoneOn
<1>2. RunInv' /\ ErrInv'
  BY DEF IInv, RunInv, ErrInv
<1>3. SignalInv'
  BY DEF IInv, StepInv, SignalInv, Begun, GoneOn
<1>4. ExitHasCause'
  BY DEF ExitHasCause
<1> QED  BY <1>1, <1>2, <1>3, <1>4 DEF IInv

LEMMA GoRunIInv ==
  ASSUME IInv, exit = "none", NEW k \in Controllers, GoRun(k)
  PROVE  IInv'
<1>1. (k = "task" /\ step = 10) \/ (k = "taskcluster" /\ step = 9)
  <2>1. CASE k = "task"
    BY <2>1, StepOf DEF IInv, StepInv, GoRun, At, runStep
  <2>2. CASE k = "taskcluster"
    BY <2>2, StepOf DEF IInv, StepInv, GoRun, At, runStep
  <2> QED  BY <2>1, <2>2 DEF Controllers
<1>2. /\ run' = [run EXCEPT ![k] = "syncing"] /\ step' = step + 1
      /\ UNCHANGED <<synced, result, err, served, handler, c, cancelled, sent, exit>>
  BY DEF GoRun, Proceed, cacheVars, signalVars
<1>3. StepInv'
  <2>1. DOMAIN run = Controllers
    BY DEF IInv, RunInv
  <2> QED
    BY <1>1, <1>2, <2>1 DEF IInv, StepInv, Controllers
<1>4. RunInv'
  <2>1. run[k] = "none"
    BY <1>1 DEF IInv, StepInv
  <2>2. k \notin served /\ result[k] = "nil"
    BY <2>1 DEF IInv, RunInv
  <2> QED
    BY <1>2, <2>2 DEF IInv, RunInv
<1>5. ErrInv' /\ SignalInv' /\ ExitHasCause'
  BY <1>2 DEF IInv, RunInv, ErrInv, SignalInv, ExitHasCause
<1> QED  BY <1>3, <1>4, <1>5 DEF IInv

LEMMA MainEndsIInv ==
  ASSUME IInv, exit = "none", MainReturns \/ MainExits
  PROVE  IInv'
<1>1. /\ UNCHANGED <<step, failed, synced, run, result, err, served>>
      /\ UNCHANGED <<handler, c, cancelled, sent>>
  BY DEF MainReturns, MainExits, mainVars, cacheVars, runVars, signalVars
<1>2. StepInv' /\ RunInv' /\ ErrInv' /\ SignalInv'
  BY <1>1 DEF IInv, StepInv, RunInv, ErrInv, SignalInv
<1>3. ExitHasCause'
  BY <1>1 DEF MainReturns, MainExits, ExitHasCause
<1> QED  BY <1>2, <1>3 DEF IInv

LEMMA ListedIInv ==
  ASSUME IInv, exit = "none", NEW i \in Informers, Listed(i)
  PROVE  IInv'
<1>1. /\ synced' = synced \cup {i}
      /\ UNCHANGED <<step, failed, run, result, err, served>>
      /\ UNCHANGED <<handler, c, cancelled, sent, exit>>
  BY DEF Listed, mainVars, runVars, signalVars
<1>2. StepInv' /\ ErrInv' /\ SignalInv' /\ ExitHasCause'
  BY <1>1 DEF IInv, StepInv, ErrInv, SignalInv, ExitHasCause
<1>3. RunInv'
  BY <1>1 DEF IInv, RunInv
<1> QED  BY <1>2, <1>3 DEF IInv

(* The steps of a controller's goroutine.                                  *)
LEMMA RunIInv ==
  ASSUME IInv, exit = "none", NEW k \in Controllers, Run(k)
  PROVE  IInv'
<1>1. UNCHANGED <<step, failed, synced, handler, c, cancelled, sent>>
  BY DEF Run, StartWorkers, RunReturns, Assign, Test, RunExits, mainVars, cacheVars, signalVars
<1>2. run[k] # "none" /\ \A j \in Controllers : j # k => run'[j] = run[j]
  BY DEF Run, StartWorkers, RunReturns, Assign, Test, RunExits, runVars, IInv, RunInv
<1>3. StepInv'
  BY <1>1, <1>2 DEF IInv, StepInv, Controllers
<1>4. SignalInv'
  BY <1>1 DEF IInv, SignalInv
<1>5. RunInv' /\ ErrInv' /\ ExitHasCause'
  <2>1. CASE StartWorkers(k)
    <3>1. RunInv'
      BY <2>1, <1>1 DEF StartWorkers, IInv, RunInv
    <3>2. ErrInv' /\ ExitHasCause'
      BY <2>1, <1>1 DEF StartWorkers, IInv, RunInv, ErrInv, ExitHasCause
    <3> QED  BY <3>1, <3>2
  <2>2. CASE RunReturns(k)
    <3>1. RunInv'
      BY <2>2, <1>1 DEF RunReturns, RunResult, IInv, RunInv
    <3>2. \A j \in Controllers : result[j] # "nil" => result'[j] # "nil"
      BY <2>2 DEF RunReturns, RunResult, IInv, RunInv
    <3>3. ErrInv' /\ ExitHasCause'
      BY <2>2, <3>2, <1>1 DEF RunReturns, IInv, RunInv, ErrInv, ExitHasCause
    <3> QED  BY <3>1, <3>3
  <2>3. CASE Assign(k)
    <3>1. RunInv'
      BY <2>3, <1>1 DEF Assign, IInv, RunInv
    <3>2. ErrInv' /\ ExitHasCause'
      BY <2>3, <1>1 DEF Assign, IInv, RunInv, ErrInv, ExitHasCause
    <3> QED  BY <3>1, <3>2
  <2>4. CASE Test(k)
    <3>1. RunInv'
      BY <2>4, <1>1 DEF Test, IInv, RunInv
    <3>2. ErrInv' /\ ExitHasCause'
      BY <2>4, <1>1 DEF Test, IInv, RunInv, ErrInv, ExitHasCause
    <3> QED  BY <3>1, <3>2
  <2>5. CASE RunExits(k)
    <3>1. RunInv' /\ ErrInv'
      BY <2>5, <1>1 DEF RunExits, IInv, RunInv, ErrInv, runVars
    <3>2. sent >= 2 \/ (sent = 1 /\ served # Controllers)
      BY <2>5, FailureHasCause DEF RunExits, IInv, ErrInv
    <3>3. ExitHasCause'
      BY <2>5, <3>2, <1>1 DEF RunExits, ExitHasCause, runVars
    <3> QED  BY <3>1, <3>3
  <2> QED  BY <2>1, <2>2, <2>3, <2>4, <2>5 DEF Run
<1> QED  BY <1>3, <1>4, <1>5 DEF IInv

LEMMA SignalsIInv ==
  ASSUME IInv, exit = "none", Signal \/ Handler
  PROVE  IInv'
<1>1. UNCHANGED <<step, failed, synced, run, result, err, served>>
  BY DEF Signal, Handler, FirstSignal, SecondSignal, mainVars, cacheVars, runVars
<1>2. /\ sent' \in Nat /\ sent <= sent' /\ (cancelled => cancelled')
      /\ step = 1 => handler' = "none"
  BY DEF Signal, Handler, FirstSignal, SecondSignal, IInv, StepInv, SignalInv
<1>3. StepInv' /\ ErrInv'
  BY <1>1, <1>2 DEF IInv, StepInv, ErrInv
<1>4. RunInv'
  BY <1>1, <1>2 DEF IInv, RunInv
<1>5. SignalInv' /\ ExitHasCause'
  <2>1. CASE Signal
    BY <2>1, <1>1 DEF Signal, Buffer, IInv, SignalInv, ExitHasCause
  <2>2. CASE FirstSignal
    BY <2>2, <1>1 DEF FirstSignal, IInv, SignalInv, ExitHasCause
  <2>3. CASE SecondSignal
    BY <2>3, <1>1 DEF SecondSignal, IInv, SignalInv, ExitHasCause
  <2> QED  BY <2>1, <2>2, <2>3 DEF Handler
<1> QED  BY <1>3, <1>4, <1>5 DEF IInv

LEMMA NextIInv == IInv /\ [Next]_vars => IInv'
<1> SUFFICES ASSUME IInv, [Next]_vars  PROVE IInv'
  OBVIOUS
<1>1. CASE Next
  <2>1. exit = "none"  BY <1>1 DEF Next
  <2>2. CASE \/ SetupSignalHandler \/ Configure
             \/ \E k \in Controllers : NewController(k)
             \/ StartFactory("start kube", kubeInformers)
             \/ StartFactory("start example", exampleInformers)
    BY <2>1, <2>2, SetupSteps, SetupIInv DEF IInv, StepInv
  <2>3. CASE \/ \E k \in Controllers : GoRun(k)
             \/ MainReturns \/ MainExits
    BY <2>1, <2>3, GoRunIInv, MainEndsIInv
  <2>4. CASE \/ Signal \/ Handler
             \/ \E k \in Controllers : Run(k)
             \/ \E i \in Informers : Listed(i)
    BY <2>1, <2>4, SignalsIInv, RunIInv, ListedIInv
  <2> QED  BY <1>1, <2>2, <2>3, <2>4 DEF Next, Main
<1>2. CASE UNCHANGED vars
  BY <1>2 DEF vars, IInv, StepInv, RunInv, ErrInv, SignalInv, ExitHasCause,
              mainVars, cacheVars, runVars, signalVars
<1> QED  BY <1>1, <1>2

LEMMA Invariance == Spec => []IInv
BY InitIInv, NextIInv, PTL DEF Spec

-----------------------------------------------------------------------------
(* Exit code 1 is kept for a failed setup, a second signal and a           *)
(* controller stopped before it had begun, whichever goroutine ends the    *)
(* process and however the two race on err.                                *)
THEOREM ExitCodeHasCause == Spec => []ExitHasCause
<1>1. IInv => ExitHasCause
  BY DEF IInv
<1> QED  BY <1>1, Invariance, PTL

-----------------------------------------------------------------------------
(* TypeOK: in particular main never runs past its last step, factories run *)
(* and list no informer they were not asked for, and the channel of the    *)
(* signal handler never holds more than its buffer.                        *)
THEOREM TypeSafety == Spec => []TypeOK
<1>1. DOMAIN Steps = 1..11
  BY DEF Steps
<1>2. Init => TypeOK
  <2> SUFFICES ASSUME Init PROVE TypeOK
    OBVIOUS
  <2>1. step \in DOMAIN Steps /\ sent \in 0..MaxSignals
    BY <1>1, SignalsAssumption DEF Init
  <2>2. /\ run \in [Controllers -> {"none"}] /\ result \in [Controllers -> {"nil"}]
        /\ c \in 0..2
    BY DEF Init
  <2>3. /\ registered \subseteq Informers /\ started \subseteq registered
        /\ synced \subseteq started /\ served \subseteq Controllers
    BY DEF Init
  <2> QED BY <2>1, <2>2, <2>3 DEF Init, TypeOK
<1>3. ASSUME IInv, TypeOK, [Next]_vars, IInv' PROVE TypeOK'
  <2>1. step' \in DOMAIN Steps
    BY <1>1, <1>3 DEF IInv, StepInv
  <2>2. CASE SetupSignalHandler \/ Configure
    BY <2>1, <2>2, <1>3 DEF SetupSignalHandler, Configure, Proceed, TypeOK, cacheVars, runVars,
                            signalVars
  <2>3. ASSUME NEW k \in Controllers, NewController(k) PROVE TypeOK'
    <3>1. Asked(k) \subseteq Informers
      BY DEF Asked, Informers, kubeInformers, exampleInformers
    <3> QED BY <2>1, <2>3, <1>3, <3>1 DEF NewController, Proceed, TypeOK, runVars, signalVars
  <2>4. ASSUME NEW s, NEW informers, StartFactory(s, informers) PROVE TypeOK'
    BY <2>1, <2>4, <1>3 DEF StartFactory, Proceed, TypeOK, runVars, signalVars
  <2>5. ASSUME NEW k \in Controllers, GoRun(k) PROVE TypeOK'
    BY <2>1, <2>5, <1>3 DEF GoRun, Proceed, TypeOK, cacheVars, signalVars
  <2>6. CASE MainReturns \/ MainExits
    BY <2>1, <2>6, <1>3 DEF MainReturns, MainExits, TypeOK, mainVars, cacheVars, runVars,
                            signalVars
  <2>7. ASSUME NEW k \in Controllers, Run(k) PROVE TypeOK'
    <3>1. CASE StartWorkers(k) \/ RunReturns(k)
      BY <2>1, <3>1, <1>3 DEF StartWorkers, RunReturns, RunResult, TypeOK, mainVars, cacheVars,
                              signalVars
    <3>2. CASE Assign(k)
      BY <2>1, <3>2, <1>3 DEF Assign, TypeOK, mainVars, cacheVars, signalVars
    <3>3. CASE Test(k)
      BY <2>1, <3>3, <1>3 DEF Test, TypeOK, mainVars, cacheVars, signalVars
    <3>4. CASE RunExits(k)
      BY <2>1, <3>4, <1>3 DEF RunExits, TypeOK, mainVars, cacheVars, runVars, signalVars
    <3> QED BY <2>7, <3>1, <3>2, <3>3, <3>4 DEF Run
  <2>8. CASE Signal
    <3>1. sent \in 0..MaxSignals /\ c \in 0..2
      BY <1>3 DEF TypeOK
    <3>2. sent' \in 0..MaxSignals /\ c' \in 0..2
      BY <2>8, <3>1, SignalsAssumption DEF Signal, Buffer
    <3> QED BY <2>1, <2>8, <1>3, <3>2 DEF Signal, TypeOK, mainVars, cacheVars, runVars
  <2>9. CASE Handler
    <3>1. c' \in 0..2
      BY <2>9, <1>3 DEF Handler, FirstSignal, SecondSignal, TypeOK
    <3> QED
      BY <2>1, <2>9, <1>3, <3>1 DEF Handler, FirstSignal, SecondSignal, TypeOK, mainVars,
                                    cacheVars, runVars
  <2>10. ASSUME NEW i \in Informers, Listed(i) PROVE TypeOK'
    BY <2>1, <2>10, <1>3 DEF Listed, TypeOK, mainVars, runVars, signalVars
  <2>11. CASE UNCHANGED vars
    BY <2>11, <1>3 DEF TypeOK, vars, mainVars, cacheVars, runVars, signalVars
  <2> QED
    BY <1>3, <2>2, <2>3, <2>4, <2>5, <2>6, <2>7, <2>8, <2>9, <2>10, <2>11 DEF Next, Main
<1> QED BY <1>2, <1>3, Invariance, PTL DEF Spec

=============================================================================
