------------------------------ MODULE Process ------------------------------
(***************************************************************************)
(* The controller process: main sets up clients, controllers and informer  *)
(* factories in a fixed order and waits; two goroutines run the            *)
(* controllers; one waits for signals.  Each of them can end the process.  *)
(***************************************************************************)
EXTENDS Naturals, Sequences

CONSTANT MaxSignals  \* bound: signals sent after the handler is installed

ASSUME SignalsAssumption == MaxSignals \in Nat

Controllers == {"taskcluster", "task"}

kubeInformers == {"Deployments", "Pods"}
exampleInformers == {"TaskClusters", "TaskObjects", "Tasks"}
Informers == kubeInformers \cup exampleInformers

(* What a controller's constructor asks its factories for.                 *)
Asked(k) ==
  IF k = "taskcluster" THEN {"Deployments", "TaskClusters"}
  ELSE {"TaskClusters", "Pods", "TaskObjects", "Tasks"}

(* The caches a controller's Run waits for.                                *)
Waited(k) ==
  IF k = "taskcluster" THEN {"Deployments", "TaskClusters"}
  ELSE {"TaskClusters", "Tasks", "Pods"}

StepsStartedEarly ==  \* mutant: a factory is started before the last controller asks it
  <<"signals", "kubeconfig", "kubeclient", "taskclient", "new taskcluster", "start kube",
    "start example", "new task", "run taskcluster", "run task", "wait">>

(* What main does, in order, and where it makes and runs a controller.     *)
Steps ==
  <<"signals", "kubeconfig", "kubeclient", "taskclient", "new taskcluster", "new task",
    "start kube", "start example", "run taskcluster", "run task", "wait">>

newStep == [taskcluster |-> "new taskcluster", task |-> "new task"]
runStep == [taskcluster |-> "run taskcluster", task |-> "run task"]

VARIABLES
  step, failed,  \* the step main is at, and whether it failed
  registered,    \* informers that a factory was asked for
  started,       \* informers that run
  synced,        \* informers that have listed their objects
  run,           \* what the goroutine of a controller is doing
  result,        \* what a controller's Run returned
  err,           \* main's variable err, which both goroutines assign and test
  handler,       \* the goroutine that waits for signals
  c,             \* how many signals its channel holds
  cancelled,     \* the context is cancelled
  exit,          \* how the process ended
  sent, served   \* history: signals sent since "signals"; controllers that had workers

mainVars == <<step, failed>>
cacheVars == <<registered, started, synced>>
runVars == <<run, result, err, served>>
signalVars == <<handler, c, cancelled, sent>>
vars == <<mainVars, cacheVars, runVars, signalVars, exit>>

TypeOK ==
  /\ step \in DOMAIN Steps /\ failed \in BOOLEAN
  /\ registered \subseteq Informers /\ started \subseteq registered /\ synced \subseteq started
  /\ run \in [Controllers ->
                {"none", "syncing", "serving", "returned", "assigned", "exiting", "done"}]
  /\ result \in [Controllers -> {"nil", "error"}] /\ err \in {"nil", "error"}
  /\ handler \in {"none", "first", "second"} /\ c \in 0..2
  /\ cancelled \in BOOLEAN /\ sent \in 0..MaxSignals
  /\ exit \in {"none", "0", "1", "killed"} /\ served \subseteq Controllers

Init ==
  /\ step = 1 /\ failed = FALSE /\ registered = {} /\ started = {} /\ synced = {}
  /\ run = [k \in Controllers |-> "none"] /\ result = [k \in Controllers |-> "nil"]
  /\ err = "nil" /\ handler = "none" /\ c = 0 /\ cancelled = FALSE
  /\ exit = "none" /\ sent = 0 /\ served = {}

-----------------------------------------------------------------------------
(* main                                                                    *)

At(s) == ~failed /\ Steps[step] = s

Proceed == step' = step + 1 /\ UNCHANGED failed

SetupSignalHandler ==
  /\ At("signals") /\ Proceed
  /\ handler' = "first"
  /\ UNCHANGED <<cacheVars, runVars, c, cancelled, sent, exit>>

(* Reading the kubeconfig and making the two clients may fail, or hang.    *)
Configure ==
  /\ At("kubeconfig") \/ At("kubeclient") \/ At("taskclient")
  /\ \/ Proceed
     \/ failed' = TRUE /\ UNCHANGED step
  /\ UNCHANGED <<cacheVars, runVars, signalVars, exit>>

NewController(k) ==
  /\ At(newStep[k]) /\ Proceed
  /\ registered' = registered \cup Asked(k)
  /\ UNCHANGED <<started, synced, runVars, signalVars, exit>>

(* Start runs what was asked for by then.                                  *)
StartFactory(start, informers) ==
  /\ At(start) /\ Proceed
  /\ started' = started \cup (registered \cap informers)
  /\ UNCHANGED <<registered, synced, runVars, signalVars, exit>>

GoRun(k) ==
  /\ At(runStep[k]) /\ Proceed
  /\ run' = [run EXCEPT ![k] = "syncing"]
  /\ UNCHANGED <<cacheVars, result, err, served, signalVars, exit>>

MainReturns ==
  /\ At("wait") /\ cancelled
  /\ exit' = "0"
  /\ UNCHANGED <<mainVars, cacheVars, runVars, signalVars>>

(* klog.FlushAndExit after a step that failed.                             *)
MainExits ==
  /\ failed
  /\ exit' = "1"
  /\ UNCHANGED <<mainVars, cacheVars, runVars, signalVars>>

Main ==
  \/ \E k \in Controllers : NewController(k) \/ GoRun(k)
  \/ StartFactory("start kube", kubeInformers)
  \/ StartFactory("start example", exampleInformers)
  \/ MainReturns \/ MainExits

-----------------------------------------------------------------------------
(* The goroutines of the controllers, and the informers.                   *)

Listed(i) ==
  /\ i \in started \ synced
  /\ synced' = synced \cup {i}
  /\ UNCHANGED <<mainVars, registered, started, runVars, signalVars, exit>>

StartWorkers(k) ==
  /\ run[k] = "syncing" /\ Waited(k) \subseteq synced
  /\ run' = [run EXCEPT ![k] = "serving"]
  /\ served' = served \cup {k}
  /\ UNCHANGED <<mainVars, cacheVars, result, err, signalVars, exit>>

CancelIsError(k) == "error"  \* mutant: Run returns ctx.Err() at its end

RunResult(k) == IF run[k] = "syncing" THEN "error" ELSE "nil"

RunReturns(k) ==
  /\ run[k] \in {"syncing", "serving"} /\ cancelled
  /\ run' = [run EXCEPT ![k] = "returned"]
  /\ result' = [result EXCEPT ![k] = RunResult(k)]
  /\ UNCHANGED <<mainVars, cacheVars, err, served, signalVars, exit>>

Assign(k) ==
  /\ run[k] = "returned"
  /\ run' = [run EXCEPT ![k] = "assigned"]
  /\ err' = result[k]
  /\ UNCHANGED <<mainVars, cacheVars, result, served, signalVars, exit>>

(* err != nil: err is read while the other goroutine may write it, so the  *)
(* test sees either what this one assigned or what is there now.           *)
Test(k) ==
  /\ run[k] = "assigned"
  /\ \E seen \in {result[k], err} :
       run' = [run EXCEPT ![k] = IF seen = "nil" THEN "done" ELSE "exiting"]
  /\ UNCHANGED <<mainVars, cacheVars, result, err, served, signalVars, exit>>

RunExits(k) ==
  /\ run[k] = "exiting"
  /\ exit' = "1"
  /\ UNCHANGED <<mainVars, cacheVars, runVars, signalVars>>

Run(k) == StartWorkers(k) \/ RunReturns(k) \/ Assign(k) \/ Test(k) \/ RunExits(k)

-----------------------------------------------------------------------------
(* Signals.                                                                *)

BufferOfNone == 0   \* mutant: make(chan os.Signal), and nobody receives yet
BufferOfOne == 1    \* mutant: make(chan os.Signal, 1)
BufferOfThree == 3  \* mutant: make(chan os.Signal, 3)

Buffer == 2

(* Before Notify a signal kills the process; after it one that finds the   *)
(* channel full is dropped.                                                *)
Signal ==
  /\ sent < MaxSignals
  /\ IF handler = "none"
     THEN exit' = "killed" /\ UNCHANGED <<c, sent>>
     ELSE sent' = sent + 1 /\ c' = (IF c < Buffer THEN c + 1 ELSE c) /\ UNCHANGED exit
  /\ UNCHANGED <<mainVars, cacheVars, runVars, handler, cancelled>>

FirstSignal ==
  /\ handler = "first" /\ c > 0
  /\ handler' = "second" /\ c' = c - 1 /\ cancelled' = TRUE
  /\ UNCHANGED <<mainVars, cacheVars, runVars, sent, exit>>

SecondSignal ==
  /\ handler = "second" /\ c > 0
  /\ c' = c - 1 /\ exit' = "1"
  /\ UNCHANGED <<mainVars, cacheVars, runVars, handler, cancelled, sent>>

Handler == FirstSignal \/ SecondSignal

-----------------------------------------------------------------------------
Next ==
  /\ exit = "none"
  /\ \/ SetupSignalHandler \/ Configure \/ Main \/ Signal \/ Handler
     \/ \E k \in Controllers : Run(k)
     \/ \E i \in Informers : Listed(i)

Spec == Init /\ [][Next]_vars

(* Goroutines are scheduled, and an informer retries its list until the    *)
(* API server answers.  Reading the configuration need not come to an end, *)
(* and nobody has to send a signal.                                        *)
FairSpec ==
  /\ Spec
  /\ WF_vars(Main /\ exit = "none") /\ WF_vars(Handler /\ exit = "none")
  /\ \A k \in Controllers : WF_vars(Run(k) /\ exit = "none")
  /\ \A i \in Informers : WF_vars(Listed(i) /\ exit = "none")

-----------------------------------------------------------------------------
(* Exit code 1 says that something went wrong: the setup failed, a second  *)
(* signal cut the shutdown short, or a controller was stopped before it    *)
(* had begun.  One signal to a process at work ends in exit code 0.        *)
ExitHasCause ==
  exit = "1" => failed \/ sent >= 2 \/ (sent = 1 /\ served # Controllers)

(* Both controllers come to work, unless a signal comes first.             *)
ControllersServe == (Steps[step] = "wait") ~> (served = Controllers \/ sent > 0)

(* Once main has its clients one signal ends the process, whatever the     *)
(* controllers are doing.                                                  *)
FirstSignalEnds == (step > 4 /\ sent > 0) ~> (exit # "none")

(* Two signals end it whatever main is doing, however close they come.     *)
SecondSignalEnds == (sent >= 2) ~> (exit # "none")

=============================================================================
