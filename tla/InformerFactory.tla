-------------------------- MODULE InformerFactory --------------------------
(***************************************************************************)
(* The shared informer factory of pkg/generated/informers/externalversions *)
(* makes one informer per type, whoever asks for it, runs each of them in  *)
(* a goroutine of its own and waits for these.  Any number of goroutines   *)
(* may call it.  What a method does under the factory's mutex is one step; *)
(* Shutdown and WaitForCacheSync wait without the mutex, so they have a    *)
(* step that begins them and steps that end them.                          *)
(***************************************************************************)
EXTENDS Naturals, Sequences

CONSTANTS
  Types,          \* types asked for, of "Task", "TaskCluster" and "TaskObject"
  Resources,      \* resource names that ForResource is asked for
  Callers,        \* goroutines that share the factory
  Channels,       \* stop channels
  ChannelOf,      \* the stop channel that a caller passes
  Options,        \* what NewSharedInformerFactoryWithOptions is given, in order
  Settings,       \* namespaces, filters, transforms
  Periods, DefaultResync, AllNamespaces, Nil

(* An option sets a field of the factory, or a type's entry in customResync. *)
Option == [set: {"namespace", "tweakListOptions", "transform"}, to: Settings]
          \cup [set: {"customResync"}, type: Types, to: Periods]

ASSUME ConstantsAssumption ==
  /\ Types \subseteq {"Task", "TaskCluster", "TaskObject"}
  /\ ChannelOf \in [Callers -> Channels]
  /\ {AllNamespaces, Nil} \subseteq Settings /\ DefaultResync \in Periods
  /\ Options \in Seq(Option)

VARIABLES
  factory, applied,  \* the factory's configuration; how many options it has seen
  informers,         \* the informer of each type, or NoInformer
  startedInformers,  \* types whose informer was started
  shuttingDown,      \* Shutdown was called
  wg,                \* goroutines counted by the wait group: <<type, channel>>
  running,           \* goroutines in informer.Run
  synced,            \* types whose informer has listed its objects
  closed,            \* stop channels closed so far
  pc,                \* callers: "idle", "shutdown", "sync"
  left, ok,          \* callers in WaitForCacheSync: types left, all true so far
  \* history: informers made of each type; handles given out; goroutines
  \* ever begun; what each caller's last Start saw to; a Shutdown returned
  made, given, ran, wanted, down

confVars == <<factory, applied>>
factoryVars == <<confVars, informers, startedInformers, shuttingDown, wg>>
goVars == <<running, synced, closed>>
callVars == <<pc, left, ok>>
historyVars == <<made, given, ran, wanted, down>>
vars == <<factoryVars, goVars, callVars, historyVars>>

ListWatch == [resource: {"tasks", "taskclusters", "taskobjects"},
              namespace: Settings, tweakListOptions: Settings]

Informer == [id: Nat, listWatch: ListWatch, transform: Settings, resync: Periods]

NoInformer == [id |-> 0]

(* An entry of customResync is <<>> where the map has none.                *)
Configuration ==
  [namespace: Settings, tweakListOptions: Settings, transform: Settings,
   customResync: [Types -> {<<>>} \cup {<<p>> : p \in Periods}]]

TypeOK ==
  /\ factory \in Configuration /\ applied \in 0..Len(Options)
  /\ informers \in [Types -> Informer \cup {NoInformer}]
  /\ startedInformers \subseteq Types /\ shuttingDown \in BOOLEAN
  /\ wg \subseteq Types \X Channels /\ running \subseteq Types \X Channels
  /\ synced \subseteq Types /\ closed \subseteq Channels
  /\ pc \in [Callers -> {"idle", "shutdown", "sync"}]
  /\ left \in [Callers -> SUBSET Types] /\ ok \in [Callers -> BOOLEAN]
  /\ made \in [Types -> Nat] /\ given \subseteq Types \X Nat /\ ran \subseteq Types \X Channels
  /\ wanted \in [Callers -> SUBSET Types] /\ down \in BOOLEAN

sharedInformerFactory ==
  [namespace |-> AllNamespaces, tweakListOptions |-> Nil, transform |-> Nil,
   customResync |-> [t \in Types |-> <<>>]]

Init ==
  /\ factory = sharedInformerFactory /\ applied = 0
  /\ informers = [t \in Types |-> NoInformer]
  /\ startedInformers = {} /\ shuttingDown = FALSE /\ wg = {}
  /\ running = {} /\ synced = {} /\ closed = {}
  /\ pc = [c \in Callers |-> "idle"] /\ left = [c \in Callers |-> {}]
  /\ ok = [c \in Callers |-> TRUE] /\ wanted = [c \in Callers |-> {}]
  /\ made = [t \in Types |-> 0] /\ given = {} /\ ran = {} /\ down = FALSE

-----------------------------------------------------------------------------
(* Construction: one option after another, before anybody has the factory. *)

WithCustomResyncConfig(f, t, period) == [f EXCEPT !.customResync[t] = <<period>>]
WithNamespace(f, namespace) == [f EXCEPT !.namespace = namespace]
WithTweakListOptions(f, tweak) == [f EXCEPT !.tweakListOptions = tweak]
WithTransform(f, transform) == [f EXCEPT !.transform = transform]

ApplyOption(f, opt) ==
  CASE opt.set = "customResync"     -> WithCustomResyncConfig(f, opt.type, opt.to)
    [] opt.set = "namespace"        -> WithNamespace(f, opt.to)
    [] opt.set = "tweakListOptions" -> WithTweakListOptions(f, opt.to)
    [] opt.set = "transform"        -> WithTransform(f, opt.to)

Constructed == applied = Len(Options)

NewSharedInformerFactoryWithOptions ==
  /\ ~Constructed
  /\ factory' = ApplyOption(factory, Options[applied + 1])
  /\ applied' = applied + 1
  /\ UNCHANGED <<informers, startedInformers, shuttingDown, wg, goVars, callVars, historyVars>>

-----------------------------------------------------------------------------
(* Informers: InformerFor is what the Informer and Lister of every typed   *)
(* informer come down to, and ForResource too.                             *)

DefaultResyncOf(t) == DefaultResync  \* mutant: customResync never looked up

ResyncUnchecked(t) ==  \* mutant: a missing entry is not told from a zero
  IF factory.customResync[t] = <<>> THEN 0 ELSE factory.customResync[t][1]

ResyncOf(t) ==
  IF factory.customResync[t] = <<>> THEN DefaultResync ELSE factory.customResync[t][1]

(* What an informer lists and watches.                                     *)
Listing(resource) ==
  [resource |-> resource, namespace |-> factory.namespace,
   tweakListOptions |-> factory.tweakListOptions]

NewFilteredTaskInformer == Listing("tasks")
NewFilteredTaskClusterInformer == Listing("taskclusters")
NewFilteredTaskObjectInformer == Listing("taskobjects")

newFunc(t) ==
  CASE t = "Task"        -> NewFilteredTaskInformer
    [] t = "TaskCluster" -> NewFilteredTaskClusterInformer
    [] t = "TaskObject"  -> NewFilteredTaskObjectInformer

NewInformer(t) ==
  [id |-> made[t] + 1, listWatch |-> newFunc(t),
   transform |-> factory.transform, resync |-> ResyncOf(t)]

KnownNever(t) == FALSE  \* mutant: an informer that exists is not looked up

Known(t) == informers[t].id # 0

InformerFor(c, t) ==
  LET informer == IF Known(t) THEN informers[t] ELSE NewInformer(t) IN
  /\ pc[c] = "idle"
  /\ informers' = [informers EXCEPT ![t] = informer]
  /\ made' = IF Known(t) THEN made ELSE [made EXCEPT ![t] = @ + 1]
  /\ given' = given \cup {<<t, informer.id>>}
  /\ UNCHANGED <<confVars, startedInformers, shuttingDown, wg, goVars, callVars,
                 ran, wanted, down>>

TypeOf(resource) ==
  CASE resource = "tasks"        -> "Task"
    [] resource = "taskclusters" -> "TaskCluster"
    [] resource = "taskobjects"  -> "TaskObject"
    [] OTHER                     -> "none"

(* An unknown resource is an error and changes nothing.                    *)
ForResource(c, resource) ==
  TypeOf(resource) \in Types /\ InformerFor(c, TypeOf(resource))

-----------------------------------------------------------------------------
(* Start, Shutdown and WaitForCacheSync.                                   *)

Registered == {t \in Types : Known(t)}

RegisteredAll == Registered  \* mutant: startedInformers not consulted

Startable == Registered \ startedInformers

CountedLater(goroutines) == {}  \* mutant: wg.Add(1) in the goroutine, after it was begun

Counted(goroutines) == goroutines

Start(c) ==
  LET goroutines == Startable \X {ChannelOf[c]} IN
  /\ pc[c] = "idle"
  /\ IF shuttingDown
     THEN UNCHANGED <<startedInformers, wg, running, ran, wanted>>
     ELSE /\ wg' = wg \cup Counted(goroutines)
          /\ running' = running \cup goroutines
          /\ ran' = ran \cup goroutines
          /\ startedInformers' = startedInformers \cup Startable
          /\ wanted' = [wanted EXCEPT ![c] = Registered]
  /\ UNCHANGED <<confVars, informers, shuttingDown, synced, closed, callVars,
                 made, given, down>>

Shutdown(c) ==
  /\ pc[c] = "idle"
  /\ shuttingDown' = TRUE
  /\ pc' = [pc EXCEPT ![c] = "shutdown"]
  /\ UNCHANGED <<confVars, informers, startedInformers, wg, goVars, left, ok, historyVars>>

(* wg.Wait has returned.                                                   *)
ShutdownReturns(c) ==
  /\ pc[c] = "shutdown" /\ wg = {}
  /\ pc' = [pc EXCEPT ![c] = "idle"]
  /\ down' = TRUE
  /\ UNCHANGED <<factoryVars, goVars, left, ok, made, given, ran, wanted>>

WaitedForUnstarted == Registered \ startedInformers  \* mutant: the test negated

(* The snapshot that WaitForCacheSync takes under the mutex.               *)
WaitedFor == Registered \cap startedInformers

WaitForCacheSync(c) ==
  /\ pc[c] = "idle"
  /\ pc' = [pc EXCEPT ![c] = "sync"]
  /\ left' = [left EXCEPT ![c] = WaitedFor]
  /\ UNCHANGED <<factoryVars, goVars, ok, historyVars>>

(* cache.WaitForCacheSync of one informer: it listed, or stop is closed.   *)
InformerAwaited(c, t) ==
  /\ pc[c] = "sync" /\ t \in left[c]
  /\ \/ t \in synced /\ UNCHANGED ok
     \/ ChannelOf[c] \in closed /\ ok' = [ok EXCEPT ![c] = FALSE]
  /\ left' = [left EXCEPT ![c] = @ \ {t}]
  /\ UNCHANGED <<factoryVars, goVars, pc, historyVars>>

WaitReturns(c) ==
  /\ pc[c] = "sync" /\ left[c] = {}
  /\ pc' = [pc EXCEPT ![c] = "idle"]
  /\ ok' = [ok EXCEPT ![c] = TRUE]
  /\ UNCHANGED <<factoryVars, goVars, left, historyVars>>

-----------------------------------------------------------------------------
(* The goroutines, and whoever closes the stop channels.                   *)

Listed(g) ==
  /\ g \in running
  /\ synced' = synced \cup {g[1]}
  /\ UNCHANGED <<factoryVars, running, closed, callVars, historyVars>>

DoneNever(g) == wg  \* mutant: wg.Done missing

Done(g) == wg \ {g}

(* informer.Run returns; the deferred wg.Done is the goroutine's last act. *)
RunReturns(g) ==
  /\ g \in running /\ g[2] \in closed
  /\ running' = running \ {g}
  /\ wg' = Done(g)
  /\ UNCHANGED <<confVars, informers, startedInformers, shuttingDown, synced, closed,
                 callVars, historyVars>>

Close(s) ==
  /\ s \notin closed
  /\ closed' = closed \cup {s}
  /\ UNCHANGED <<factoryVars, running, synced, callVars, historyVars>>

Call(c) ==
  \/ \E t \in Types : InformerFor(c, t)
  \/ \E r \in Resources : ForResource(c, r)
  \/ Start(c) \/ Shutdown(c) \/ WaitForCacheSync(c)

Return(c) ==
  \/ ShutdownReturns(c) \/ WaitReturns(c)
  \/ \E t \in Types : InformerAwaited(c, t)

Next ==
  \/ NewSharedInformerFactoryWithOptions
  \/ Constructed /\ \E c \in Callers : Call(c)
  \/ \E c \in Callers : Return(c)
  \/ \E g \in Types \X Channels : Listed(g) \/ RunReturns(g)
  \/ \E s \in Channels : Close(s)

Spec == Init /\ [][Next]_vars

(* Goroutines are scheduled, and informer.Run returns once its channel is  *)
(* closed.  Nobody has to close a channel, and no list has to succeed.     *)
FairSpec ==
  /\ Spec
  /\ \A c \in Callers : WF_vars(Return(c))
  /\ \A g \in Types \X Channels : WF_vars(RunReturns(g))

-----------------------------------------------------------------------------
(* Every handle that was ever given out, through whichever accessor, is    *)
(* the informer that Start starts: no event handler sits on another one.   *)
HandlesAreShared ==
  \A h \in given : informers[h[1]].id = h[2]

(* No informer is run twice, whatever channels Start is called with.       *)
RunsOnce == \A g, h \in ran : g[1] = h[1] => g = h

(* Once any Shutdown has returned no informer runs, nor ever will, however *)
(* Start, Shutdown and the end of goroutines interleave.                   *)
ShutdownIsFinal == down => running = {}

(* The options apply in their order, so the last one on a matter decides.  *)
LastOf(S, default) ==
  IF S = {} THEN default ELSE Options[CHOOSE i \in S : \A j \in S : j <= i].to

LastSetting(field, default) == LastOf({i \in DOMAIN Options : Options[i].set = field}, default)

LastPeriod(t) ==
  LastOf({i \in DOMAIN Options : Options[i].set = "customResync" /\ Options[i].type = t},
         DefaultResync)

InformersAreConfigured ==
  \A t \in Registered :
    /\ informers[t].listWatch.namespace = LastSetting("namespace", AllNamespaces)
    /\ informers[t].listWatch.tweakListOptions = LastSetting("tweakListOptions", Nil)
    /\ informers[t].transform = LastSetting("transform", Nil)
    /\ informers[t].resync = LastPeriod(t)

(* The use the factory documents: ask for informers, Start, and when a     *)
(* WaitForCacheSync then reports only true they have all listed, even      *)
(* those that others had started, on another channel.                      *)
SyncedAsTold ==
  \A c \in Callers : pc[c] = "sync" /\ left[c] = {} /\ ok[c] => wanted[c] \subseteq synced

(* Shutdown returns once all stop channels are closed, and                 *)
(* WaitForCacheSync once its own is.                                       *)
CallsReturn ==
  \A c \in Callers :
    /\ (pc[c] = "shutdown" /\ closed = Channels) ~> pc[c] = "idle"
    /\ (pc[c] = "sync" /\ ChannelOf[c] \in closed) ~> pc[c] = "idle"

=============================================================================
