----------------------- MODULE InformerFactoryProofs -----------------------
(* Proofs about InformerFactory, for any types, callers, channels and      *)
(* options.                                                                *)
EXTENDS InformerFactory, TLAPS

-----------------------------------------------------------------------------
(* The inductive invariant.                                                *)

(* The informer a type has is the last one made of it, or there is none.   *)
MadeInv ==
  /\ made \in [Types -> Nat]
  /\ informers = [t \in Types |-> informers[t]]
  /\ \A t \in Types : informers[t].id = made[t]

GivenInv ==
  \A h \in given : h[1] \in Types /\ h[2] # 0 /\ h[2] = made[h[1]]

(* What was started is registered, and whatever ran was started once.      *)
StartedInv ==
  /\ startedInformers \subseteq {t \in Types : made[t] # 0}
  /\ \A g \in ran : g[1] \in startedInformers
  /\ RunsOnce

(* The wait group counts what runs, and a shutdown lets nothing begin.     *)
ShutdownInv ==
  /\ running \subseteq wg
  /\ \A c \in Callers : pc[c] = "shutdown" => shuttingDown
  /\ down => shuttingDown /\ wg = {}

(* A caller of WaitForCacheSync still waits for what has not listed.       *)
SyncInv ==
  /\ pc = [c \in Callers |-> pc[c]] /\ left = [c \in Callers |-> left[c]]
  /\ ok \in [Callers -> BOOLEAN] /\ wanted = [c \in Callers |-> wanted[c]]
  /\ \A c \in Callers : wanted[c] \subseteq startedInformers
  /\ \A c \in Callers : pc[c] = "sync" /\ ok[c] => wanted[c] \subseteq left[c] \cup synced

IInv == MadeInv /\ GivenInv /\ StartedInv /\ ShutdownInv /\ SyncInv

LEMMA RegisteredIsMade ==
  ASSUME MadeInv
  PROVE  Registered = {t \in Types : made[t] # 0}
BY DEF MadeInv, Registered, Known

LEMMA InitIInv == Init => IInv
BY DEF Init, IInv, MadeInv, GivenInv, StartedInv, ShutdownInv, SyncInv, RunsOnce, NoInformer

-----------------------------------------------------------------------------
(* One lemma per action.                                                   *)

LEMMA InformerForIInv ==
  ASSUME IInv, NEW c \in Callers, NEW t \in Types, InformerFor(c, t)
  PROVE  IInv'
<1> DEFINE informer == IF Known(t) THEN informers[t] ELSE NewInformer(t)
<1>1. /\ informers' = [informers EXCEPT ![t] = informer]
      /\ made' = IF Known(t) THEN made ELSE [made EXCEPT ![t] = @ + 1]
      /\ given' = given \cup {<<t, informer.id>>}
      /\ UNCHANGED <<startedInformers, shuttingDown, wg, goVars, callVars, ran, wanted, down>>
  BY DEF InformerFor
<1>2. MadeInv  BY DEF IInv
<1>3. informer.id = made'[t] /\ informer.id # 0
  <2>1. CASE Known(t)
    BY <1>1, <1>2, <2>1 DEF MadeInv, Known
  <2>2. CASE ~Known(t)
    BY <1>1, <1>2, <2>2 DEF MadeInv, Known, NewInformer
  <2> QED  BY <2>1, <2>2
<1> HIDE DEF informer
<1>4. \A u \in Types : made[u] # 0 => made'[u] = made[u]
  <2>1. CASE Known(t)  BY <1>1, <2>1
  <2>2. CASE ~Known(t)
    BY <1>1, <1>2, <2>2 DEF MadeInv, Known
  <2> QED  BY <2>1, <2>2
<1>5. MadeInv'
  BY <1>1, <1>2, <1>3 DEF MadeInv
<1>6. GivenInv'
  BY <1>1, <1>2, <1>3, <1>4 DEF IInv, GivenInv
<1>7. StartedInv'
  BY <1>1, <1>4 DEF IInv, StartedInv, RunsOnce, goVars
<1>8. ShutdownInv' /\ SyncInv'
  BY <1>1 DEF IInv, ShutdownInv, SyncInv, goVars, callVars
<1> QED  BY <1>5, <1>6, <1>7, <1>8 DEF IInv

LEMMA StartIInv ==
  ASSUME IInv, NEW c \in Callers, Start(c)
  PROVE  IInv'
<1>1. Registered = {t \in Types : made[t] # 0}
  BY RegisteredIsMade DEF IInv
<1>2. CASE shuttingDown
  BY <1>2 DEF Start, IInv, MadeInv, GivenInv, StartedInv, ShutdownInv, SyncInv, RunsOnce, callVars
<1>3. CASE ~shuttingDown
  <2> DEFINE goroutines == Startable \X {ChannelOf[c]}
  <2>1. /\ pc[c] = "idle"
        /\ wg' = wg \cup goroutines /\ running' = running \cup goroutines
        /\ ran' = ran \cup goroutines
        /\ startedInformers' = startedInformers \cup Startable
        /\ wanted' = [wanted EXCEPT ![c] = Registered]
        /\ UNCHANGED <<informers, shuttingDown, synced, closed, callVars, made, given, down>>
    BY <1>3 DEF Start, Counted
  <2>2. \A g \in goroutines : g[1] \in Registered /\ g[1] \notin startedInformers
    BY DEF Startable
  <2>3. \A g, h \in goroutines : g[1] = h[1] => g = h
    OBVIOUS
  <2>4. MadeInv' /\ GivenInv'
    BY <2>1 DEF IInv, MadeInv, GivenInv
  <2>5. StartedInv'
    <3>1. startedInformers' \subseteq {t \in Types : made'[t] # 0}
      BY <1>1, <2>1 DEF IInv, StartedInv, Startable
    <3>2. \A g \in goroutines : g[1] \in startedInformers'
      BY <2>1
    <3> HIDE DEF goroutines
    <3>3. \A g \in ran' : g[1] \in startedInformers'
      BY <2>1, <3>2 DEF IInv, StartedInv
    <3>4. RunsOnce'
      BY <2>1, <2>2, <2>3 DEF IInv, StartedInv, RunsOnce
    <3> QED  BY <3>1, <3>3, <3>4 DEF StartedInv
  <2>6. ShutdownInv'
    BY <1>3, <2>1 DEF IInv, ShutdownInv, callVars
  <2>7. SyncInv'
    BY <1>1, <2>1 DEF IInv, SyncInv, Startable, callVars
  <2> QED  BY <2>4, <2>5, <2>6, <2>7 DEF IInv
<1> QED  BY <1>2, <1>3

LEMMA ShutdownIInv ==
  ASSUME IInv, NEW c \in Callers, Shutdown(c) \/ ShutdownReturns(c)
  PROVE  IInv'
<1>1. MadeInv' /\ GivenInv' /\ StartedInv'
  BY DEF Shutdown, ShutdownReturns, IInv, MadeInv, GivenInv, StartedInv, RunsOnce,
         factoryVars, historyVars
<1>2. ShutdownInv'
  BY DEF Shutdown, ShutdownReturns, IInv, ShutdownInv, SyncInv, factoryVars, goVars, historyVars
<1>3. SyncInv'
  BY DEF Shutdown, ShutdownReturns, IInv, SyncInv, factoryVars, goVars, historyVars
<1> QED  BY <1>1, <1>2, <1>3 DEF IInv

(* Beginning, advancing or ending a WaitForCacheSync.                      *)
LEMMA SyncIInv ==
  ASSUME IInv, NEW c \in Callers,
         \/ WaitForCacheSync(c) \/ WaitReturns(c)
         \/ \E t \in Types : InformerAwaited(c, t)
  PROVE  IInv'
<1>1. MadeInv' /\ GivenInv' /\ StartedInv'
  BY DEF WaitForCacheSync, WaitReturns, InformerAwaited, IInv, MadeInv, GivenInv, StartedInv,
         RunsOnce, factoryVars, historyVars
<1>2. ShutdownInv'
  BY DEF WaitForCacheSync, WaitReturns, InformerAwaited, IInv, ShutdownInv, SyncInv,
         factoryVars, goVars, historyVars
<1>3. CASE WaitForCacheSync(c)
  <2>1. WaitedFor = startedInformers
    BY RegisteredIsMade DEF IInv, StartedInv, WaitedFor
  <2>2. SyncInv'
    BY <1>3, <2>1 DEF WaitForCacheSync, IInv, SyncInv, factoryVars, goVars, historyVars
  <2> QED  BY <1>1, <1>2, <2>2 DEF IInv
<1>4. CASE WaitReturns(c)
  <2>1. SyncInv'
    BY <1>4 DEF WaitReturns, IInv, SyncInv, factoryVars, goVars, historyVars
  <2> QED  BY <1>1, <1>2, <2>1 DEF IInv
<1>5. ASSUME NEW t \in Types, InformerAwaited(c, t)  PROVE IInv'
  <2>1. SyncInv'
    BY <1>5 DEF InformerAwaited, IInv, SyncInv, factoryVars, goVars, historyVars
  <2> QED  BY <1>1, <1>2, <2>1 DEF IInv
<1> QED  BY <1>3, <1>4, <1>5

LEMMA GoroutineIInv ==
  ASSUME IInv,
         \/ \E g \in Types \X Channels : Listed(g) \/ RunReturns(g)
         \/ \E s \in Channels : Close(s)
  PROVE  IInv'
<1>1. MadeInv' /\ GivenInv' /\ StartedInv'
  BY DEF Listed, RunReturns, Close, IInv, MadeInv, GivenInv, StartedInv, RunsOnce,
         factoryVars, historyVars
<1>2. ShutdownInv'
  BY DEF Listed, RunReturns, Close, Done, IInv, ShutdownInv, factoryVars, callVars, historyVars
<1>3. SyncInv'
  BY DEF Listed, RunReturns, Close, IInv, SyncInv, factoryVars, callVars, historyVars
<1> QED  BY <1>1, <1>2, <1>3 DEF IInv

LEMMA NextIInv == IInv /\ [Next]_vars => IInv'
<1> SUFFICES ASSUME IInv, [Next]_vars  PROVE IInv'
  OBVIOUS
<1>1. ASSUME NEW c \in Callers, Call(c)  PROVE IInv'
  BY <1>1, InformerForIInv, StartIInv, ShutdownIInv, SyncIInv DEF Call, ForResource
<1>2. ASSUME NEW c \in Callers, Return(c)  PROVE IInv'
  BY <1>2, ShutdownIInv, SyncIInv DEF Return
<1>3. CASE \/ \E g \in Types \X Channels : Listed(g) \/ RunReturns(g)
           \/ \E s \in Channels : Close(s)
  BY <1>3, GoroutineIInv
<1>4. CASE NewSharedInformerFactoryWithOptions
  BY <1>4 DEF NewSharedInformerFactoryWithOptions, IInv, MadeInv, GivenInv, StartedInv,
              ShutdownInv, SyncInv, RunsOnce, goVars, callVars, historyVars
<1>5. CASE UNCHANGED vars
  BY <1>5 DEF vars, IInv, MadeInv, GivenInv, StartedInv, ShutdownInv, SyncInv, RunsOnce,
              factoryVars, goVars, callVars, historyVars
<1> QED  BY <1>1, <1>2, <1>3, <1>4, <1>5 DEF Next

LEMMA Invariance == Spec => []IInv
BY InitIInv, NextIInv, PTL DEF Spec

-----------------------------------------------------------------------------
(* Whoever asks for a type's informer, through whichever accessor, before  *)
(* or after Start, gets the one informer that Start runs.                  *)
THEOREM InformersShared == Spec => []HandlesAreShared
<1>1. IInv => HandlesAreShared
  BY DEF IInv, MadeInv, GivenInv, HandlesAreShared
<1> QED  BY <1>1, Invariance, PTL

(* Start may be called any number of times, from any goroutine, with any   *)
(* channels: an informer is run once.                                      *)
THEOREM InformersRunOnce == Spec => []RunsOnce
<1>1. IInv => RunsOnce
  BY DEF IInv, StartedInv
<1> QED  BY <1>1, Invariance, PTL

(* After any Shutdown has returned no informer runs, whatever else was     *)
(* called before, meanwhile or since.                                      *)
THEOREM ShutdownEndsAll == Spec => []ShutdownIsFinal
<1>1. IInv => ShutdownIsFinal
  BY DEF IInv, ShutdownInv, ShutdownIsFinal
<1> QED  BY <1>1, Invariance, PTL

(* A WaitForCacheSync that found only true has found every informer listed *)
(* that its caller's last effective Start knew of.                         *)
THEOREM SyncIsReported == Spec => []SyncedAsTold
<1>1. IInv => SyncedAsTold
  BY DEF IInv, SyncInv, SyncedAsTold
<1> QED  BY <1>1, Invariance, PTL

-----------------------------------------------------------------------------
(* The configuration.                                                      *)

(* Those of the first n options that set a field, or the period of t.      *)
Setting(n, field) == {i \in 1..n : Options[i].set = field}

Timing(n, t) == {i \in 1..n : Options[i].set = "customResync" /\ Options[i].type = t}

(* The factory is as the options applied so far want it.                   *)
ConfiguredInv ==
  /\ factory \in Configuration /\ applied \in 0..Len(Options)
  /\ factory.namespace = LastOf(Setting(applied, "namespace"), AllNamespaces)
  /\ factory.tweakListOptions = LastOf(Setting(applied, "tweakListOptions"), Nil)
  /\ factory.transform = LastOf(Setting(applied, "transform"), Nil)
  /\ \A t \in Types :
       factory.customResync[t] = IF Timing(applied, t) = {} THEN <<>>
                                 ELSE <<LastOf(Timing(applied, t), DefaultResync)>>

(* An informer was made from the configuration, when that was complete.    *)
InformerInv ==
  \A t \in Types :
    \/ informers[t] = NoInformer
    \/ /\ Constructed /\ informers[t].id \in Nat
       /\ informers[t] = [id |-> informers[t].id, listWatch |-> newFunc(t),
                          transform |-> factory.transform, resync |-> ResyncOf(t)]

(* The option applied last decides.                                        *)
LEMMA LastOfNext ==
  ASSUME NEW n \in Nat, NEW S \in SUBSET (1..n), NEW default
  PROVE  LastOf(S \cup {n + 1}, default) = Options[n + 1].to
<1> DEFINE T == S \cup {n + 1}
<1>1. n + 1 \in T /\ \A j \in T : j <= n + 1
  OBVIOUS
<1>2. ASSUME NEW i \in T, \A j \in T : j <= i PROVE i = n + 1
  BY <1>1, <1>2
<1>3. (CHOOSE i \in T : \A j \in T : j <= i) = n + 1
  BY <1>1, <1>2
<1> QED BY <1>1, <1>3 DEF LastOf

(* What the next option adds to the indices above.                         *)
LEMMA IndicesNext ==
  ASSUME NEW n \in Nat, NEW field, NEW t
  PROVE  /\ Setting(n + 1, field) = IF Options[n + 1].set = field
                                    THEN Setting(n, field) \cup {n + 1} ELSE Setting(n, field)
         /\ Timing(n + 1, t) = IF Options[n + 1].set = "customResync" /\ Options[n + 1].type = t
                               THEN Timing(n, t) \cup {n + 1} ELSE Timing(n, t)
         /\ Setting(n, field) \subseteq 1..n /\ Timing(n, t) \subseteq 1..n
<1>1. 1..(n + 1) = 1..n \cup {n + 1}
  OBVIOUS
<1> QED BY <1>1 DEF Setting, Timing

LEMMA ConfiguredInit == Init => ConfiguredInv /\ InformerInv
<1> SUFFICES ASSUME Init PROVE ConfiguredInv /\ InformerInv
  OBVIOUS
<1>1. \A field, t : Setting(0, field) = {} /\ Timing(0, t) = {}
  BY DEF Setting, Timing
<1>2. factory \in Configuration /\ applied \in 0..Len(Options)
  BY ConstantsAssumption DEF Init, sharedInformerFactory, Configuration
<1>3. ConfiguredInv
  BY <1>1, <1>2 DEF Init, sharedInformerFactory, ConfiguredInv, LastOf
<1>4. InformerInv
  BY DEF Init, InformerInv
<1> QED BY <1>3, <1>4

(* One more option.                                                        *)
LEMMA ConfiguredStep ==
  ASSUME ConfiguredInv, NewSharedInformerFactoryWithOptions
  PROVE  ConfiguredInv'
<1>1. PICK n \in Nat : n = applied /\ n + 1 \in 1..Len(Options)
  <2>1. Len(Options) \in Nat
    BY ConstantsAssumption
  <2> QED BY <2>1 DEF ConfiguredInv, NewSharedInformerFactoryWithOptions, Constructed
<1>2. PICK opt : opt = Options[n + 1]
  OBVIOUS
<1>3. opt \in Option
  BY <1>1, <1>2, ConstantsAssumption
<1>4. factory' = ApplyOption(factory, opt) /\ applied' = n + 1
  BY <1>1, <1>2 DEF NewSharedInformerFactoryWithOptions
<1>5. factory \in Configuration
  BY DEF ConfiguredInv
<1>6. ASSUME NEW S \in SUBSET (1..n), NEW default
      PROVE  LastOf(S \cup {n + 1}, default) = opt.to
  BY <1>2, LastOfNext
<1> DEFINE Now(field) == Setting(n + 1, field)
           NowOf(t) == Timing(n + 1, t)
<1>7. /\ \A field : Now(field) = IF opt.set = field THEN Setting(n, field) \cup {n + 1}
                                 ELSE Setting(n, field)
      /\ \A t : NowOf(t) = IF opt.set = "customResync" /\ opt.type = t
                           THEN Timing(n, t) \cup {n + 1} ELSE Timing(n, t)
      /\ \A field, t : Setting(n, field) \in SUBSET (1..n) /\ Timing(n, t) \in SUBSET (1..n)
  BY <1>2, IndicesNext
<1> HIDE DEF Now, NowOf
<1>8. CASE opt.set = "customResync"
  <2>1. opt.type \in Types /\ opt.to \in Periods
    BY <1>3, <1>8 DEF Option
  <2>2. factory' = [factory EXCEPT !.customResync[opt.type] = <<opt.to>>]
    BY <1>4, <1>8 DEF ApplyOption, WithCustomResyncConfig
  <2>3. /\ factory' \in Configuration
        /\ factory'.namespace = factory.namespace /\ factory'.transform = factory.transform
        /\ factory'.tweakListOptions = factory.tweakListOptions
        /\ factory'.customResync = [factory.customResync EXCEPT ![opt.type] = <<opt.to>>]
    BY <1>5, <2>1, <2>2 DEF Configuration
  <2>4. /\ Now("namespace") = Setting(n, "namespace")
        /\ Now("tweakListOptions") = Setting(n, "tweakListOptions")
        /\ Now("transform") = Setting(n, "transform")
    BY <1>7, <1>8
  <2>5. ASSUME NEW t \in Types
        PROVE  factory'.customResync[t] = IF NowOf(t) = {} THEN <<>>
                                          ELSE <<LastOf(NowOf(t), DefaultResync)>>
    <3>1. CASE t = opt.type
      <4>1. LastOf(NowOf(t), DefaultResync) = opt.to /\ NowOf(t) # {}
        BY <1>6, <1>7, <1>8, <3>1
      <4>2. factory'.customResync[t] = <<opt.to>>
        BY <1>5, <2>3, <3>1 DEF Configuration
      <4> QED BY <4>1, <4>2
    <3>2. CASE t # opt.type
      <4>1. NowOf(t) = Timing(n, t)
        BY <1>7, <3>2
      <4>2. factory'.customResync[t] = factory.customResync[t]
        BY <1>5, <2>3, <3>2 DEF Configuration
      <4> QED BY <1>1, <4>1, <4>2 DEF ConfiguredInv
    <3> QED BY <3>1, <3>2
  <2> QED BY <1>1, <1>4, <2>3, <2>4, <2>5 DEF ConfiguredInv, Now, NowOf
<1>9. CASE opt.set # "customResync"
  <2>1. /\ opt.set \in {"namespace", "tweakListOptions", "transform"} /\ opt.to \in Settings
    BY <1>3, <1>9 DEF Option
  <2>2. \A t : NowOf(t) = Timing(n, t)
    BY <1>7, <1>9
  <2>3. ASSUME NEW field, NEW default
        PROVE  LastOf(Now(field), default)
                 = IF field = opt.set THEN opt.to ELSE LastOf(Setting(n, field), default)
    BY <1>6, <1>7
  <2>4. /\ factory' \in Configuration /\ factory'.customResync = factory.customResync
        /\ factory'.namespace = IF opt.set = "namespace" THEN opt.to ELSE factory.namespace
        /\ factory'.tweakListOptions
             = IF opt.set = "tweakListOptions" THEN opt.to ELSE factory.tweakListOptions
        /\ factory'.transform = IF opt.set = "transform" THEN opt.to ELSE factory.transform
    <3>1. CASE opt.set = "namespace"
      BY <1>4, <1>5, <2>1, <3>1 DEF ApplyOption, WithNamespace, Configuration
    <3>2. CASE opt.set = "tweakListOptions"
      BY <1>4, <1>5, <2>1, <3>2 DEF ApplyOption, WithTweakListOptions, Configuration
    <3>3. CASE opt.set = "transform"
      BY <1>4, <1>5, <2>1, <3>3 DEF ApplyOption, WithTransform, Configuration
    <3> QED BY <2>1, <3>1, <3>2, <3>3
  <2>5. /\ factory'.namespace = LastOf(Now("namespace"), AllNamespaces)
        /\ factory'.tweakListOptions = LastOf(Now("tweakListOptions"), Nil)
        /\ factory'.transform = LastOf(Now("transform"), Nil)
    BY <1>1, <2>3, <2>4 DEF ConfiguredInv
  <2> QED BY <1>1, <1>4, <2>2, <2>4, <2>5 DEF ConfiguredInv, Now, NowOf
<1> QED BY <1>8, <1>9

(* Whatever is called leaves the configuration alone, and makes informers  *)
(* only from a complete one.                                               *)
LEMMA InformersStep ==
  ASSUME IInv, ConfiguredInv, InformerInv, [Next]_vars
  PROVE  ConfiguredInv' /\ InformerInv'
<1>1. CASE NewSharedInformerFactoryWithOptions
  <2>1. InformerInv'
    BY <1>1 DEF NewSharedInformerFactoryWithOptions, InformerInv
  <2> QED BY <1>1, <2>1, ConfiguredStep
<1>2. ASSUME UNCHANGED confVars PROVE ConfiguredInv' /\ (Constructed => Constructed')
  BY <1>2 DEF confVars, ConfiguredInv, Constructed
<1>3. ASSUME UNCHANGED <<confVars, informers>> PROVE InformerInv'
  <2>1. ASSUME NEW t \in Types PROVE newFunc(t)' = newFunc(t) /\ ResyncOf(t)' = ResyncOf(t)
    BY <1>3 DEF confVars, newFunc, ResyncOf, Listing, NewFilteredTaskInformer,
                NewFilteredTaskClusterInformer, NewFilteredTaskObjectInformer
  <2> QED BY <1>3, <2>1 DEF InformerInv, Constructed, confVars
<1>4. ASSUME NEW c \in Callers, NEW t \in Types, InformerFor(c, t), Constructed
      PROVE  UNCHANGED confVars /\ InformerInv'
  <2> DEFINE informer == IF Known(t) THEN informers[t] ELSE NewInformer(t)
  <2>1. /\ informers' = [informers EXCEPT ![t] = informer]
        /\ UNCHANGED confVars
    BY <1>4 DEF InformerFor
  <2>2. ASSUME NEW u \in Types PROVE newFunc(u)' = newFunc(u) /\ ResyncOf(u)' = ResyncOf(u)
    BY <2>1 DEF confVars, newFunc, ResyncOf, Listing, NewFilteredTaskInformer,
                NewFilteredTaskClusterInformer, NewFilteredTaskObjectInformer
  <2>3. made[t] + 1 \in Nat /\ informers = [u \in Types |-> informers[u]]
    BY DEF IInv, MadeInv
  <2>4. CASE Known(t)
    <3>1. informers' = informers
      BY <2>1, <2>3, <2>4
    <3> QED BY <1>3, <2>1, <3>1
  <2>5. CASE ~Known(t)
    <3>1. /\ informers'[t] = NewInformer(t)
          /\ \A u \in Types : u # t => informers'[u] = informers[u]
      BY <2>1, <2>3, <2>5
    <3>2. NewInformer(t).id \in Nat
      BY <2>3 DEF NewInformer
    <3>3. NewInformer(t) = [id |-> NewInformer(t).id, listWatch |-> newFunc(t),
                            transform |-> factory.transform, resync |-> ResyncOf(t)]
      BY DEF NewInformer
    <3> QED BY <1>4, <2>1, <2>2, <3>1, <3>2, <3>3 DEF InformerInv, Constructed, confVars
  <2> QED BY <2>1, <2>4, <2>5
<1>5. ASSUME NEW c \in Callers, Call(c), Constructed PROVE UNCHANGED confVars /\ InformerInv'
  <2>1. CASE Start(c) \/ Shutdown(c) \/ WaitForCacheSync(c)
    BY <1>3, <2>1 DEF Start, Shutdown, WaitForCacheSync, factoryVars
  <2> QED BY <1>4, <1>5, <2>1 DEF Call, ForResource
<1>6. CASE \/ \E c \in Callers : Return(c)
           \/ \E g \in Types \X Channels : Listed(g) \/ RunReturns(g)
           \/ \E s \in Channels : Close(s)
           \/ UNCHANGED vars
  <2>1. UNCHANGED <<confVars, informers>>
    BY <1>6 DEF Return, ShutdownReturns, WaitReturns, InformerAwaited, Listed, RunReturns, Close,
                factoryVars, vars
  <2> QED BY <1>2, <1>3, <2>1
<1> QED BY <1>1, <1>2, <1>5, <1>6 DEF Next

LEMMA ConfigurationHolds == Spec => [](IInv /\ ConfiguredInv /\ InformerInv)
BY InitIInv, NextIInv, ConfiguredInit, InformersStep, PTL DEF Spec

(* Every informer lists, filters, transforms and resyncs as the last       *)
(* option on each matter wants it, whatever the options and their number,  *)
(* and whichever accessor made it.                                         *)
THEOREM OptionsTakeEffect == Spec => []InformersAreConfigured
<1>1. ASSUME IInv, ConfiguredInv, InformerInv, NEW t \in Registered
      PROVE  /\ informers[t].listWatch.namespace = LastSetting("namespace", AllNamespaces)
             /\ informers[t].listWatch.tweakListOptions = LastSetting("tweakListOptions", Nil)
             /\ informers[t].transform = LastSetting("transform", Nil)
             /\ informers[t].resync = LastPeriod(t)
  <2>1. /\ t \in Types /\ Constructed
        /\ informers[t] = [id |-> informers[t].id, listWatch |-> newFunc(t),
                           transform |-> factory.transform, resync |-> ResyncOf(t)]
    BY <1>1 DEF Registered, Known, InformerInv, NoInformer
  <2>2. DOMAIN Options = 1..applied
    BY <2>1, ConstantsAssumption DEF Constructed
  <2>3. /\ \A field, default :
             LastSetting(field, default) = LastOf(Setting(applied, field), default)
        /\ LastPeriod(t) = LastOf(Timing(applied, t), DefaultResync)
    BY <2>2 DEF LastSetting, LastPeriod, Setting, Timing
  <2>4. /\ newFunc(t).namespace = factory.namespace
        /\ newFunc(t).tweakListOptions = factory.tweakListOptions
    BY <2>1, ConstantsAssumption DEF newFunc, Listing, NewFilteredTaskInformer,
       NewFilteredTaskClusterInformer, NewFilteredTaskObjectInformer
  <2>5. ResyncOf(t) = LastOf(Timing(applied, t), DefaultResync)
    <3>1. CASE Timing(applied, t) = {}
      BY <1>1, <2>1, <3>1 DEF ConfiguredInv, ResyncOf, LastOf
    <3>2. CASE Timing(applied, t) # {}
      <4> DEFINE period == LastOf(Timing(applied, t), DefaultResync)
      <4>1. factory.customResync[t] = <<period>>
        BY <1>1, <2>1, <3>2 DEF ConfiguredInv
      <4> HIDE DEF period
      <4>2. <<period>> # <<>> /\ <<period>>[1] = period
        OBVIOUS
      <4>3. ResyncOf(t) = period
        BY <4>1, <4>2 DEF ResyncOf
      <4> QED BY <4>3 DEF period
    <3> QED BY <3>1, <3>2
  <2> QED BY <1>1, <2>1, <2>3, <2>4, <2>5 DEF ConfiguredInv
<1>2. IInv /\ ConfiguredInv /\ InformerInv => InformersAreConfigured
  BY <1>1 DEF InformersAreConfigured
<1> QED BY <1>2, ConfigurationHolds, PTL

(* The types of what the calls and goroutines work with.                   *)
CallsTyped ==
  /\ startedInformers \subseteq Types /\ shuttingDown \in BOOLEAN
  /\ wg \subseteq Types \X Channels /\ running \subseteq Types \X Channels
  /\ synced \subseteq Types /\ closed \subseteq Channels
  /\ pc \in [Callers -> {"idle", "shutdown", "sync"}]
  /\ left \in [Callers -> SUBSET Types] /\ ok \in [Callers -> BOOLEAN]
  /\ given \subseteq Types \X Nat /\ ran \subseteq Types \X Channels
  /\ wanted \in [Callers -> SUBSET Types] /\ down \in BOOLEAN

LEMMA CallsTypedStep ==
  ASSUME CallsTyped, MadeInv, [Next]_vars
  PROVE  CallsTyped'
<1> USE DEF CallsTyped, factoryVars, goVars, callVars, historyVars
<1>1. ASSUME NEW c \in Callers, NEW t \in Types, InformerFor(c, t) PROVE CallsTyped'
  <2>1. informers[t].id \in Nat /\ NewInformer(t).id \in Nat
    BY DEF MadeInv, NewInformer
  <2> QED BY <1>1, <2>1 DEF InformerFor
<1>2. ASSUME NEW c \in Callers, Start(c) PROVE CallsTyped'
  <2>1. /\ Startable \subseteq Types /\ Registered \subseteq Types /\ ChannelOf[c] \in Channels
        /\ Counted(Startable \X {ChannelOf[c]}) = Startable \X {ChannelOf[c]}
    BY ConstantsAssumption DEF Startable, Registered, Counted
  <2>2. Startable \X {ChannelOf[c]} \subseteq Types \X Channels
    BY <2>1
  <2>3. CASE shuttingDown
    BY <1>2, <2>3 DEF Start
  <2>4. CASE ~shuttingDown
    <3>1. /\ wg' \subseteq Types \X Channels /\ running' \subseteq Types \X Channels
          /\ ran' \subseteq Types \X Channels
      BY <1>2, <2>1, <2>2, <2>4 DEF Start
    <3>2. startedInformers' \subseteq Types /\ wanted' \in [Callers -> SUBSET Types]
      BY <1>2, <2>1, <2>4 DEF Start
    <3> QED BY <1>2, <3>1, <3>2 DEF Start
  <2> QED BY <2>3, <2>4
<1>3. ASSUME NEW c \in Callers, Shutdown(c) \/ ShutdownReturns(c) PROVE CallsTyped'
  BY <1>3 DEF Shutdown, ShutdownReturns
<1>4. ASSUME NEW c \in Callers, WaitForCacheSync(c) \/ WaitReturns(c) PROVE CallsTyped'
  BY <1>4 DEF WaitForCacheSync, WaitReturns, WaitedFor, Registered
<1>5. ASSUME NEW c \in Callers, NEW t \in Types, InformerAwaited(c, t) PROVE CallsTyped'
  BY <1>5 DEF InformerAwaited
<1>6. ASSUME NEW g \in Types \X Channels, Listed(g) \/ RunReturns(g) PROVE CallsTyped'
  BY <1>6 DEF Listed, RunReturns, Done
<1>7. ASSUME NEW s \in Channels, Close(s) PROVE CallsTyped'
  BY <1>7 DEF Close
<1>8. CASE NewSharedInformerFactoryWithOptions \/ UNCHANGED vars
  BY <1>8 DEF NewSharedInformerFactoryWithOptions, vars
<1> QED
  BY <1>1, <1>2, <1>3, <1>4, <1>5, <1>6, <1>7, <1>8 DEF Next, Call, Return, ForResource

(* TypeOK: in particular every informer resyncs with a period someone      *)
(* configured, and only callers' channels ever run one.                    *)
THEOREM TypeSafety == Spec => []TypeOK
<1> DEFINE Conf == IInv /\ ConfiguredInv /\ InformerInv
<1>1. ASSUME Init, Conf PROVE TypeOK
  BY <1>1 DEF Init, TypeOK, ConfiguredInv, IInv, MadeInv
<1>2. ASSUME Conf, Conf', TypeOK, [Next]_vars PROVE TypeOK'
  <2>1. /\ factory' \in Configuration /\ applied' \in 0..Len(Options)
        /\ made' \in [Types -> Nat]
    BY <1>2 DEF ConfiguredInv, IInv, MadeInv
  <2>2. informers' \in [Types -> Informer \cup {NoInformer}]
    <3>1. ASSUME NEW t \in Types PROVE informers[t]' \in Informer \cup {NoInformer}
      <4>1. newFunc(t)' \in ListWatch
        BY <2>1, <3>1, ConstantsAssumption DEF newFunc, Listing, NewFilteredTaskInformer,
           NewFilteredTaskClusterInformer, NewFilteredTaskObjectInformer, ListWatch, Configuration
      <4>2. ResyncOf(t)' \in Periods /\ factory'.transform \in Settings
        BY <2>1, ConstantsAssumption DEF ResyncOf, Configuration
      <4>3. CASE informers[t]' # NoInformer
        <5>1. /\ informers[t].id' \in Nat
              /\ informers[t]' = [id |-> informers[t].id', listWatch |-> newFunc(t)',
                                  transform |-> factory.transform', resync |-> ResyncOf(t)']
          BY <1>2, <4>3 DEF InformerInv
        <5> QED BY <4>1, <4>2, <5>1 DEF Informer
      <4> QED BY <4>3
    <3> QED BY <1>2, <3>1 DEF IInv, MadeInv
  <2>3. CallsTyped'
    BY <1>2, CallsTypedStep DEF TypeOK, CallsTyped, IInv
  <2> QED BY <2>1, <2>2, <2>3 DEF TypeOK, CallsTyped
<1> QED BY <1>1, <1>2, ConfigurationHolds, PTL DEF Spec

=============================================================================
