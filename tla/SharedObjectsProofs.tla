------------------------ MODULE SharedObjectsProofs ------------------------
(* Proofs about SharedObjects, for any objects, versions and workers: what *)
(* is cached is read-only, copies are private, and requests are whole.     *)
EXTENDS SharedObjects, TLAPS

-----------------------------------------------------------------------------
(* The inductive invariant.                                                *)

(* An object's references lead to cells of its own.                        *)
Own(o) == \A f \in Fields : refs[o][f] \in {Nil, <<o, f>>}

(* A delivered version holds what was decoded for it, and nothing that its *)
(* deep copy would pass over.                                              *)
Pristine(o) ==
  /\ status[o] = {o}
  /\ \A f \in Fields : refs[o][f] # Nil =>
       cell[<<o, f>>] = {o} /\ f \in Allocated[KindOf(o[1])]

MemoryInv ==
  /\ \A o \in Published \cup Copies : Own(o)
  /\ \A o \in Published : IsDelivered(o) => Pristine(o)
  /\ \A d \in Drafts, f \in Fields : refs[d][f] \in {Nil} \cup (Published \X Fields)

Mine(w) == held[w][KindFor(w)]

(* Workers hold pointers to delivered versions of the right kind, and they *)
(* hold them where they need them.                                         *)
HeldInv(w) ==
  /\ \A kind \in Kinds : held[w][kind] # Nil =>
       held[w][kind] \in Published /\ IsDelivered(held[w][kind]) /\ KindOf(held[w][kind][1]) = kind
  /\ pc[w] # "idle" => Mine(w) # Nil
  /\ pc[w] \in {"append", "patch", "running", "finished"} => w \in TaskWorkers /\ held[w]["Pod"] # Nil
  /\ pc[w] \in {"cluster", "deployment", "available"} => w \in ClusterWorkers
  /\ pc[w] = "update" => w \in ClusterWorkers \/ held[w]["Pod"] # Nil
  /\ pc[w] = "task" => w \in TaskWorkers

Changes(w) == IF w \in ClusterWorkers THEN {Available} ELSE {Finished, held[w]["Pod"]}

(* What a worker made is the version it holds and its own change.          *)
MadeInv(w) ==
  /\ pc[w] = "patch" =>
       Pointed(<<w, "Pod">>, "containers") =
         Pointed(held[w]["Pod"], "containers") \cup {held[w]["Task"]}
  /\ pc[w] = "deployment" =>
       refs[<<w, "Deployment">>]["replicas"] = refs[Mine(w)]["replicas"]
  /\ pc[w] = "update" =>
       /\ \E s \in Changes(w) : status[<<w, KindFor(w)>>] = {Mine(w), s}
       /\ \A f \in Fields : Pointed(<<w, KindFor(w)>>, f) = Pointed(Mine(w), f)

SentInv(w) ==
  /\ sent[w] # NoRequest =>
       \/ Whole(w)
       \/ w \in TaskWorkers /\ OneContainer(w)
       \/ w \in ClusterWorkers /\ sent[w] =
            [NoRequest EXCEPT !["replicas"] = Content(held[w]["TaskCluster"])["replicas"]]
  /\ pc[w] \in {"idle", "task"} => sent[w] = NoRequest

WorkerInv(w) == HeldInv(w) /\ MadeInv(w) /\ SentInv(w)

IInv == TypeOK /\ MemoryInv /\ \A w \in Workers : WorkerInv(w)

-----------------------------------------------------------------------------
(* Objects of one worker are not those of another, nor cached ones.        *)
LEMMA Apart ==
  /\ \A o \in Published : o[1] \in Keys /\ o \in Objects
  /\ \A w \in Workers : w \notin Keys
  /\ \A w \in Workers, kind \in Kinds \cup {"Deployment"} :
       <<w, kind>> \in Objects /\ <<w, kind>>[1] = w
  /\ \A o \in Copies \cup Drafts : o[1] \in Workers
  /\ Nil \notin Published /\ Nil \notin Cells
BY KeysAssumption DEF Published, Copies, Drafts, Objects

(* A step that changes no object outside of S.                             *)
Keeps(S) ==
  /\ \A o \in Objects : o \notin S => refs'[o] = refs[o] /\ status'[o] = status[o]
  /\ \A c \in Cells : c[1] \notin S => cell'[c] = cell[c]
  /\ \A o \in Published : IsDelivered(o) => IsDelivered(o)'

LEMMA PointedKept ==
  ASSUME NEW S, Keeps(S), NEW o \in Objects, o \notin S,
         \A f \in Fields : refs[o][f] # Nil => refs[o][f] \in Cells /\ refs[o][f][1] \notin S
  PROVE  (\A f \in Fields : Pointed(o, f)' = Pointed(o, f)) /\ Content(o)' = Content(o)
<1>1. \A f \in Fields : Pointed(o, f)' = Pointed(o, f)
  BY DEF Keeps, Pointed
<1> QED  BY <1>1 DEF Keeps, Content

LEMMA PublishedKept ==
  ASSUME MemoryInv, NEW S, Keeps(S), NEW o \in Published, o \notin S
  PROVE  /\ \A f \in Fields : Pointed(o, f)' = Pointed(o, f)
         /\ Content(o)' = Content(o) /\ Own(o)' /\ (IsDelivered(o) => Pristine(o)')
<1>1. o \in Objects /\ \A f \in Fields : <<o, f>> \in Cells /\ <<o, f>>[1] \notin S
  BY Apart DEF Cells
<1>2. \A f \in Fields : refs[o][f] # Nil => refs[o][f] \in Cells /\ refs[o][f][1] \notin S
  BY <1>1 DEF MemoryInv, Own
<1>3. Own(o)'
  BY <1>1 DEF Keeps, MemoryInv, Own
<1>4. ASSUME IsDelivered(o)  PROVE Pristine(o)'
  BY <1>1, <1>4 DEF Keeps, MemoryInv, Pristine
<1> QED  BY <1>1, <1>2, <1>3, <1>4, PointedKept

(* What was sent stays whole.                                              *)
LEMMA SentKept ==
  ASSUME MemoryInv, NEW S, Keeps(S), NEW u \in Workers, HeldInv(u), SentInv(u),
         \A o \in Published : IsDelivered(o) => o \notin S,
         held'[u] = held[u], sent'[u] = sent[u],
         sent[u] # NoRequest => pc[u] # "idle" /\ pc'[u] \notin {"idle", "task"}
  PROVE  SentInv(u)'
<1>1. CASE sent[u] = NoRequest
  BY <1>1 DEF SentInv
<1>2. CASE sent[u] # NoRequest
  <2> DEFINE o == held[u][KindFor(u)]
             C == Content(o)
  <2>1. o = Mine(u) /\ o' = o /\ Changes(u)' = Changes(u)
    BY DEF Mine, Changes
  <2>2. o \in Published /\ o \notin S
    BY <1>2, <2>1 DEF HeldInv, Mine, KindFor, Kinds
  <2>3. C' = C
    BY <2>1, <2>2, PublishedKept DEF Content, Pointed
  <2>4. (u \in TaskWorkers => o = held[u]["Task"]) /\ (u \in ClusterWorkers => o = held[u]["TaskCluster"])
    BY KeysAssumption DEF KindFor
  <2>5. Whole(u) <=> \E s \in Changes(u) : sent[u] = [C EXCEPT !["status"] = {o, s}]
    BY DEF Whole, Changes
  <2>6. Whole(u)' <=> \E s \in Changes(u)' : sent'[u] = [C' EXCEPT !["status"] = {o', s}]
    BY DEF Whole, Changes
  <2>7. u \in TaskWorkers => (OneContainer(u) <=> sent[u] =
          [NoRequest EXCEPT !["containers"] = {o}, !["command"] = C["command"], !["args"] = C["args"]])
    BY <2>4 DEF OneContainer
  <2>8. u \in TaskWorkers => (OneContainer(u)' <=> sent'[u] =
          [NoRequest EXCEPT !["containers"] = {o'}, !["command"] = C'["command"], !["args"] = C'["args"]])
    BY DEF OneContainer, KindFor
  <2>9. u \in ClusterWorkers =>
          /\ C = Content(held[u]["TaskCluster"])
          /\ C' = Content(held[u]["TaskCluster"])'
    BY <2>4 DEF Content, Pointed
  <2> HIDE DEF o, C
  <2>10. \/ Whole(u)'
         \/ u \in TaskWorkers /\ OneContainer(u)'
         \/ u \in ClusterWorkers /\ sent'[u] =
              [NoRequest EXCEPT !["replicas"] = Content(held[u]["TaskCluster"])'["replicas"]]
    BY <1>2, <2>1, <2>3, <2>5, <2>6, <2>7, <2>8, <2>9 DEF SentInv
  <2> QED  BY <1>2, <2>10 DEF SentInv
<1> QED  BY <1>1, <1>2

(* A worker that the step is not of finds everything as it left it.        *)
LEMMA OtherInv ==
  ASSUME IInv, NEW S, Keeps(S), NEW u \in Workers,
         \A o \in Published : IsDelivered(o) => o \notin S,
         \A o \in S : o[1] # u,
         pc'[u] = pc[u], held'[u] = held[u], sent'[u] = sent[u]
  PROVE  WorkerInv(u)'
<1>1. HeldInv(u) /\ MadeInv(u) /\ SentInv(u)
  BY DEF IInv, WorkerInv
<1>2. \A o \in Published : o \notin S => (\A f \in Fields : Pointed(o, f)' = Pointed(o, f))
  BY PublishedKept DEF IInv
<1>3. HeldInv(u)'
  BY <1>1 DEF HeldInv, Keeps, Mine
<1>4. Mine(u)' = Mine(u) /\ Changes(u)' = Changes(u)
  BY DEF Mine, Changes
<1>5. ASSUME NEW kind \in Kinds
      PROVE  /\ \A f \in Fields : Pointed(<<u, kind>>, f)' = Pointed(<<u, kind>>, f)
             /\ status'[<<u, kind>>] = status[<<u, kind>>]
  <2>1. <<u, kind>> \in Objects /\ <<u, kind>> \in Copies /\ <<u, kind>> \notin S
    BY Apart DEF Copies
  <2>2. \A f \in Fields : refs[<<u, kind>>][f] \in {Nil, <<<<u, kind>>, f>>}
    BY <2>1 DEF IInv, MemoryInv, Own
  <2>3. \A f \in Fields : <<<<u, kind>>, f>> \in Cells /\ <<<<u, kind>>, f>>[1] \notin S
    BY <2>1 DEF Cells
  <2>4. \A f \in Fields : refs[<<u, kind>>][f] # Nil =>
           refs[<<u, kind>>][f] \in Cells /\ refs[<<u, kind>>][f][1] \notin S
    BY <2>2, <2>3
  <2>5. \A f \in Fields : Pointed(<<u, kind>>, f)' = Pointed(<<u, kind>>, f)
    BY <2>1, <2>4, PointedKept
  <2> QED  BY <2>1, <2>5 DEF Keeps
<1>6. \A kind \in Kinds : held[u][kind] # Nil => held[u][kind] \in Published /\ held[u][kind] \notin S
  BY <1>1 DEF HeldInv
<1>7. KindFor(u) \in Kinds /\ (pc[u] # "idle" => Mine(u) \in Published /\ Mine(u) \notin S)
  BY <1>1, <1>6 DEF HeldInv, Mine, KindFor, Kinds
<1>8. MadeInv(u)'
  <2>1. ASSUME pc[u] = "patch"
        PROVE  Pointed(<<u, "Pod">>, "containers")' =
                 Pointed(held[u]["Pod"], "containers")' \cup {held[u]["Task"]}
    <3>1. held[u]["Pod"] \in Published /\ held[u]["Pod"] \notin S
      BY <1>1, <1>6, <2>1 DEF HeldInv, Kinds
    <3>2. Pointed(held[u]["Pod"], "containers")' = Pointed(held[u]["Pod"], "containers")
      BY <1>2, <3>1 DEF Fields, Pointed
    <3> QED
      BY <1>1, <1>5, <2>1, <3>2 DEF MadeInv, Kinds, Fields
  <2>2. ASSUME pc[u] = "deployment"
        PROVE  refs'[<<u, "Deployment">>]["replicas"] = refs'[Mine(u)]["replicas"]
    BY <1>1, <1>7, <2>2, Apart DEF MadeInv, Keeps
  <2>3. ASSUME pc[u] = "update"
        PROVE  /\ \E s \in Changes(u) : status'[<<u, KindFor(u)>>] = {Mine(u), s}
               /\ \A f \in Fields : Pointed(<<u, KindFor(u)>>, f)' = Pointed(Mine(u), f)'
    <3>1. \A f \in Fields : Pointed(Mine(u), f)' = Pointed(Mine(u), f)
      BY <1>2, <1>4, <1>7, <2>3 DEF Pointed
    <3> QED
      BY <1>1, <1>5, <1>7, <2>3, <3>1 DEF MadeInv
  <2> QED
    BY <1>4, <2>1, <2>2, <2>3 DEF MadeInv
<1>9. SentInv(u)'
  <2>1. sent[u] # NoRequest => pc[u] \notin {"idle", "task"}
    BY <1>1 DEF SentInv
  <2> QED  BY <1>1, <2>1, SentKept DEF IInv
<1> QED  BY <1>3, <1>8, <1>9 DEF WorkerInv

-----------------------------------------------------------------------------
(* A step of worker w changes what is w's.                                 *)

Of(w) == {o \in Objects : o[1] = w}

OthersKeep(w) ==
  /\ delivered' = delivered
  /\ Keeps(Of(w))
  /\ \A u \in Workers : u # w => pc'[u] = pc[u] /\ held'[u] = held[u] /\ sent'[u] = sent[u]

LEMMA OwnSuffices ==
  ASSUME IInv, NEW w \in Workers, OthersKeep(w), TypeOK', WorkerInv(w)',
         \A kind \in Kinds : Own(<<w, kind>>)',
         \A f \in Fields : refs'[<<w, "Deployment">>][f] \in {Nil} \cup (Published \X Fields)
  PROVE  IInv'
<1>1. \A o \in Published : o \notin Of(w)
  BY Apart DEF Of
<1>2. \A o \in Published : Own(o)' /\ (IsDelivered(o)' => Pristine(o)')
  BY <1>1, PublishedKept DEF IInv, OthersKeep, IsDelivered
<1>3. ASSUME NEW o \in Copies  PROVE Own(o)'
  <2>1. PICK u \in Workers, kind \in Kinds : o = <<u, kind>>
    BY DEF Copies
  <2>2. CASE u = w
    BY <2>1, <2>2
  <2>3. CASE u # w
    <3>1. refs'[o] = refs[o]
      BY <2>1, <2>3, Apart DEF OthersKeep, Keeps, Of
    <3> QED  BY <3>1 DEF IInv, MemoryInv, Own
  <2> QED  BY <2>2, <2>3
<1>4. ASSUME NEW d \in Drafts, NEW f \in Fields
      PROVE  refs'[d][f] \in {Nil} \cup (Published \X Fields)
  <2>1. PICK u \in Workers : d = <<u, "Deployment">>
    BY DEF Drafts
  <2>2. CASE u # w
    BY <2>1, <2>2, Apart DEF OthersKeep, Keeps, Of, IInv, MemoryInv
  <2> QED  BY <2>1, <2>2
<1>5. MemoryInv'
  BY <1>2, <1>3, <1>4 DEF MemoryInv
<1>6. ASSUME NEW u \in Workers, u # w  PROVE WorkerInv(u)'
  BY <1>1, <1>6, OtherInv DEF OthersKeep, Of
<1> QED  BY <1>5, <1>6 DEF IInv

-----------------------------------------------------------------------------
(* Steps that write no memory.                                             *)

LEMMA NoWrite ==
  ASSUME IInv, NEW w \in Workers, UNCHANGED <<delivered, refs, status, cell>>,
         \A u \in Workers : u # w => pc'[u] = pc[u] /\ held'[u] = held[u] /\ sent'[u] = sent[u],
         TypeOK', WorkerInv(w)'
  PROVE  IInv' /\ OthersKeep(w)
<1>1. OthersKeep(w)
  BY DEF OthersKeep, Keeps, IsDelivered
<1>2. \A kind \in Kinds : Own(<<w, kind>>)'
  BY DEF IInv, MemoryInv, Own, Copies
<1>3. \A f \in Fields : refs'[<<w, "Deployment">>][f] \in {Nil} \cup (Published \X Fields)
  BY DEF IInv, MemoryInv, Drafts
<1> QED  BY <1>1, <1>2, <1>3, OwnSuffices

(* A pointer to what is cached is a pointer to a delivered version.        *)
LEMMA CachedDelivered ==
  ASSUME TypeOK, NEW k \in Keys, Found(k)
  PROVE  Cached(k) \in Published /\ IsDelivered(Cached(k)) /\ Cached(k)[1] = k
BY KeysAssumption DEF TypeOK, Found, Cached, Published, IsDelivered

LEMMA GetInv ==
  ASSUME IInv, NEW w \in Workers, NEW k \in Keys, Get(w, k), KindOf(k) = KindFor(w),
         NEW label \in {"task", "cluster"}, Goto(w, label),
         label = "task" <=> w \in TaskWorkers
  PROVE  IInv' /\ OthersKeep(w)
<1>1. /\ pc[w] = "idle" /\ Found(k) /\ UNCHANGED <<delivered, refs, status, cell, sent>>
      /\ pc' = [pc EXCEPT ![w] = label]
      /\ held' = [held EXCEPT ![w] = [held[w] EXCEPT ![KindOf(k)] = Cached(k)]]
  BY DEF Get, Hold, Goto, memory
<1>2. KindFor(w) \in Kinds
  BY DEF KindFor, Kinds
<1>3. Cached(k) \in Published /\ IsDelivered(Cached(k)) /\ Cached(k)[1] = k /\ Cached(k) # Nil
  BY <1>1, CachedDelivered, Apart DEF IInv
<1>4. held[w] \in [Kinds -> Published \cup {Nil}]
  BY DEF IInv, TypeOK
<1>5. /\ held'[w][KindOf(k)] = Cached(k) /\ held'[w] \in [Kinds -> Published \cup {Nil}]
      /\ \A kind \in Kinds : kind # KindOf(k) => held'[w][kind] = held[w][kind]
  BY <1>1, <1>2, <1>3, <1>4 DEF IInv, TypeOK
<1>6. TypeOK'
  BY <1>1, <1>5 DEF IInv, TypeOK
<1>7. pc'[w] = label /\ sent'[w] = NoRequest
  BY <1>1 DEF IInv, TypeOK, WorkerInv, SentInv
<1>8. HeldInv(w)'
  <2>1. \A kind \in Kinds : held'[w][kind] # Nil =>
          /\ held'[w][kind] \in Published /\ IsDelivered(held'[w][kind])
          /\ KindOf(held'[w][kind][1]) = kind
    BY <1>3, <1>5 DEF IInv, WorkerInv, HeldInv
  <2>2. w \in TaskWorkers \/ w \in ClusterWorkers
    BY DEF Workers
  <2> QED
    BY <1>1, <1>2, <1>3, <1>5, <1>7, <2>1, <2>2 DEF HeldInv, Mine, IsDelivered
<1>9. MadeInv(w)' /\ SentInv(w)'
  BY <1>7 DEF MadeInv, SentInv
<1>10. \A u \in Workers : u # w => pc'[u] = pc[u] /\ held'[u] = held[u]
  BY <1>1 DEF IInv, TypeOK
<1> QED  BY <1>1, <1>6, <1>8, <1>9, <1>10, NoWrite DEF WorkerInv

LEMMA GetPodInv ==
  ASSUME IInv, NEW w \in TaskWorkers, NEW k \in Pods, GetPod(w, k)
  PROVE  IInv' /\ OthersKeep(w)
<1>1. /\ pc[w] = "task" /\ Found(k) /\ UNCHANGED <<delivered, refs, status, cell, sent>>
      /\ \E label \in {"append", "finished"} : pc' = [pc EXCEPT ![w] = label]
  BY DEF GetPod, Goto, memory
<1>2. w \in Workers /\ w \notin ClusterWorkers /\ k \in Keys /\ KindOf(k) = "Pod" /\ KindFor(w) = "Task"
  BY KeysAssumption DEF Workers, Keys, KindOf, KindFor
<1>3. held' = [held EXCEPT ![w] = [held[w] EXCEPT !["Pod"] = Cached(k)]]
  BY <1>2 DEF GetPod, Hold
<1>4. Cached(k) \in Published /\ IsDelivered(Cached(k)) /\ Cached(k)[1] = k /\ Cached(k) # Nil
  BY <1>1, <1>2, CachedDelivered, Apart DEF IInv
<1>5. held[w] \in [Kinds -> Published \cup {Nil}]
  BY <1>2 DEF IInv, TypeOK
<1>6. /\ held'[w]["Pod"] = Cached(k) /\ held'[w] \in [Kinds -> Published \cup {Nil}]
      /\ \A kind \in Kinds : kind # "Pod" => held'[w][kind] = held[w][kind]
  BY <1>2, <1>3, <1>4, <1>5 DEF IInv, TypeOK, Kinds
<1>7. TypeOK'
  BY <1>1, <1>2, <1>3, <1>6 DEF IInv, TypeOK
<1>8. pc'[w] \in {"append", "finished"} /\ sent'[w] = NoRequest
  BY <1>1, <1>2 DEF IInv, TypeOK, WorkerInv, SentInv
<1>9. HeldInv(w)'
  <2>1. \A kind \in Kinds : held'[w][kind] # Nil =>
          /\ held'[w][kind] \in Published /\ IsDelivered(held'[w][kind])
          /\ KindOf(held'[w][kind][1]) = kind
    BY <1>2, <1>4, <1>6 DEF IInv, WorkerInv, HeldInv
  <2>2. held'[w]["Task"] # Nil
    BY <1>1, <1>2, <1>6 DEF IInv, WorkerInv, HeldInv, Mine, Kinds
  <2> QED
    BY <1>1, <1>2, <1>4, <1>6, <1>8, <2>1, <2>2 DEF HeldInv, Mine, IsDelivered
<1>10. MadeInv(w)' /\ SentInv(w)'
  BY <1>8 DEF MadeInv, SentInv
<1>11. \A u \in Workers : u # w => pc'[u] = pc[u] /\ held'[u] = held[u]
  BY <1>1, <1>3 DEF IInv, TypeOK
<1> QED  BY <1>1, <1>2, <1>7, <1>9, <1>10, <1>11, NoWrite DEF WorkerInv

(* What a delivered version points to is its own.                          *)
LEMMA PointedPristine ==
  ASSUME MemoryInv, NEW o \in Published, IsDelivered(o), NEW f \in Fields
  PROVE  /\ Pointed(o, f) = {} \/ Pointed(o, f) = {o}
         /\ refs[o][f] # Nil => f \in Allocated[KindOf(o[1])]
BY DEF MemoryInv, Own, Pristine, Pointed

LEMMA PatchInv ==
  ASSUME IInv, NEW w \in TaskWorkers, patchPodEphemeralContainers(w)
  PROVE  IInv' /\ OthersKeep(w)
<1> DEFINE task == held[w]["Task"]
           pod == held[w]["Pod"]
           diff == Pointed(<<w, "Pod">>, "containers") \ Pointed(pod, "containers")
           request == [NoRequest EXCEPT !["containers"] = diff, !["command"] = Pointed(task, "command"),
                                        !["args"] = Pointed(task, "args")]
<1>1. /\ pc[w] = "patch" /\ UNCHANGED <<delivered, refs, status, cell, held>>
      /\ pc' = [pc EXCEPT ![w] = "running"] /\ sent' = [sent EXCEPT ![w] = request]
  BY DEF patchPodEphemeralContainers, Goto, memory, CopyOf
<1>2. w \in Workers /\ w \notin ClusterWorkers /\ KindFor(w) = "Task"
  BY KeysAssumption DEF Workers, KindFor
<1>3. HeldInv(w) /\ MadeInv(w)
  BY <1>2 DEF IInv, WorkerInv
<1>4. /\ task \in Published /\ IsDelivered(task) /\ KindOf(task[1]) = "Task"
      /\ pod \in Published /\ IsDelivered(pod) /\ KindOf(pod[1]) = "Pod"
  BY <1>1, <1>2, <1>3 DEF HeldInv, Mine, Kinds
<1>5. diff = {task}
  <2>1. Pointed(<<w, "Pod">>, "containers") = Pointed(pod, "containers") \cup {task}
    BY <1>1, <1>3 DEF MadeInv
  <2>2. Pointed(pod, "containers") = {} \/ Pointed(pod, "containers") = {pod}
    BY <1>4, PointedPristine DEF IInv, Fields
  <2>3. task # pod
    BY <1>4
  <2> QED  BY <2>1, <2>2, <2>3
<1>6. /\ Pointed(task, "command") = Content(task)["command"]
      /\ Pointed(task, "args") = Content(task)["args"]
  BY DEF Content, Fields
<1>7. pc'[w] = "running" /\ sent'[w] = request
  BY <1>1, <1>2 DEF IInv, TypeOK
<1>8. TypeOK'
  <2>1. \A f \in Fields : Pointed(task, f) \in SUBSET Parts
    BY <1>4, PointedPristine DEF IInv, Parts
  <2>2. {task} \in SUBSET Parts
    BY <1>4 DEF Parts
  <2>3. request \in [Fields \cup {"status"} -> SUBSET Parts]
    BY <1>5, <2>1, <2>2 DEF NoRequest, Fields
  <2> HIDE DEF request
  <2> QED  BY <1>1, <1>2, <2>3 DEF IInv, TypeOK
<1>9. HeldInv(w)'
  BY <1>1, <1>2, <1>3, <1>7 DEF HeldInv, Mine, IsDelivered
<1>10. SentInv(w)'
  <2>1. task' = task /\ Content(task)' = Content(task)
    BY <1>1 DEF Content, Pointed
  <2> DEFINE C == Content(task)
  <2>2. request = [NoRequest EXCEPT !["containers"] = {task}, !["command"] = C["command"],
                                    !["args"] = C["args"]]
    BY <1>5, <1>6
  <2>3. OneContainer(w)' <=> sent'[w] =
          [NoRequest EXCEPT !["containers"] = {task'}, !["command"] = C'["command"],
                            !["args"] = C'["args"]]
    BY DEF OneContainer
  <2> HIDE DEF C, request, task
  <2>4. OneContainer(w)'
    BY <1>7, <2>1, <2>2, <2>3 DEF C
  <2> QED  BY <1>7, <2>4 DEF SentInv
<1>11. MadeInv(w)'
  BY <1>7 DEF MadeInv
<1>12. \A u \in Workers : u # w => pc'[u] = pc[u] /\ sent'[u] = sent[u]
  BY <1>1 DEF IInv, TypeOK
<1> QED  BY <1>1, <1>2, <1>8, <1>9, <1>10, <1>11, <1>12, NoWrite DEF WorkerInv

LEMMA UpdateStatusInv ==
  ASSUME IInv, NEW w \in Workers, UpdateStatus(w)
  PROVE  IInv' /\ OthersKeep(w)
<1> DEFINE copied == <<w, KindFor(w)>>
           o == Mine(w)
           request == [f \in Fields \cup {"status"} |->
                         IF f = "status" THEN status[copied] ELSE Pointed(copied, f)]
<1>1. /\ pc[w] = "update" /\ UNCHANGED <<delivered, refs, status, cell, pc, held>>
      /\ sent' = [sent EXCEPT ![w] = request]
  BY DEF UpdateStatus, memory, CopyOf
<1>2. HeldInv(w) /\ MadeInv(w)
  BY DEF IInv, WorkerInv
<1>3. PICK s \in Changes(w) : status[copied] = {o, s}
  BY <1>1, <1>2 DEF MadeInv
<1>4. \A f \in Fields : Pointed(copied, f) = Pointed(o, f)
  BY <1>1, <1>2 DEF MadeInv
<1>5. o \in Published /\ IsDelivered(o) /\ KindFor(w) \in Kinds
  BY <1>1, <1>2 DEF HeldInv, Mine, KindFor, Kinds
<1>6. request = [Content(o) EXCEPT !["status"] = {o, s}]
  BY <1>3, <1>4 DEF Content, Fields
<1>7. sent'[w] = request
  BY <1>1 DEF IInv, TypeOK
<1>8. TypeOK'
  <2>1. \A f \in Fields : Pointed(copied, f) \in SUBSET Parts
    BY <1>4, <1>5, PointedPristine DEF IInv, Parts
  <2>2. status[copied] \in SUBSET Parts
    BY <1>5, Apart DEF IInv, TypeOK
  <2>3. request \in [Fields \cup {"status"} -> SUBSET Parts]
    BY <2>1, <2>2
  <2> HIDE DEF request
  <2> QED  BY <1>1, <2>3 DEF IInv, TypeOK
<1>9. HeldInv(w)'
  BY <1>1, <1>2 DEF HeldInv, Mine, IsDelivered
<1>10. MadeInv(w)'
  BY <1>1, <1>2 DEF MadeInv, Changes, Mine, Pointed
<1>11. SentInv(w)'
  <2>1. o' = o /\ Content(o)' = Content(o) /\ Changes(w)' = Changes(w)
    BY <1>1 DEF Mine, Content, Pointed, Changes
  <2> DEFINE C == Content(o)
  <2>2. Whole(w)' <=> \E t \in Changes(w)' : sent'[w] = [C' EXCEPT !["status"] = {o', t}]
    BY DEF Whole, Changes, Mine, Content, Pointed
  <2> HIDE DEF C, request, o
  <2>3. Whole(w)'
    BY <1>3, <1>6, <1>7, <2>1, <2>2 DEF C
  <2> QED  BY <1>1, <2>3 DEF SentInv
<1>12. \A u \in Workers : u # w => pc'[u] = pc[u] /\ sent'[u] = sent[u]
  BY <1>1 DEF IInv, TypeOK
<1> QED  BY <1>1, <1>8, <1>9, <1>10, <1>11, <1>12, NoWrite DEF WorkerInv

LEMMA SendInv ==
  ASSUME IInv, NEW w \in Workers, SendDeployment(w)
  PROVE  IInv' /\ OthersKeep(w)
<1> DEFINE o == Mine(w)
           request == [NoRequest EXCEPT !["replicas"] = Pointed(<<w, "Deployment">>, "replicas")]
<1>1. /\ pc[w] = "deployment" /\ UNCHANGED <<delivered, refs, status, cell, held>>
      /\ pc' = [pc EXCEPT ![w] = "available"] /\ sent' = [sent EXCEPT ![w] = request]
  BY DEF SendDeployment, Goto, memory
<1>2. HeldInv(w) /\ MadeInv(w)
  BY DEF IInv, WorkerInv
<1>3. w \in ClusterWorkers /\ KindFor(w) = "TaskCluster" /\ o \in Published /\ IsDelivered(o)
  BY <1>1, <1>2, KeysAssumption DEF HeldInv, Mine, KindFor, Kinds
<1>4. Pointed(<<w, "Deployment">>, "replicas") = Pointed(o, "replicas")
  BY <1>1, <1>2 DEF MadeInv, Pointed
<1>5. pc'[w] = "available" /\ sent'[w] = request
  BY <1>1 DEF IInv, TypeOK
<1>6. TypeOK'
  <2>1. Pointed(o, "replicas") \in SUBSET Parts
    BY <1>3, PointedPristine DEF IInv, Parts, Fields
  <2>2. request \in [Fields \cup {"status"} -> SUBSET Parts]
    BY <1>4, <2>1 DEF NoRequest, Fields
  <2> HIDE DEF request
  <2> QED  BY <1>1, <2>2 DEF IInv, TypeOK
<1>7. HeldInv(w)'
  BY <1>1, <1>2, <1>3, <1>5 DEF HeldInv, Mine, IsDelivered
<1>8. MadeInv(w)'
  BY <1>5 DEF MadeInv
<1>9. SentInv(w)'
  <2> DEFINE r == Content(held[w]["TaskCluster"])["replicas"]
  <2>1. Pointed(o, "replicas") = r /\ r' = r
    BY <1>1, <1>3 DEF Content, Fields, Mine, Pointed
  <2>2. request = [NoRequest EXCEPT !["replicas"] = r]
    BY <1>4, <2>1
  <2> HIDE DEF r, request
  <2>3. sent'[w] = [NoRequest EXCEPT !["replicas"] = r']
    BY <1>5, <2>1, <2>2
  <2> QED  BY <1>3, <1>5, <2>3 DEF SentInv, r
<1>10. \A u \in Workers : u # w => pc'[u] = pc[u] /\ sent'[u] = sent[u]
  BY <1>1 DEF IInv, TypeOK
<1> QED  BY <1>1, <1>6, <1>7, <1>8, <1>9, <1>10, NoWrite DEF WorkerInv

-----------------------------------------------------------------------------
(* Steps that write to a copy.                                             *)

LEMMA MarkInv ==
  ASSUME IInv, NEW w \in Workers, NEW state, Mark(w, KindFor(w), state),
         pc[w] # "idle", pc[w] # "task", state \in Changes(w),
         w \in ClusterWorkers \/ held[w]["Pod"] # Nil
  PROVE  IInv' /\ OthersKeep(w)
<1> DEFINE kind == KindFor(w)
           in == Mine(w)
           out == <<w, kind>>
<1>1. /\ refs' = [refs EXCEPT ![out] = CopiedRefs(in, out, kind)]
      /\ cell' = CopiedCell(in, out)
      /\ status' = [status EXCEPT ![out] = status[in] \cup {state}]
      /\ pc' = [pc EXCEPT ![w] = "update"] /\ UNCHANGED <<delivered, held, sent>>
  BY DEF Mark, Goto, CopyOf, Mine
<1>2. HeldInv(w) /\ MadeInv(w) /\ SentInv(w)
  BY DEF IInv, WorkerInv
<1>3. /\ kind \in Kinds /\ in \in Published /\ IsDelivered(in) /\ KindOf(in[1]) = kind
      /\ out \in Objects /\ out[1] = w /\ out \in Copies /\ in \notin Of(w)
  BY <1>2, Apart DEF HeldInv, Mine, KindFor, Kinds, Copies, Of
<1> HIDE DEF kind, in
<1>4. /\ \A f \in Fields : Pointed(in, f) = {} \/ Pointed(in, f) = {in}
      /\ \A f \in Fields : refs[in][f] # Nil => f \in Allocated[kind]
  BY <1>3, PointedPristine DEF IInv
<1>5. \A f \in Fields : refs'[out][f] = IF refs[in][f] # Nil THEN <<out, f>> ELSE Nil
  BY <1>1, <1>3, <1>4 DEF CopiedRefs, IInv, TypeOK
<1>6. \A f \in Fields : <<out, f>> \in Cells /\ <<out, f>> # Nil /\ cell'[<<out, f>>] = Pointed(in, f)
  BY <1>1, <1>3, Apart DEF CopiedCell, Cells
<1>7. OthersKeep(w)
  <2>1. \A o \in Objects : o \notin Of(w) => refs'[o] = refs[o] /\ status'[o] = status[o]
    BY <1>1, <1>3 DEF IInv, TypeOK, Of
  <2>2. \A c \in Cells : c[1] \notin Of(w) => cell'[c] = cell[c]
    BY <1>1, <1>3 DEF CopiedCell, Of
  <2> QED
    BY <1>1, <2>1, <2>2 DEF OthersKeep, Keeps, IInv, TypeOK, IsDelivered
<1>8. \A f \in Fields : Pointed(out, f)' = Pointed(in, f)
  BY <1>5, <1>6 DEF Pointed
<1>9. \A f \in Fields : Pointed(in, f)' = Pointed(in, f)
  <2>1. in' = in
    BY <1>1 DEF in, Mine
  <2> QED
    BY <1>3, <1>7, <2>1, PublishedKept DEF OthersKeep, IInv, Pointed
<1>10. status'[out] = {in, state}
  BY <1>1, <1>3 DEF IInv, TypeOK, MemoryInv, Pristine
<1>11. TypeOK'
  <2>1. refs' \in [Objects -> [Fields -> Cells \cup {Nil}]]
    <3>1. CopiedRefs(in, out, kind) \in [Fields -> Cells \cup {Nil}]
      BY <1>3, <1>4, <1>6, Apart DEF CopiedRefs
    <3> QED  BY <1>1, <3>1 DEF IInv, TypeOK
  <2>2. state \in Parts
    BY <1>2 DEF Changes, Parts, HeldInv, Kinds
  <2>3. status' \in [Objects -> SUBSET Parts]
    BY <1>1, <1>3, <2>2, Apart DEF IInv, TypeOK
  <2>4. cell' \in [Cells -> SUBSET Published]
    <3>1. \A c \in Cells : c[2] \in Fields
      BY DEF Cells
    <3>2. \A f \in Fields : Pointed(in, f) \in SUBSET Published
      BY <1>3, <1>4
    <3> QED  BY <1>1, <3>1, <3>2 DEF CopiedCell, IInv, TypeOK
  <2> QED  BY <1>1, <2>1, <2>3, <2>4 DEF IInv, TypeOK
<1>12. pc'[w] = "update" /\ held'[w] = held[w] /\ sent'[w] = sent[w]
  BY <1>1 DEF IInv, TypeOK
<1>13. Mine(w)' = Mine(w) /\ Changes(w)' = Changes(w)
  BY <1>12 DEF Mine, Changes
<1>14. HeldInv(w)'
  BY <1>1, <1>2, <1>12, <1>13 DEF HeldInv, IsDelivered
<1>15. MadeInv(w)'
  <2>1. \A f \in Fields : Pointed(<<w, KindFor(w)>>, f)' = Pointed(Mine(w), f)'
    BY <1>8, <1>9, <1>13 DEF in, kind, Pointed
  <2>2. status'[<<w, KindFor(w)>>] = {Mine(w), state}
    BY <1>10 DEF in, kind
  <2> QED  BY <1>12, <1>13, <2>1, <2>2 DEF MadeInv
<1>16. SentInv(w)'
  BY <1>2, <1>7, <1>12, SentKept, Apart DEF OthersKeep, IInv, Of
<1>17. \A k \in Kinds : Own(<<w, k>>)'
  <2>1. ASSUME NEW k \in Kinds, k # kind  PROVE Own(<<w, k>>)'
    <3>1. <<w, k>> \in Copies /\ <<w, k>> # out /\ <<w, k>> \in Objects
      BY <2>1, Apart DEF Copies
    <3>2. refs'[<<w, k>>] = refs[<<w, k>>]
      BY <1>1, <3>1 DEF IInv, TypeOK
    <3> QED  BY <3>1, <3>2 DEF IInv, MemoryInv, Own
  <2> QED  BY <1>5, <2>1 DEF Own
<1>18. \A f \in Fields : refs'[<<w, "Deployment">>][f] \in {Nil} \cup (Published \X Fields)
  <2>1. <<w, "Deployment">> # out /\ <<w, "Deployment">> \in Drafts /\ <<w, "Deployment">> \in Objects
    BY <1>3, Apart DEF Drafts, Kinds
  <2>2. refs'[<<w, "Deployment">>] = refs[<<w, "Deployment">>]
    BY <1>1, <2>1 DEF IInv, TypeOK
  <2> QED  BY <2>1, <2>2 DEF IInv, MemoryInv
<1> QED  BY <1>7, <1>11, <1>14, <1>15, <1>16, <1>17, <1>18, OwnSuffices DEF WorkerInv

LEMMA AppendInv ==
  ASSUME IInv, NEW w \in TaskWorkers, appendTaskContainer(w)
  PROVE  IInv' /\ OthersKeep(w)
<1> DEFINE pod == held[w]["Pod"]
           task == held[w]["Task"]
           out == <<w, "Pod">>
           array == <<out, "containers">>
<1>1. /\ pc[w] = "append"
      /\ refs' = [refs EXCEPT ![out] = [CopiedRefs(pod, out, "Pod") EXCEPT !["containers"] = array]]
      /\ cell' = [CopiedCell(pod, out) EXCEPT ![array] = Pointed(pod, "containers") \cup {task}]
      /\ status' = [status EXCEPT ![out] = status[pod]]
      /\ pc' = [pc EXCEPT ![w] = "patch"] /\ UNCHANGED <<delivered, held, sent>>
  BY DEF appendTaskContainer, Goto, CopyOf
<1>2. /\ w \in Workers /\ KindFor(w) = "Task"
      /\ HeldInv(w) /\ SentInv(w)
  BY DEF IInv, WorkerInv, Workers, KindFor
<1>3. /\ pod \in Published /\ IsDelivered(pod) /\ KindOf(pod[1]) = "Pod" /\ task \in Published
      /\ out \in Objects /\ out[1] = w /\ out \in Copies /\ pod \notin Of(w)
  BY <1>1, <1>2, Apart DEF HeldInv, Mine, Kinds, Copies, Of
<1> HIDE DEF pod, task
<1>4. /\ \A f \in Fields : Pointed(pod, f) = {} \/ Pointed(pod, f) = {pod}
      /\ \A f \in Fields : refs[pod][f] # Nil => f \in Allocated["Pod"]
  BY <1>3, PointedPristine DEF IInv
<1>5. "containers" \in Fields /\ \A f \in Fields : <<out, f>> \in Cells /\ <<out, f>> # Nil
  BY <1>3, Apart DEF Cells, Fields
<1>6. \A f \in Fields : refs'[out][f] = IF f = "containers" \/ refs[pod][f] # Nil THEN <<out, f>> ELSE Nil
  BY <1>1, <1>3, <1>4, <1>5 DEF CopiedRefs, IInv, TypeOK
<1>7. cell'[array] = Pointed(pod, "containers") \cup {task}
  BY <1>1, <1>5 DEF CopiedCell
<1>8. OthersKeep(w)
  <2>1. \A o \in Objects : o \notin Of(w) => refs'[o] = refs[o] /\ status'[o] = status[o]
    BY <1>1, <1>3 DEF IInv, TypeOK, Of
  <2>2. \A c \in Cells : c[1] \notin Of(w) => cell'[c] = cell[c]
    BY <1>1, <1>3 DEF CopiedCell, Of
  <2>3. \A u \in Workers : u # w => pc'[u] = pc[u]
    BY <1>1 DEF IInv, TypeOK
  <2> QED
    BY <1>1, <2>1, <2>2, <2>3 DEF OthersKeep, Keeps, IsDelivered
<1>9. TypeOK'
  <2>1. refs' \in [Objects -> [Fields -> Cells \cup {Nil}]]
    <3> DEFINE r == [CopiedRefs(pod, out, "Pod") EXCEPT !["containers"] = array]
    <3>1. CopiedRefs(pod, out, "Pod") \in [Fields -> Cells \cup {Nil}]
      BY <1>3, <1>4, <1>5, Apart DEF CopiedRefs
    <3>2. r \in [Fields -> Cells \cup {Nil}]
      BY <1>5, <3>1
    <3>3. refs' = [refs EXCEPT ![out] = r]
      BY <1>1
    <3> HIDE DEF r
    <3> QED  BY <3>2, <3>3 DEF IInv, TypeOK
  <2>2. status' \in [Objects -> SUBSET Parts]
    BY <1>1, <1>3, Apart DEF IInv, TypeOK
  <2>3. cell' \in [Cells -> SUBSET Published]
    <3>1. \A c \in Cells : c[2] \in Fields
      BY DEF Cells
    <3>2. \A f \in Fields : Pointed(pod, f) \in SUBSET Published
      BY <1>3, <1>4
    <3>3. CopiedCell(pod, out) \in [Cells -> SUBSET Published]
      BY <3>1, <3>2 DEF CopiedCell, IInv, TypeOK
    <3> HIDE DEF array
    <3> QED  BY <1>1, <1>3, <1>5, <3>2, <3>3
  <2> QED  BY <1>1, <1>2, <2>1, <2>2, <2>3 DEF IInv, TypeOK
<1>10. pc'[w] = "patch" /\ held'[w] = held[w] /\ sent'[w] = sent[w]
  BY <1>1, <1>2 DEF IInv, TypeOK
<1>11. HeldInv(w)'
  BY <1>1, <1>2, <1>10 DEF HeldInv, IsDelivered, Mine
<1>12. MadeInv(w)'
  <2>1. Pointed(<<w, "Pod">>, "containers")' = Pointed(pod, "containers") \cup {task}
    BY <1>5, <1>6, <1>7 DEF Pointed
  <2>2. pod' = pod /\ task' = task
    BY <1>10 DEF pod, task
  <2>3. Pointed(pod, "containers")' = Pointed(pod, "containers")
    BY <1>2, <1>3, <1>5, <1>8, <2>2, PublishedKept DEF OthersKeep, IInv, Pointed
  <2>4. Pointed(<<w, "Pod">>, "containers")' =
          Pointed(held[w]["Pod"], "containers")' \cup {held'[w]["Task"]}
    BY <2>1, <2>2, <2>3 DEF pod, task
  <2> QED  BY <1>10, <2>4 DEF MadeInv
<1>13. SentInv(w)'
  BY <1>1, <1>2, <1>8, <1>10, SentKept, Apart DEF OthersKeep, IInv, Of
<1>14. \A k \in Kinds : Own(<<w, k>>)'
  <2>1. ASSUME NEW k \in Kinds, k # "Pod"  PROVE Own(<<w, k>>)'
    <3>1. <<w, k>> \in Copies /\ <<w, k>> # out /\ <<w, k>> \in Objects
      BY <1>2, <2>1, Apart DEF Copies
    <3>2. refs'[<<w, k>>] = refs[<<w, k>>]
      BY <1>1, <3>1 DEF IInv, TypeOK
    <3> QED  BY <3>1, <3>2 DEF IInv, MemoryInv, Own
  <2> QED  BY <1>6, <2>1 DEF Own
<1>15. \A f \in Fields : refs'[<<w, "Deployment">>][f] \in {Nil} \cup (Published \X Fields)
  <2>1. <<w, "Deployment">> # out /\ <<w, "Deployment">> \in Drafts /\ <<w, "Deployment">> \in Objects
    BY <1>2, Apart DEF Drafts
  <2>2. refs'[<<w, "Deployment">>] = refs[<<w, "Deployment">>]
    BY <1>1, <2>1 DEF IInv, TypeOK
  <2> QED  BY <2>1, <2>2 DEF IInv, MemoryInv
<1> QED  BY <1>2, <1>8, <1>9, <1>11, <1>12, <1>13, <1>14, <1>15, OwnSuffices DEF WorkerInv

LEMMA DraftInv ==
  ASSUME IInv, NEW w \in ClusterWorkers, newDeployment(w)
  PROVE  IInv' /\ OthersKeep(w)
<1> DEFINE o == held[w]["TaskCluster"]
           draft == <<w, "Deployment">>
<1>1. /\ pc[w] = "cluster"
      /\ refs' = [refs EXCEPT ![draft] = [refs[draft] EXCEPT !["replicas"] = refs[o]["replicas"]]]
      /\ pc' = [pc EXCEPT ![w] = "deployment"] /\ UNCHANGED <<delivered, status, cell, held, sent>>
  BY DEF newDeployment, Goto
<1>2. /\ w \in Workers /\ KindFor(w) = "TaskCluster" /\ "replicas" \in Fields
      /\ HeldInv(w) /\ SentInv(w)
  BY KeysAssumption DEF IInv, WorkerInv, Workers, KindFor, Fields
<1>3. o \in Published /\ o \in Objects /\ draft \in Drafts /\ draft \in Objects /\ draft \notin Published
  BY <1>1, <1>2, Apart DEF HeldInv, Mine, Kinds, Drafts
<1>4. refs[o]["replicas"] \in {Nil, <<o, "replicas">>} /\ <<o, "replicas">> \in Published \X Fields
  BY <1>2, <1>3 DEF IInv, MemoryInv, Own
<1>5. refs[o]["replicas"] \in Cells \cup {Nil}
  BY <1>3, <1>4 DEF Cells, Fields
<1>6. /\ refs[draft] \in [Fields -> Cells \cup {Nil}]
      /\ \A f \in Fields : refs[draft][f] \in {Nil} \cup (Published \X Fields)
  BY <1>3 DEF IInv, TypeOK, MemoryInv
<1> DEFINE r == [refs[draft] EXCEPT !["replicas"] = refs[o]["replicas"]]
<1>7. /\ r \in [Fields -> Cells \cup {Nil}] /\ r["replicas"] = refs[o]["replicas"]
      /\ \A f \in Fields : r[f] \in {Nil} \cup (Published \X Fields)
  BY <1>2, <1>4, <1>5, <1>6
<1> HIDE DEF r
<1>8. refs' = [refs EXCEPT ![draft] = r]
  BY <1>1 DEF r
<1>9. refs'[draft] = r /\ \A u \in Objects : u # draft => refs'[u] = refs[u]
  BY <1>3, <1>8 DEF IInv, TypeOK
<1>10. TypeOK'
  BY <1>1, <1>2, <1>7, <1>8 DEF IInv, TypeOK
<1>11. OthersKeep(w)
  <2>1. \A u \in Workers : u # w => pc'[u] = pc[u]
    BY <1>1 DEF IInv, TypeOK
  <2>2. draft \in Of(w)
    BY <1>3, Apart DEF Of
  <2> QED
    BY <1>1, <1>9, <2>1, <2>2 DEF OthersKeep, Keeps, IsDelivered
<1>12. pc'[w] = "deployment" /\ held'[w] = held[w] /\ sent'[w] = sent[w]
  BY <1>1, <1>2 DEF IInv, TypeOK
<1>13. HeldInv(w)'
  BY <1>1, <1>2, <1>12 DEF HeldInv, IsDelivered, Mine
<1>14. MadeInv(w)'
  <2>1. refs'[draft]["replicas"] = refs'[o]["replicas"]
    BY <1>3, <1>7, <1>9
  <2>2. Mine(w)' = o
    BY <1>2, <1>12 DEF Mine
  <2> QED  BY <1>12, <2>1, <2>2 DEF MadeInv
<1>15. SentInv(w)'
  BY <1>1, <1>2, <1>11, <1>12, SentKept, Apart DEF OthersKeep, IInv, Of
<1>16. \A k \in Kinds : Own(<<w, k>>)'
  <2>1. ASSUME NEW k \in Kinds  PROVE <<w, k>> \in Copies /\ <<w, k>> \in Objects /\ <<w, k>> # draft
    BY <1>2, Apart DEF Copies, Kinds
  <2> QED  BY <1>9, <2>1 DEF IInv, MemoryInv, Own
<1> QED  BY <1>2, <1>7, <1>9, <1>10, <1>11, <1>13, <1>14, <1>15, <1>16, OwnSuffices DEF WorkerInv

LEMMA ReturnInv ==
  ASSUME IInv, NEW w \in Workers, Return(w)
  PROVE  IInv' /\ OthersKeep(w)
<1>1. /\ pc' = [pc EXCEPT ![w] = "idle"]
      /\ held' = [held EXCEPT ![w] = [kind \in Kinds |-> Nil]]
      /\ refs' = [o \in Objects |-> IF o[1] = w THEN [f \in Fields |-> Nil] ELSE refs[o]]
      /\ status' = [o \in Objects |-> IF o[1] = w THEN {} ELSE status[o]]
      /\ cell' = [c \in Cells |-> IF c[1][1] = w THEN {} ELSE cell[c]]
      /\ sent' = [sent EXCEPT ![w] = NoRequest]
      /\ delivered' = delivered
  BY DEF Return, Goto
<1>2. TypeOK'
  <2>1. NoRequest \in [Fields \cup {"status"} -> SUBSET Parts]
    BY DEF NoRequest
  <2>2. \A o \in Objects : refs'[o] \in [Fields -> Cells \cup {Nil}] /\ status'[o] \in SUBSET Parts
    BY <1>1 DEF IInv, TypeOK
  <2> QED  BY <1>1, <2>1, <2>2 DEF IInv, TypeOK
<1>3. OthersKeep(w)
  <2>1. \A o \in Objects : o \notin Of(w) => refs'[o] = refs[o] /\ status'[o] = status[o]
    BY <1>1 DEF Of
  <2>2. \A c \in Cells : c[1] \notin Of(w) => cell'[c] = cell[c]
    BY <1>1 DEF Of, Cells
  <2>3. \A u \in Workers : u # w => pc'[u] = pc[u] /\ held'[u] = held[u] /\ sent'[u] = sent[u]
    BY <1>1 DEF IInv, TypeOK
  <2> QED  BY <1>1, <2>1, <2>2, <2>3 DEF OthersKeep, Keeps, IsDelivered
<1>4. pc'[w] = "idle" /\ sent'[w] = NoRequest /\ \A kind \in Kinds : held'[w][kind] = Nil
  BY <1>1 DEF IInv, TypeOK
<1>5. WorkerInv(w)'
  BY <1>4 DEF WorkerInv, HeldInv, MadeInv, SentInv
<1>6. \A kind \in Kinds \cup {"Deployment"}, f \in Fields : refs'[<<w, kind>>][f] = Nil
  BY <1>1, Apart
<1>7. \A kind \in Kinds : Own(<<w, kind>>)'
  BY <1>6 DEF Own
<1> QED  BY <1>2, <1>3, <1>5, <1>6, <1>7, OwnSuffices

-----------------------------------------------------------------------------
(* A new version changes nothing that anyone has a pointer to.             *)

LEMMA DeliverInv ==
  ASSUME IInv, NEW k \in Keys, Deliver(k)
  PROVE  /\ IInv'
         /\ \A o \in Published : IsDelivered(o) => Content(o)' = Content(o)
<1> DEFINE new == <<k, delivered[k] + 1>>
           own == [f \in Fields |->
                     IF f \in {"meta"} \cup (IF new \in Bare THEN {} ELSE Optional[KindOf(k)])
                     THEN <<new, f>> ELSE Nil]
<1>1. /\ delivered[k] < MaxVersion /\ delivered' = [delivered EXCEPT ![k] = delivered[k] + 1]
      /\ refs' = [refs EXCEPT ![new] = own]
      /\ status' = [status EXCEPT ![new] = {new}]
      /\ cell' = [c \in Cells |-> IF c[1] = new THEN {new} ELSE cell[c]]
      /\ UNCHANGED <<pc, held, sent>>
  BY DEF Deliver
<1>2. delivered[k] \in Nat /\ delivered[k] + 1 \in 1..MaxVersion /\ delivered \in [Keys -> 0..MaxVersion]
  BY <1>1, KeysAssumption DEF IInv, TypeOK
<1>3. new \in Published /\ ~IsDelivered(new) /\ new[1] = k /\ new[2] = delivered[k] + 1
  BY <1>2 DEF Published, IsDelivered
<1>4. PICK n \in Published : n = new
  BY <1>3
<1>5. n \in Objects /\ \A f \in Fields : <<n, f>> \in Cells /\ <<n, f>>[1] = n
  BY <1>4, Apart DEF Cells
<1>6. \A f \in Fields : own[f] \in {Nil, <<n, f>>} /\ (own[f] # Nil => f \in Allocated[KindOf(n[1])])
  <2>1. \A kind \in Kinds : {"meta"} \cup Optional[kind] \subseteq Allocated[kind]
    BY DEF Kinds, Optional, Allocated, TaskSpecDeepCopyInto, TaskClusterSpecDeepCopyInto
  <2>2. KindOf(k) \in Kinds
    BY DEF KindOf, Kinds
  <2> QED  BY <1>3, <1>4, <2>1, <2>2
<1> HIDE DEF new, own
<1>7. refs'[n] = own /\ status'[n] = {n} /\ \A f \in Fields : cell'[<<n, f>>] = {n}
  BY <1>1, <1>4, <1>5 DEF IInv, TypeOK
<1>8. \A o \in Published : IsDelivered(o) => IsDelivered(o)'
  <2>1. ASSUME NEW o \in Published, IsDelivered(o)  PROVE IsDelivered(o)'
    <3>1. o[1] \in Keys /\ o[2] \in Nat /\ delivered[o[1]] \in Nat
      BY <1>2, KeysAssumption DEF Published
    <3>2. delivered'[o[1]] >= delivered[o[1]]
      BY <1>1, <1>2, <3>1
    <3>3. delivered'[o[1]] \in Nat
      BY <1>1, <1>2, <3>1
    <3> QED  BY <2>1, <3>1, <3>2, <3>3 DEF IsDelivered
  <2> QED  BY <2>1
<1>9. Keeps({n})
  <2>1. \A o \in Objects : o \notin {n} => refs'[o] = refs[o] /\ status'[o] = status[o]
    BY <1>1, <1>4 DEF IInv, TypeOK
  <2>2. \A c \in Cells : c[1] \notin {n} => cell'[c] = cell[c]
    BY <1>1, <1>4
  <2> QED  BY <1>8, <2>1, <2>2 DEF Keeps
<1>10. \A o \in Published : IsDelivered(o) => o \notin {n}
  BY <1>3, <1>4
<1>11. \A o \in Published : IsDelivered(o) => Content(o)' = Content(o)
  BY <1>9, <1>10, PublishedKept DEF IInv
<1>12. TypeOK'
  <2>1. delivered' \in [Keys -> 0..MaxVersion]
    BY <1>1, <1>2, KeysAssumption
  <2>2. own \in [Fields -> Cells \cup {Nil}]
    <3>1. own = [f \in Fields |-> own[f]]
      BY DEF own
    <3> QED  BY <1>5, <1>6, <3>1
  <2>3. refs' \in [Objects -> [Fields -> Cells \cup {Nil}]]
    BY <1>1, <2>2 DEF IInv, TypeOK
  <2>4. status' \in [Objects -> SUBSET Parts]
    BY <1>1, <1>4 DEF IInv, TypeOK, Parts
  <2>5. cell' \in [Cells -> SUBSET Published]
    BY <1>1, <1>4 DEF IInv, TypeOK
  <2> QED  BY <1>1, <2>1, <2>3, <2>4, <2>5 DEF IInv, TypeOK
<1>13. MemoryInv'
  <2>1. ASSUME NEW o \in Published  PROVE Own(o)' /\ (IsDelivered(o)' => Pristine(o)')
    <3>1. CASE o = n
      BY <1>6, <1>7, <3>1 DEF Own, Pristine
    <3>2. CASE o # n
      <4>1. o \notin {n} /\ Own(o)' /\ (IsDelivered(o) => Pristine(o)')
        BY <1>9, <3>2, PublishedKept DEF IInv
      <4>2. IsDelivered(o)' => IsDelivered(o)
        <5>1. CASE o[1] # k
          BY <1>1, <1>2, <5>1 DEF IsDelivered, Published
        <5>2. CASE o[1] = k
          <6>1. o = <<k, o[2]>> /\ o[2] \in Nat /\ delivered'[k] = delivered[k] + 1
            BY <1>1, <1>2, <5>2, KeysAssumption DEF Published
          <6>2. o[2] # delivered[k] + 1
            BY <1>4, <3>2, <6>1 DEF new
          <6> QED  BY <1>2, <5>2, <6>1, <6>2 DEF IsDelivered
        <5> QED  BY <5>1, <5>2
      <4> QED  BY <4>1, <4>2
    <3> QED  BY <3>1, <3>2
  <2>2. ASSUME NEW o \in Copies \cup Drafts  PROVE refs'[o] = refs[o]
    BY <1>4, <1>9, Apart DEF Keeps, Objects
  <2> QED  BY <2>1, <2>2 DEF IInv, MemoryInv, Own
<1>14. \A u \in Workers : WorkerInv(u)'
  <2>1. \A u \in Workers : n[1] # u
    BY Apart
  <2> QED  BY <1>1, <1>9, <1>10, <2>1, OtherInv
<1> QED  BY <1>11, <1>12, <1>13, <1>14 DEF IInv

-----------------------------------------------------------------------------
LEMMA InitIInv == Init => IInv
<1> SUFFICES ASSUME Init  PROVE IInv
  OBVIOUS
<1>1. TypeOK
  BY KeysAssumption DEF Init, TypeOK, NoRequest
<1>2. MemoryInv
  <2>1. \A o \in Published \cup Copies \cup Drafts : o \in Objects
    BY DEF Objects
  <2>2. \A o \in Objects, f \in Fields : refs[o][f] = Nil
    BY DEF Init
  <2>3. \A o \in Published : ~IsDelivered(o)
    BY KeysAssumption DEF Init, IsDelivered, Published
  <2> QED  BY <2>1, <2>2, <2>3 DEF MemoryInv, Own
<1>3. \A w \in Workers : WorkerInv(w)
  BY DEF Init, WorkerInv, HeldInv, MadeInv, SentInv
<1> QED  BY <1>1, <1>2, <1>3 DEF IInv

(* Every step keeps the invariant and what is in the cache or was.         *)
LEMMA NextIInv ==
  ASSUME IInv, [Next]_vars
  PROVE  /\ IInv'
         /\ \A o \in Published : IsDelivered(o) => Content(o)' = Content(o)
<1>1. ASSUME NEW k \in Keys, Deliver(k)
      PROVE  IInv' /\ \A o \in Published : IsDelivered(o) => Content(o)' = Content(o)
  BY <1>1, DeliverInv
<1>2. ASSUME NEW w \in Workers, OthersKeep(w)
      PROVE  \A o \in Published : Content(o)' = Content(o)
  BY <1>2, PublishedKept, Apart DEF OthersKeep, Of, IInv
<1>3. \A w \in Workers : HeldInv(w)
  BY DEF IInv, WorkerInv
<1>4. ASSUME NEW w \in Workers, UpdateStatus(w) \/ Return(w)  PROVE IInv' /\ OthersKeep(w)
  BY <1>4, UpdateStatusInv, ReturnInv
<1>5. ASSUME NEW w \in TaskWorkers, TaskStep(w)  PROVE IInv' /\ OthersKeep(w)
  <2>1. w \in Workers /\ w \notin ClusterWorkers /\ KindFor(w) = "Task"
    BY KeysAssumption DEF Workers, KindFor
  <2>2. ASSUME NEW k \in Tasks, GetTask(w, k)  PROVE IInv' /\ OthersKeep(w)
    <3>1. k \in Keys /\ KindOf(k) = "Task"
      BY DEF Keys, KindOf
    <3> QED  BY <2>1, <2>2, <3>1, GetInv DEF GetTask
  <2>3. ASSUME markTaskRunning(w)  PROVE IInv' /\ OthersKeep(w)
    <3>1. pc[w] = "running" /\ Mark(w, KindFor(w), held[w]["Pod"])
      BY <2>1, <2>3 DEF markTaskRunning
    <3>2. held[w]["Pod"] \in Changes(w) /\ held[w]["Pod"] # Nil
      BY <1>3, <2>1, <3>1 DEF HeldInv, Changes
    <3> QED  BY <2>1, <3>1, <3>2, MarkInv
  <2>4. ASSUME markTaskFinished(w)  PROVE IInv' /\ OthersKeep(w)
    <3>1. pc[w] = "finished" /\ Mark(w, KindFor(w), Finished)
      BY <2>1, <2>4 DEF markTaskFinished
    <3>2. Finished \in Changes(w) /\ held[w]["Pod"] # Nil
      BY <1>3, <2>1, <3>1 DEF HeldInv, Changes
    <3> QED  BY <2>1, <3>1, <3>2, MarkInv
  <2> QED
    BY <1>4, <1>5, <2>1, <2>2, <2>3, <2>4, GetPodInv, AppendInv, PatchInv DEF TaskStep
<1>6. ASSUME NEW w \in ClusterWorkers, ClusterStep(w)  PROVE IInv' /\ OthersKeep(w)
  <2>1. w \in Workers /\ w \notin TaskWorkers /\ KindFor(w) = "TaskCluster"
    BY KeysAssumption DEF Workers, KindFor
  <2>2. ASSUME NEW k \in TaskClusters, GetTaskCluster(w, k)  PROVE IInv' /\ OthersKeep(w)
    <3>1. k \in Keys /\ KindOf(k) = "TaskCluster"
      BY KeysAssumption DEF Keys, KindOf
    <3> QED  BY <2>1, <2>2, <3>1, GetInv DEF GetTaskCluster
  <2>3. ASSUME updateTaskClusterStatus(w)  PROVE IInv' /\ OthersKeep(w)
    <3>1. pc[w] \in {"cluster", "available"} /\ Mark(w, KindFor(w), Available)
      BY <2>1, <2>3 DEF updateTaskClusterStatus
    <3>2. Available \in Changes(w)
      BY DEF Changes
    <3> QED  BY <2>1, <3>1, <3>2, MarkInv
  <2> QED
    BY <1>4, <1>6, <2>1, <2>2, <2>3, DraftInv, SendInv DEF ClusterStep
<1>7. ASSUME UNCHANGED vars
      PROVE  IInv' /\ \A o \in Published : Content(o)' = Content(o)
  <2>1. UNCHANGED <<delivered, refs, status, cell, pc, held, sent>>
    BY <1>7 DEF vars
  <2>2. TypeOK' /\ MemoryInv'
    BY <2>1 DEF IInv, TypeOK, MemoryInv, Own, Pristine, IsDelivered
  <2>3. Keeps({})
    BY <2>1 DEF Keeps, IsDelivered
  <2>4. \A u \in Workers : WorkerInv(u)'
    BY <2>1, <2>3, OtherInv
  <2>5. \A o \in Published : Content(o)' = Content(o)
    BY <2>1 DEF Content, Pointed
  <2> QED  BY <2>2, <2>4, <2>5 DEF IInv
<1>8. TaskWorkers \subseteq Workers /\ ClusterWorkers \subseteq Workers
  BY DEF Workers
<1> QED  BY <1>1, <1>2, <1>5, <1>6, <1>7, <1>8 DEF Next

LEMMA Invariance == Spec => []IInv
<1>1. IInv /\ [Next]_vars => IInv'
  BY NextIInv
<1> QED  BY <1>1, InitIInv, PTL DEF Spec

-----------------------------------------------------------------------------
LEMMA Private == IInv => CopiesArePrivate
<1> SUFFICES ASSUME IInv, NEW o \in Copies, NEW u \in Objects, NEW f \in Fields, NEW g \in Fields,
                    refs[o][f] # Nil, refs[o][f] = refs[u][g]
             PROVE  o = u
  BY DEF CopiesArePrivate
<1>1. refs[o][f] = <<o, f>>
  BY DEF IInv, MemoryInv, Own
<1>2. CASE u \in Published \cup Copies
  <2>1. refs[u][g] = <<u, g>>
    BY <1>2 DEF IInv, MemoryInv, Own
  <2>2. <<o, f>> = <<u, g>>
    BY <1>1, <2>1
  <2> QED  BY <2>2
<1>3. CASE u \in Drafts
  <2>1. <<o, f>> \in Published \X Fields
    BY <1>1, <1>3 DEF IInv, MemoryInv
  <2>2. o \in Published
    BY <2>1
  <2>3. o[1] \in Keys /\ o[1] \in Workers
    BY <2>2, Apart
  <2> QED  BY <2>3, Apart
<1> QED  BY <1>2, <1>3 DEF Objects

(* No worker is ever led to an object that does not exist.                 *)
THEOREM TypeCorrect == Spec => []TypeOK
<1>1. IInv => TypeOK
  BY DEF IInv
<1> QED  BY <1>1, Invariance, PTL

(* The deep copies are deep: a copy shares no cell with any other object.  *)
THEOREM DeepCopiesAreDeep == Spec => []CopiesArePrivate
BY Private, Invariance, PTL

(* Whatever is sent is one version and one worker's change.                *)
THEOREM RequestsStayWhole == Spec => []RequestsAreWhole
<1>1. IInv => RequestsAreWhole
  BY DEF IInv, WorkerInv, SentInv, RequestsAreWhole
<1> QED  BY <1>1, Invariance, PTL

(* What listers hand out is treated as read-only.                          *)
THEOREM CacheIsReadOnly == Spec => CachedIsReadOnly
<1>1. IInv /\ [Next]_vars =>
        [\A o \in Published : IsDelivered(o) => Content(o)' = Content(o)]_vars
  BY NextIInv
<1> QED  BY <1>1, Invariance, PTL DEF Spec, CachedIsReadOnly

=============================================================================
