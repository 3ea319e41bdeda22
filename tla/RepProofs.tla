----------------------------- MODULE RepProofs -----------------------------
(***************************************************************************)
(* Proofs about Rep, for every set of handles and workers, every pool of   *)
(* ports and every bound.                                                  *)
(***************************************************************************)
EXTENDS Rep, TLAPS, SequenceTheorems

Views == Seq(Version) \ {<<>>}

\* What the operators on pod histories return.
LEMMA ViewFacts ==
  ASSUME NEW s \in Views
  PROVE  /\ s \in Seq(Version)
         /\ Len(s) \in Nat \ {0}
         /\ LatestOf(s) \in Version
         /\ Head(s) \in Version
         /\ Head(s) = s[1]
         /\ \A i \in 1 .. Len(s) : s[i] \in Version
<1>1. s \in Seq(Version) /\ s # <<>>
  BY DEF Views
<1>2. Len(s) \in Nat \ {0}
  BY <1>1, EmptySeq
<1>3. \A i \in 1 .. Len(s) : s[i] \in Version
  BY <1>1, LenProperties
<1> QED BY <1>1, <1>2, <1>3 DEF LatestOf

\* What appending a version does to a history.
LEMMA AppendFacts ==
  ASSUME NEW s \in Views, NEW v \in Version
  PROVE  /\ Append(s, v) \in Views
         /\ Len(Append(s, v)) = Len(s) + 1
         /\ LatestOf(Append(s, v)) = v
         /\ \A i \in 1 .. Len(s) : Append(s, v)[i] = s[i]
         /\ Append(s, v)[Len(s) + 1] = v
         /\ Head(Append(s, v)) = Head(s)
<1>1. s \in Seq(Version) /\ s # <<>>
  BY DEF Views
<1>2. /\ Append(s, v) \in Views
      /\ Len(Append(s, v)) = Len(s) + 1
      /\ \A i \in 1 .. Len(s) : Append(s, v)[i] = s[i]
      /\ Append(s, v)[Len(s) + 1] = v
  BY <1>1, AppendProperties DEF Views
<1>3. Head(Append(s, v)) = Head(s)
  BY <1>1, HeadTailAppend
<1> QED BY <1>2, <1>3 DEF LatestOf

\* What a delivered watch event leaves of a history.
LEMMA TailFacts ==
  ASSUME NEW s \in Views, Len(s) > 1
  PROVE  /\ Tail(s) \in Views
         /\ Len(Tail(s)) = Len(s) - 1
         /\ LatestOf(Tail(s)) = LatestOf(s)
         /\ \A i \in 1 .. Len(s) - 1 : Tail(s)[i] = s[i + 1]
<1>1. s \in Seq(Version) /\ s # <<>> /\ Len(s) \in Nat
  BY ViewFacts DEF Views
<1>2. /\ Tail(s) \in Seq(Version)
      /\ Len(Tail(s)) = Len(s) - 1
      /\ \A i \in 1 .. Len(s) - 1 : Tail(s)[i] = s[i + 1]
  BY <1>1, HeadTailProperties
<1>3. Tail(s) # <<>>
  <2>1. Len(Tail(s)) # 0
    BY <1>1, <1>2
  <2>2. Len(<<>>) = 0
    OBVIOUS
  <2> QED BY <2>1, <2>2
<1>4. Tail(s)[Len(s) - 1] = s[Len(s)]
  BY <1>1, <1>2
<1> QED BY <1>2, <1>3, <1>4 DEF LatestOf, Views

\* A history of one version.
LEMMA SingletonFacts ==
  ASSUME NEW v \in Version
  PROVE  /\ <<v>> \in Views
         /\ Len(<<v>>) = 1
         /\ LatestOf(<<v>>) = v
         /\ Head(<<v>>) = v
         /\ <<v>>[1] = v
  BY DEF Views, LatestOf

\* A write of a well-formed version keeps every history well-formed.
LEMMA PublishType ==
  ASSUME view \in [Handles -> Views], NEW h \in Handles, NEW v \in Version,
         Publish(h, v)
  PROVE  view' \in [Handles -> Views]
<1>1. view[h] \in Views
  OBVIOUS
<1>2. Append(view[h], v) \in Views /\ <<v>> \in Views
  BY <1>1, AppendFacts, SingletonFacts
<1> QED BY <1>2 DEF Publish

\* The writes and events of the cluster keep its type.
LEMMA ClusterType ==
  ASSUME ClusterTypeOK, NEW h \in Handles
  PROVE  /\ Live(h) \in Version
         /\ Cached(h) \in Version
         /\ \A ports \in SUBSET Nat : ApiCreate(h, ports) => ClusterTypeOK'
         /\ ApiDelete(h) => ClusterTypeOK'
         /\ ApiForceDelete(h) => ClusterTypeOK'
         /\ WatchEvent(h) => ClusterTypeOK'
         /\ StartPod(h) => ClusterTypeOK'
         /\ FailPod(h) => ClusterTypeOK'
         /\ RemovePod(h) => ClusterTypeOK'
         /\ CacheSync => ClusterTypeOK'
<1>1. view \in [Handles -> Views] /\ terminating \subseteq Handles
  BY DEF ClusterTypeOK, Views
<1>2. \A g \in Handles : /\ Live(g) \in Version
                         /\ Head(view[g]) \in Version
                         /\ Len(view[g]) > 1 => Tail(view[g]) \in Views
                         /\ <<Live(g)>> \in Views
  <2> TAKE g \in Handles
  <2>1. view[g] \in Views
    BY <1>1
  <2>2. Live(g) \in Version /\ Head(view[g]) \in Version
    BY <2>1, ViewFacts DEF Live
  <2>3. Len(view[g]) > 1 => Tail(view[g]) \in Views
    BY <2>1, TailFacts
  <2> QED BY <2>2, <2>3, SingletonFacts
<1>3. Cached(h) \in Version
  BY <1>2 DEF Cached, Gone, Version, Phases
<1>4. /\ Gone(Live(h).uid) \in Version
      /\ \A ports \in SUBSET Nat :
           [uid |-> Live(h).uid + 1, phase |-> "Pending", ports |-> ports]
             \in Version
      /\ [Live(h) EXCEPT !.phase = "Running"] \in Version
      /\ [Live(h) EXCEPT !.phase = "Failed"] \in Version
  <2>1. Live(h) \in [uid : Nat, phase : Phases, ports : SUBSET Nat]
    BY <1>2 DEF Version
  <2>2. {"Absent", "Pending", "Running", "Failed"} = Phases
    BY DEF Phases
  <2> QED BY <2>1, <2>2 DEF Gone, Version
<1>5. \A ports \in SUBSET Nat : ApiCreate(h, ports) => ClusterTypeOK'
  BY <1>1, <1>4, PublishType DEF ApiCreate, ClusterTypeOK, Views
<1>6. ApiDelete(h) => ClusterTypeOK'
  BY <1>1 DEF ApiDelete, ClusterTypeOK, Views
<1>7. ApiForceDelete(h) => ClusterTypeOK'
  BY <1>1, <1>4, PublishType DEF ApiForceDelete, ClusterTypeOK, Views
<1>8. WatchEvent(h) => ClusterTypeOK'
  BY <1>1, <1>2 DEF WatchEvent, ClusterTypeOK, Views
<1>9. StartPod(h) => ClusterTypeOK'
  BY <1>1, <1>4, PublishType DEF StartPod, ClusterTypeOK, Views
<1>10. FailPod(h) => ClusterTypeOK'
  BY <1>1, <1>4, PublishType DEF FailPod, ClusterTypeOK, Views
<1>11. RemovePod(h) => ClusterTypeOK'
  BY <1>1, <1>4, PublishType DEF RemovePod, ClusterTypeOK, Views
<1>12. CacheSync => ClusterTypeOK'
  BY <1>1, <1>2 DEF CacheSync, ClusterTypeOK, Views
<1> QED BY <1>2, <1>3, <1>5, <1>6, <1>7, <1>8, <1>9, <1>10, <1>11, <1>12

(***************************************************************************)
(* Type correctness                                                        *)
(***************************************************************************)
LabelSet == {"idle"} \cup CreateSteps \cup DestroySteps \cup Results

\* A step of Create keeps the types.
LEMMA CreateType ==
  ASSUME TypeOK, NEW w \in Workers, CreateStep(w)
  PROVE  ClientTypeOK' /\ ClusterTypeOK'
<1> USE ClientAssumption
    DEF ClientTypeOK, CreateSteps, DestroySteps, Results, Goto, clusterVars,
        workerVars
<1>0. ClientTypeOK /\ ClusterTypeOK
  BY DEF TypeOK
<1>h. pc[w] # "idle" => hdl[w] \in Handles
  BY <1>0
<1>c. \A h \in Handles : Cached(h) \in Version
  BY <1>0, ClusterType
<1>u. UNCHANGED clusterVars => ClusterTypeOK'
  BY <1>0 DEF ClusterTypeOK
<1>1. CASE AllocatePort(w)
  <2>1. PICK p \in Pool : NextPort(p) /\ held' = [held EXCEPT ![w] = @ \cup {p}]
    BY <1>1 DEF AllocatePort
  <2>2. p \in Nat /\ allocated' \subseteq Pool
    BY <1>0, <2>1, PortAssumption DEF NextPort, Pool
  <2>3. held' \in [Workers -> SUBSET Nat]
    BY <1>0, <2>1, <2>2
  <2>4. need' \in [Workers -> Nat]
    BY <1>0, <1>1 DEF AllocatePort
  <2> QED BY <1>0, <1>u, <1>1, <2>2, <2>3, <2>4 DEF AllocatePort
<1>2. CASE AllocateFails(w)
  BY <1>0, <1>h, <1>u, <1>2 DEF AllocateFails, NoPort, Leave
<1>3. CASE PortsReady(w)
  BY <1>0, <1>h, <1>u, <1>3 DEF PortsReady, Step
<1>4. CASE ImageReady(w)
  BY <1>0, <1>h, <1>u, <1>4 DEF ImageReady, Step
<1>5. CASE ImageFails(w)
  BY <1>0, <1>h, <1>u, <1>5 DEF ImageFails, Leave
<1>6. CASE SetProperties(w)
  BY <1>0, <1>h, <1>u, <1>6 DEF SetProperties, Step
<1>7. CASE AddContainer(w)
  BY <1>0, <1>h, <1>u, <1>7
     DEF AddContainer, Step, Add, FreshContainer, Container
<1>8. CASE AddFails(w)
  BY <1>0, <1>h, <1>u, <1>8 DEF AddFails, AddRefused, Leave
<1>9. CASE CreatePod(w)
  <2>1. ClientTypeOK'
    BY <1>0, <1>h, <1>9 DEF CreatePod, Step, Container
  <2>2. hdl[w] \in Handles
    BY <1>h, <1>9 DEF CreatePod, Step
  <2>3. ClusterTypeOK'
    BY <1>0, <1>u, <1>9, <2>2, ClusterType DEF CreatePod, Container
  <2> QED BY <2>1, <2>3
<1>10. CASE CreatePodFails(w)
  BY <1>0, <1>h, <1>u, <1>10 DEF CreatePodFails, Leave
<1>11. CASE CreatePodLost(w)
  <2>1. ClientTypeOK'
    BY <1>0, <1>h, <1>11 DEF CreatePodLost, Fault, Leave, Container
  <2>2. hdl[w] \in Handles
    BY <1>h, <1>11 DEF CreatePodLost
  <2>3. ClusterTypeOK'
    BY <1>0, <1>u, <1>11, <2>2, ClusterType DEF CreatePodLost, Container
  <2> QED BY <2>1, <2>3
<1>12. CASE PollPod(w)
  <2>1. hdl[w] \in Handles
    BY <1>h, <1>12 DEF PollPod
  <2>2. Cached(hdl[w]).ports \in SUBSET Nat
    BY <1>c, <2>1 DEF Version
  <2>3. containers' \in [Handles -> Container]
    BY <1>0, <1>12, <2>1, <2>2 DEF PollPod, ReadPod, Container
  <2> QED BY <1>0, <1>u, <1>12, <2>3 DEF PollPod
<1>13. CASE PodRunning(w)
  BY <1>0, <1>h, <1>c, <1>u, <1>13
     DEF PodRunning, Step, ReadPod, Container, Version
<1>14. CASE CreateTimeout(w)
  <2>1. ClientTypeOK'
    BY <1>0, <1>h, <1>14 DEF CreateTimeout, Leave
  <2>2. hdl[w] \in Handles
    BY <1>h, <1>14 DEF CreateTimeout
  <2>3. ClusterTypeOK'
    BY <1>0, <1>u, <1>14, <2>2, ClusterType DEF CreateTimeout
  <2> QED BY <2>1, <2>3
<1>15. CASE WaitFails(w)
  BY <1>0, <1>h, <1>u, <1>15 DEF WaitFails, Fault, Leave
<1>16. CASE LoadTasks(w)
  <2>0. hdl[w] \in Handles
    BY <1>h, <1>16 DEF LoadTasks, Step
  <2>1. [containers[hdl[w]] EXCEPT !.tasks = TRUE] \in Container
    <3>1. containers[hdl[w]] \in Container
      BY <1>0, <2>0
    <3> QED BY <3>1, Zenon DEF Container
  <2>2. containers' \in [Handles -> Container]
    BY <1>0, <1>16, <2>0, <2>1 DEF LoadTasks
  <2> QED BY <1>0, <1>h, <1>u, <1>16, <2>2 DEF LoadTasks, Step
<1>17. CASE LoadTasksFails(w)
  BY <1>0, <1>h, <1>u, <1>17 DEF LoadTasksFails, Leave
<1>18. CASE SetState(w)
  BY <1>0, <1>h, <1>u, <1>18 DEF SetState, Leave
<1> QED BY <1>1, <1>2, <1>3, <1>4, <1>5, <1>6, <1>7, <1>8, <1>9, <1>10, <1>11,
           <1>12, <1>13, <1>14, <1>15, <1>16, <1>17, <1>18
           DEF CreateStep

\* A step of Destroy keeps the types.
LEMMA DestroyType ==
  ASSUME TypeOK, NEW w \in Workers, DestroyStep(w)
  PROVE  ClientTypeOK' /\ ClusterTypeOK'
<1> USE ClientAssumption
    DEF ClientTypeOK, CreateSteps, DestroySteps, Results, Goto, clusterVars,
        workerVars
<1>0. ClientTypeOK /\ ClusterTypeOK
  BY DEF TypeOK
<1>h. pc[w] # "idle" => hdl[w] \in Handles
  BY <1>0
<1>c. \A h \in Handles : Cached(h) \in Version
  BY <1>0, ClusterType
<1>u. UNCHANGED clusterVars => ClusterTypeOK'
  BY <1>0 DEF ClusterTypeOK
<1>1. CASE DeleteAccepted(w)
  <2>1. ClientTypeOK'
    BY <1>0, <1>h, <1>1 DEF DeleteAccepted, Step
  <2>2. hdl[w] \in Handles
    BY <1>h, <1>1 DEF DeleteAccepted, Step
  <2>3. ClusterTypeOK'
    BY <1>0, <1>u, <1>1, <2>2, ClusterType DEF DeleteAccepted
  <2> QED BY <2>1, <2>3
<1>2. CASE DeleteNotFound(w)
  BY <1>0, <1>h, <1>u, <1>2 DEF DeleteNotFound, Step
<1>3. CASE DeleteFails(w)
  <2>1. ClientTypeOK'
    BY <1>0, <1>h, <1>3 DEF DeleteFails, Fault, DestroyFails
  <2>2. hdl[w] \in Handles
    BY <1>h, <1>3 DEF DeleteFails
  <2>3. ClusterTypeOK'
    BY <1>0, <1>u, <1>3, <2>2, ClusterType DEF DeleteFails
  <2> QED BY <2>1, <2>3
<1>4. CASE PodGone(w)
  BY <1>0, <1>h, <1>u, <1>4 DEF PodGone, Step
<1>5. CASE DeleteTimeout(w)
  BY <1>0, <1>h, <1>u, <1>5 DEF DeleteTimeout, DestroyFails
<1>6. CASE ReleasePort(w)
  BY <1>0, <1>h, <1>u, <1>6 DEF ReleasePort, Release
<1>7. CASE RemoveContainer(w)
  BY <1>0, <1>h, <1>u, <1>7
     DEF RemoveContainer, Step, Remove, NoContainer, Container
<1>8. CASE DestroyKeySpace(w)
  BY <1>0, <1>h, <1>u, <1>8 DEF DestroyKeySpace, Step
<1> QED BY <1>1, <1>2, <1>3, <1>4, <1>5, <1>6, <1>7, <1>8 DEF DestroyStep

\* The process's own steps and the start of a call keep the types.
LEMMA ProcessType ==
  ASSUME TypeOK, ProcessStep
  PROVE  TypeOK'
<1> USE ClientAssumption
    DEF ClientTypeOK, CreateSteps, DestroySteps, Results, RepStates,
        StrayStates, clusterVars, workerVars, memoryVars, clientVars
<1>0. /\ ClientTypeOK /\ ClusterTypeOK /\ rep \in RepStates
      /\ stray \in [Handles -> StrayStates]
  BY DEF TypeOK
<1>1. CASE Boot
  <2>1. CacheSync => ClusterTypeOK'
    BY <1>0, ClusterType DEF CacheSync, ClusterTypeOK
  <2> QED BY <1>0, <1>1, <2>1 DEF Boot, TypeOK
<1>2. CASE Restore
  <2>1. \A h \in Handles : Cached(h) \in Version
    BY <1>0, ClusterType
  <2>2. containers' \in [Handles -> Container]
    BY <1>2, <2>1 DEF Restore, RestoredContainers, RestoredContainer,
                      NoContainer, Container, Version
  <2>3. props' \in [Handles -> SUBSET {"owner", "created", "user"}]
    BY <1>2 DEF Restore, RestoredProps
  <2>4. ClusterTypeOK'
    BY <1>0, <1>2 DEF Restore, ClusterTypeOK
  <2> QED BY <1>0, <1>2, <2>2, <2>3, <2>4 DEF Restore, TypeOK
<1>3. CASE Serve
  BY <1>0, <1>3 DEF Serve, TypeOK, ClusterTypeOK
<1>4. CASE CleanupFails \/ Crash
  <2>1. faults' \in 0 .. MaxFaults
    BY <1>0, <1>4 DEF CleanupFails, Crash, Fault
  <2>2. Halt
    BY <1>4 DEF CleanupFails, Crash
  <2>3. containers' \in [Handles -> Container]
    BY <2>2 DEF Halt, NoContainer, Container
  <2> QED BY <1>0, <2>1, <2>2, <2>3 DEF Halt, TypeOK, ClusterTypeOK
<1>5. ASSUME NEW h \in Handles, ReceiveResult(h)
      PROVE  TypeOK'
  BY <1>0, <1>5 DEF ReceiveResult, TypeOK, ClusterTypeOK
<1> QED BY <1>1, <1>2, <1>3, <1>4, <1>5 DEF ProcessStep

\* A step of a call, its beginning and its end keep the types.
LEMMA CallType ==
  ASSUME TypeOK, NEW w \in Workers, CallStep(w)
  PROVE  TypeOK'
<1> USE ClientAssumption
    DEF ClientTypeOK, CreateSteps, DestroySteps, Results, RepStates,
        StrayStates, Goto, clusterVars, workerVars, memoryVars, clientVars
<1>0. /\ ClientTypeOK /\ ClusterTypeOK /\ rep \in RepStates
      /\ stray \in [Handles -> StrayStates]
  BY DEF TypeOK
<1>1. CASE WorkerStep(w)
  BY <1>0, <1>1, CreateType, DestroyType DEF WorkerStep, TypeOK
<1>2. CASE SendResult(w)
  BY <1>0, <1>2 DEF SendResult, Leave, TypeOK, ClusterTypeOK
<1>3. CASE DestroyReturns(w)
  BY <1>0, <1>3 DEF DestroyReturns, Leave, TypeOK, ClusterTypeOK
<1>4. ASSUME NEW h \in Handles, StartCreate(w, h)
      PROVE  TypeOK'
  BY <1>0, <1>4 DEF StartCreate, BeginCreate, TypeOK, ClusterTypeOK
<1>5. ASSUME NEW h \in Handles, BeginDestroy(w, h)
      PROVE  ClientTypeOK' /\ ClusterTypeOK'
  BY <1>0, <1>5 DEF BeginDestroy, Container, ClusterTypeOK
<1>6. ASSUME NEW h \in Handles, StartDestroy(w, h) \/ DestroyStray(w, h)
      PROVE  TypeOK'
  BY <1>0, <1>5, <1>6 DEF StartDestroy, DestroyStray, TypeOK
<1> QED BY <1>1, <1>2, <1>3, <1>4, <1>6 DEF CallStep

\* The kubelet, the watch and other actors keep the types.
LEMMA NodeType ==
  ASSUME TypeOK, NEW h \in Handles, NodeStep(h) \/ Evict(h)
  PROVE  TypeOK'
<1>0. /\ ClientTypeOK /\ ClusterTypeOK /\ rep \in RepStates
      /\ stray \in [Handles -> StrayStates]
  BY DEF TypeOK
<1>1. ClusterTypeOK'
  BY <1>0, ClusterType DEF NodeStep, Evict
<1>2. faults' \in 0 .. MaxFaults
  BY <1>0, ClientAssumption DEF NodeStep, Evict, Fault, ClientTypeOK
<1>3. UNCHANGED <<memoryVars, rep, stray>>
  BY DEF NodeStep, Evict
<1> QED BY <1>0, <1>1, <1>2, <1>3
        DEF TypeOK, ClientTypeOK, memoryVars, workerVars

\* The executor's use of properties keeps the types.
LEMMA PropertyType ==
  ASSUME TypeOK, NEW h \in Handles, UseProperties(h)
  PROVE  TypeOK'
<1>0. /\ ClientTypeOK /\ ClusterTypeOK /\ rep \in RepStates
      /\ stray \in [Handles -> StrayStates]
  BY DEF TypeOK
<1>1. props' \in [Handles -> SUBSET {"owner", "created", "user"}]
  BY <1>0 DEF UseProperties, SetProperty, RemoveProperty, ClientTypeOK
<1>2. UNCHANGED <<allocated, containers, workerVars, clusterVars, faults, rep,
                  stray>>
  BY DEF UseProperties, SetProperty, RemoveProperty
<1> QED BY <1>0, <1>1, <1>2
        DEF TypeOK, ClientTypeOK, ClusterTypeOK, workerVars, clusterVars

\* Every step keeps the types.
LEMMA TypeStep ==
  ASSUME TypeOK, [Next]_vars
  PROVE  TypeOK'
<1>1. CASE UNCHANGED vars
  BY <1>1 DEF vars, clientVars, memoryVars, workerVars, clusterVars, TypeOK,
              ClientTypeOK, ClusterTypeOK
<1> QED BY <1>1, ProcessType, CallType, NodeType, PropertyType,
           ClientAssumption DEF Next

\* Every variable keeps its type: in particular a port that is allocated is in
\* the pool, and exactly the idle workers have no handle.
THEOREM TypeCorrect == Spec => []TypeOK
<1>1. Init => TypeOK
  <2> SUFFICES ASSUME Init PROVE TypeOK
    OBVIOUS
  <2> USE ClientAssumption
  <2>1. ClientTypeOK
    BY DEF Init, ClientInit, InitMemory, NoContainer, Container, ClientTypeOK
  <2>2. Gone(0) \in Version
    BY DEF Gone, Version, Phases
  <2>3. <<Gone(0)>> \in Views
    BY <2>2, SingletonFacts
  <2>4. ClusterTypeOK
    BY <2>3 DEF Init, ClientInit, ClusterInit, ClusterTypeOK, Views
  <2> QED BY <2>1, <2>4 DEF Init, TypeOK, RepStates, StrayStates
<1> QED BY <1>1, TypeStep, PTL DEF Spec

(***************************************************************************)
(* A clean start                                                           *)
(*                                                                         *)
(* CleanStart is not inductive: that a stray's Destroy succeeded says that *)
(* its pod is gone only because, while the process starts, no pod is born, *)
(* so a cache that was in sync once and has lost a pod has lost it for     *)
(* good.                                                                   *)
(***************************************************************************)

\* In a history without a rebirth, a pod that was absent once is absent now.
AbsentFinal(s) ==
  \A i \in 1 .. Len(s) : s[i].phase = "Absent" => LatestOf(s).phase = "Absent"

Startup == {"starting", "cleanup"}

CleanInv ==
  /\ rep # "serving" => \A w \in Workers : pc[w] \notin CreateSteps
  /\ rep \in {"down", "starting"} => \A w \in Workers : pc[w] = "idle"
  /\ rep \in Startup => \A h \in Labelled : AbsentFinal(view[h])
  /\ rep = "cleanup" =>
       /\ \A h \in Labelled : stray[h] \in {"none", "ok"} => ~PodExists(h)
       /\ \A w \in Workers :
            pc[w] \in {"release", "keyspace", "destroyed"}
              /\ hdl[w] \in Labelled => ~PodExists(hdl[w])

\* What a write does to the histories.
LEMMA PublishFacts ==
  ASSUME ClusterTypeOK, NEW h \in Handles, NEW v \in Version, Publish(h, v)
  PROVE  /\ Live(h)' = v
         /\ \A g \in Handles \ {h} : view'[g] = view[g]
         /\ h \in Labelled => view'[h] = Append(view[h], v)
         /\ h \notin Labelled => view'[h] = <<v>>
<1>1. view \in [Handles -> Views]
  BY DEF ClusterTypeOK, Views
<1>2. /\ \A g \in Handles \ {h} : view'[g] = view[g]
      /\ h \in Labelled => view'[h] = Append(view[h], v)
      /\ h \notin Labelled => view'[h] = <<v>>
  BY <1>1 DEF Publish
<1>3. view[h] \in Views
  BY <1>1
<1>4. LatestOf(view'[h]) = v
  <2>1. LatestOf(Append(view[h], v)) = v /\ LatestOf(<<v>>) = v
    BY <1>3, AppendFacts, SingletonFacts
  <2> QED BY <1>2, <2>1
<1> QED BY <1>2, <1>4 DEF Live

\* A write that does not make a pod keeps a history without a rebirth.
LEMMA FinalAppend ==
  ASSUME NEW s \in Views, NEW v \in Version, AbsentFinal(s),
         LatestOf(s).phase = "Absent" => v.phase = "Absent"
  PROVE  AbsentFinal(Append(s, v))
<1>1. /\ Len(s) \in Nat /\ Len(Append(s, v)) = Len(s) + 1
      /\ LatestOf(Append(s, v)) = v
      /\ \A i \in 1 .. Len(s) : Append(s, v)[i] = s[i]
      /\ Append(s, v)[Len(s) + 1] = v
  BY ViewFacts, AppendFacts
<1> SUFFICES ASSUME NEW i \in 1 .. Len(s) + 1, Append(s, v)[i].phase = "Absent"
             PROVE  v.phase = "Absent"
  BY <1>1 DEF AbsentFinal
<1>2. CASE i \in 1 .. Len(s)
  BY <1>1, <1>2 DEF AbsentFinal
<1>3. CASE i = Len(s) + 1
  BY <1>1, <1>3
<1> QED BY <1>1, <1>2, <1>3

\* A delivered watch event keeps a history without a rebirth.
LEMMA FinalTail ==
  ASSUME NEW s \in Views, Len(s) > 1, AbsentFinal(s)
  PROVE  AbsentFinal(Tail(s))
<1>1. /\ Len(s) \in Nat /\ Len(Tail(s)) = Len(s) - 1
      /\ LatestOf(Tail(s)) = LatestOf(s)
      /\ \A i \in 1 .. Len(s) - 1 : Tail(s)[i] = s[i + 1]
  BY ViewFacts, TailFacts
<1> SUFFICES ASSUME NEW i \in 1 .. Len(s) - 1, Tail(s)[i].phase = "Absent"
             PROVE  LatestOf(s).phase = "Absent"
  BY <1>1 DEF AbsentFinal
<1>2. i + 1 \in 1 .. Len(s) /\ s[i + 1].phase = "Absent"
  BY <1>1
<1> QED BY <1>2 DEF AbsentFinal

\* The cluster steps that make no pod.
Quiet(h) == \/ ApiDelete(h) \/ ApiForceDelete(h) \/ WatchEvent(h)
            \/ StartPod(h) \/ FailPod(h) \/ RemovePod(h)

\* They bring no pod to life and keep histories without a rebirth.
LEMMA QuietSteps ==
  ASSUME ClusterTypeOK, NEW h \in Handles, Quiet(h), NEW g \in Handles
  PROVE  /\ PodExists(g)' => PodExists(g)
         /\ AbsentFinal(view[g]) => AbsentFinal(view'[g])
<1>1. view \in [Handles -> Views] /\ Live(h) \in Version /\ view[h] \in Views
  BY ClusterType DEF ClusterTypeOK, Views
<1>2. ASSUME NEW v \in Version, Publish(h, v), ~PodExists(h) => v.phase = "Absent"
      PROVE  /\ PodExists(g)' => PodExists(g)
             /\ AbsentFinal(view[g]) => AbsentFinal(view'[g])
  <2>1. CASE g # h
    BY <1>2, <2>1, PublishFacts DEF PodExists, Live
  <2>2. CASE g = h
    <3>1. PodExists(g)' => PodExists(g)
      BY <1>2, <2>2, PublishFacts DEF PodExists
    <3>2. CASE h \in Labelled
      BY <1>1, <1>2, <2>2, <3>1, <3>2, PublishFacts, FinalAppend
      DEF PodExists, Live
    <3>3. CASE h \notin Labelled
      <4>1. view'[h] = <<v>>
        BY <1>2, <3>3, PublishFacts
      <4>2. AbsentFinal(<<v>>)
        BY <1>2, SingletonFacts DEF AbsentFinal
      <4> QED BY <2>2, <3>1, <4>1, <4>2
    <3> QED BY <3>2, <3>3
  <2> QED BY <2>1, <2>2
<1>3. /\ Gone(Live(h).uid) \in Version /\ Gone(Live(h).uid).phase = "Absent"
      /\ [Live(h) EXCEPT !.phase = "Running"] \in Version
      /\ [Live(h) EXCEPT !.phase = "Failed"] \in Version
  <2>1. {"Absent", "Running", "Failed"} \subseteq Phases
    BY DEF Phases
  <2> QED BY <1>1, <2>1 DEF Gone, Version
<1>4. CASE UNCHANGED view
  BY <1>4 DEF PodExists, Live
<1>5. CASE ApiForceDelete(h) \/ RemovePod(h)
  BY <1>2, <1>3, <1>4, <1>5 DEF ApiForceDelete, RemovePod
<1>6. CASE StartPod(h)
  <2>1. PodExists(h)
    BY <1>6 DEF StartPod, PodExists
  <2> QED BY <1>2, <1>3, <1>6, <2>1 DEF StartPod
<1>7. CASE FailPod(h)
  <2>1. PodExists(h)
    BY <1>7 DEF FailPod, PodExists
  <2> QED BY <1>2, <1>3, <1>7, <2>1 DEF FailPod
<1>8. CASE WatchEvent(h)
  <2>1. Len(view[h]) > 1 /\ view' = [view EXCEPT ![h] = Tail(@)]
    BY <1>8 DEF WatchEvent
  <2>2. CASE g = h
    <3>1. view'[g] = Tail(view[h])
      BY <1>1, <2>1, <2>2
    <3> QED BY <1>1, <2>1, <2>2, <3>1, TailFacts, FinalTail DEF PodExists, Live
  <2>3. CASE g # h
    BY <1>1, <2>1, <2>3 DEF PodExists, Live
  <2> QED BY <2>2, <2>3
<1> QED BY <1>4, <1>5, <1>6, <1>7, <1>8 DEF Quiet, ApiDelete

\* The client's steps write to the cluster by quiet steps, or create a pod.
LEMMA CreateWrites ==
  ASSUME TypeOK, NEW w \in Workers, CreateStep(w)
  PROVE  pc[w] \in CreateSteps
BY DEF CreateStep, CreateSteps, AllocatePort, AllocateFails, PortsReady,
       ImageReady, ImageFails, SetProperties, AddContainer, AddFails,
       CreatePod, CreatePodFails, CreatePodLost, PollPod, PodRunning,
       CreateTimeout, WaitFails, LoadTasks, LoadTasksFails, SetState, Step

\* A step of Destroy writes to the cluster by quiet steps only.
LEMMA DestroyWrites ==
  ASSUME TypeOK, NEW w \in Workers, DestroyStep(w)
  PROVE  hdl[w] \in Handles /\ (UNCHANGED clusterVars \/ Quiet(hdl[w]))
<1>1. pc[w] # "idle"
  BY DEF DestroyStep, DeleteAccepted, DeleteNotFound, DeleteFails, PodGone,
         DeleteTimeout, ReleasePort, RemoveContainer, DestroyKeySpace, Step
<1>2. hdl[w] \in Handles
  BY <1>1 DEF TypeOK, ClientTypeOK
<1>3. UNCHANGED clusterVars \/ ApiDelete(hdl[w])
  BY DEF DestroyStep, DeleteAccepted, DeleteNotFound, DeleteFails, PodGone,
         DeleteTimeout, ReleasePort, RemoveContainer, DestroyKeySpace
<1> QED BY <1>2, <1>3 DEF Quiet

\* While the process starts, no step of it or of the cluster makes a pod.
LEMMA NoBirth ==
  ASSUME TypeOK, CleanInv, Next, rep # "serving", NEW g \in Handles
  PROVE  /\ PodExists(g)' => PodExists(g)
         /\ AbsentFinal(view[g]) => AbsentFinal(view'[g])
<1> USE DEF clusterVars, clientVars
<1>0. ClusterTypeOK /\ view \in [Handles -> Views]
  BY DEF TypeOK, ClusterTypeOK, Views
<1>1. CASE UNCHANGED view
  BY <1>1 DEF PodExists, Live
<1>2. CASE Boot
  <2>1. view'[g] = <<Live(g)>>
    BY <1>2 DEF Boot, CacheSync
  <2>2. Live(g) \in Version
    BY <1>0, ClusterType
  <2>3. /\ LatestOf(<<Live(g)>>) = Live(g) /\ Len(<<Live(g)>>) = 1
        /\ <<Live(g)>>[1] = Live(g)
    BY <2>2, SingletonFacts
  <2> QED BY <2>1, <2>3 DEF PodExists, Live, AbsentFinal
<1>3. CASE ProcessStep
  BY <1>1, <1>2, <1>3 DEF ProcessStep, Restore, Serve, CleanupFails, Crash,
                          Halt, ReceiveResult
<1>4. ASSUME NEW h \in Handles, NodeStep(h) \/ Evict(h)
      PROVE  Quiet(h)
  BY <1>4 DEF NodeStep, Evict, Quiet
<1>5. ASSUME NEW w \in Workers, CallStep(w)
      PROVE  UNCHANGED view \/ (hdl[w] \in Handles /\ Quiet(hdl[w]))
  <2>1. ~CreateStep(w)
    BY CreateWrites DEF CleanInv
  <2>2. CASE WorkerStep(w)
    BY <2>1, <2>2, DestroyWrites DEF WorkerStep
  <2>3. CASE ~WorkerStep(w)
    BY <1>5, <2>3 DEF CallStep, SendResult, DestroyReturns, DestroyStray,
                      StartCreate, StartDestroy, BeginCreate, BeginDestroy
  <2> QED BY <2>2, <2>3
<1>6. ASSUME NEW h \in Annotated, UseProperties(h)
      PROVE  FALSE
  BY <1>6 DEF UseProperties
<1> QED BY <1>0, <1>1, <1>3, <1>4, <1>5, <1>6, QuietSteps DEF Next

\* A Destroy that goes on to release ports while the process starts has seen
\* a cache without the pod, or was told by the API server that there is none.
LEMMA StartupDestroy ==
  ASSUME TypeOK, CleanInv, NEW w \in Workers, DestroyStep(w), rep = "cleanup",
         pc'[w] \in {"release", "keyspace", "destroyed"}, hdl[w] \in Labelled
  PROVE  ~PodExists(hdl[w])
<1>0. hdl[w] \in Handles /\ pc \in [Workers -> LabelSet]
      /\ view[hdl[w]] \in Views
  BY LabelledAssumption DEF TypeOK, ClientTypeOK, ClusterTypeOK, LabelSet, Views
<1>1. CASE pc[w] \in {"release", "keyspace", "destroyed"}
  BY <1>1 DEF CleanInv
<1>2. CASE DeleteNotFound(w)
  BY <1>2 DEF DeleteNotFound
<1>3. CASE PodGone(w)
  <2>1. Head(view[hdl[w]]).phase = "Absent"
    BY <1>3 DEF PodGone, InCache, Cached
  <2>2. Len(view[hdl[w]]) \in Nat \ {0} /\ Head(view[hdl[w]]) = view[hdl[w]][1]
    BY <1>0, ViewFacts
  <2>3. AbsentFinal(view[hdl[w]])
    BY DEF CleanInv, Startup
  <2> QED BY <2>1, <2>2, <2>3 DEF AbsentFinal, PodExists, Live
<1>4. CASE DeleteAccepted(w) \/ DeleteFails(w) \/ DeleteTimeout(w)
  BY <1>0, <1>4 DEF DeleteAccepted, DeleteFails, DeleteTimeout, DestroyFails,
                    Step, Goto
<1>5. CASE ReleasePort(w) \/ RemoveContainer(w) \/ DestroyKeySpace(w)
  BY <1>1, <1>5 DEF ReleasePort, RemoveContainer, DestroyKeySpace, Step
<1> QED BY <1>2, <1>3, <1>4, <1>5 DEF DestroyStep

\* A step of Destroy moves its worker inside Destroy and no other worker.
LEMMA DestroyMoves ==
  ASSUME TypeOK, NEW w \in Workers, DestroyStep(w)
  PROVE  /\ pc[w] \in DestroySteps /\ pc'[w] \in DestroySteps \cup Results
         /\ \A v \in Workers \ {w} : pc'[v] = pc[v]
         /\ hdl' = hdl
BY DEF TypeOK, ClientTypeOK, DestroyStep, DeleteAccepted, DeleteNotFound,
       DeleteFails, DestroyFails, PodGone, DeleteTimeout, ReleasePort,
       RemoveContainer, DestroyKeySpace, Step, Goto, DestroySteps, Results

\* Every step keeps the invariant of a clean start.
LEMMA CleanInvStep ==
  ASSUME TypeOK, CleanInv, [Next]_vars
  PROVE  CleanInv'
<1> USE LabelledAssumption
    DEF CreateSteps, Startup, clusterVars, clientVars, memoryVars, workerVars
<1>t. /\ pc \in [Workers -> LabelSet]
      /\ hdl \in [Workers -> Handles \cup {NoHandle}]
      /\ stray \in [Handles -> StrayStates]
      /\ view \in [Handles -> Views]
  BY DEF TypeOK, ClientTypeOK, ClusterTypeOK, LabelSet, Views
<1>0. CASE UNCHANGED vars
  BY <1>0 DEF vars, CleanInv, PodExists, Live
<1>h. CASE Halt
  BY <1>h DEF Halt, CleanInv
<1>1. CASE Next /\ rep # "serving"
  <2>0. /\ \A g \in Handles : PodExists(g)' => PodExists(g)
        /\ \A g \in Handles : AbsentFinal(view[g]) => AbsentFinal(view'[g])
    BY <1>1, NoBirth
  <2>1. CASE Boot
    <3>1. \A g \in Handles : AbsentFinal(view'[g])
      <4> TAKE g \in Handles
      <4>1. Live(g) \in Version
        BY ClusterType DEF TypeOK
      <4>2. view'[g] = <<Live(g)>>
        BY <2>1 DEF Boot, CacheSync
      <4> QED BY <4>1, <4>2, SingletonFacts DEF AbsentFinal
    <3> QED BY <2>1, <3>1 DEF Boot, CleanInv
  <2>2. CASE Restore
    <3>1. ASSUME NEW h \in Labelled, stray'[h] \in {"none", "ok"}
          PROVE  ~PodExists(h)
      <4>1. ~InCache(h)
        BY <2>2, <3>1 DEF Restore, StraysToDestroy, Containers, Tracked,
             Exists, RestoredContainers, RestoredProps, RestoredContainer
      <4>2. Head(view[h]).phase = "Absent"
        BY <4>1 DEF InCache, Cached
      <4>3. Len(view[h]) \in Nat \ {0} /\ Head(view[h]) = view[h][1]
        BY <1>t, ViewFacts
      <4> QED BY <2>2, <4>2, <4>3 DEF Restore, CleanInv, AbsentFinal,
                                     PodExists, Live
    <3> QED BY <2>0, <2>2, <3>1 DEF Restore, CleanInv
  <2>3. CASE Serve
    BY <2>3 DEF Serve, CleanInv
  <2>4. ASSUME NEW h \in Handles, ReceiveResult(h)
        PROVE  CleanInv'
    BY <1>t, <2>0, <2>4 DEF ReceiveResult, CleanInv
  <2>5. ASSUME NEW h \in Handles, NodeStep(h) \/ Evict(h)
        PROVE  CleanInv'
    BY <2>0, <2>5 DEF NodeStep, Evict, CleanInv
  <2>6. ASSUME NEW w \in Workers, CallStep(w)
        PROVE  CleanInv'
    <3>1. ~CreateStep(w)
      BY <1>1, CreateWrites DEF CleanInv
    <3>2. CASE WorkerStep(w)
      <4>1. DestroyStep(w) /\ UNCHANGED <<rep, stray>>
        BY <3>1, <3>2 DEF WorkerStep
      <4>2. /\ pc[w] \in DestroySteps /\ pc'[w] \in DestroySteps \cup Results
            /\ \A v \in Workers \ {w} : pc'[v] = pc[v]
            /\ hdl' = hdl
        BY <4>1, DestroyMoves
      <4>3. rep = "cleanup"
        BY <1>1, <4>2 DEF CleanInv, DestroySteps, TypeOK, RepStates
      <4>4. \A v \in Workers : pc'[v] \in {"release", "keyspace", "destroyed"}
              /\ hdl[v] \in Labelled => ~PodExists(hdl[v])
        BY <4>1, <4>2, <4>3, StartupDestroy DEF CleanInv
      <4>5. \A v \in Workers : pc'[v] \notin CreateSteps
        BY <4>2, <4>3 DEF CleanInv, DestroySteps, Results
      <4> QED BY <2>0, <4>1, <4>2, <4>3, <4>4, <4>5 DEF CleanInv
    <3>3. CASE SendResult(w)
      BY <1>t, <2>0, <3>3 DEF SendResult, Leave, Goto, CleanInv, Results
    <3>4. ASSUME NEW h \in Handles, DestroyStray(w, h)
          PROVE  CleanInv'
      BY <1>t, <2>0, <3>4 DEF DestroyStray, BeginDestroy, Goto, CleanInv
    <3> QED BY <1>1, <2>6, <3>2, <3>3, <3>4
            DEF CallStep, DestroyReturns, StartCreate, StartDestroy
  <2> QED BY <1>1, <1>h, <2>1, <2>2, <2>3, <2>4, <2>5, <2>6
          DEF Next, ProcessStep, CleanupFails, Crash, UseProperties
<1>2. CASE Next /\ rep = "serving"
  <2>1. CASE rep' = "serving"
    BY <2>1 DEF CleanInv
  <2>2. Halt \/ rep' = "serving"
    BY <1>2 DEF Next, ProcessStep, CallStep, NodeStep, Evict, WorkerStep, Boot,
          Restore, Serve, CleanupFails, Crash, ReceiveResult, SendResult,
          DestroyReturns, DestroyStray, StartCreate, StartDestroy, UseProperties
  <2> QED BY <1>h, <2>1, <2>2
<1> QED BY <1>0, <1>1, <1>2

\* The invariant of a clean start holds throughout.
LEMMA CleanInvariant == Spec => []CleanInv
<1>1. Init => CleanInv
  BY DEF Init, ClientInit, InitMemory, CleanInv, CreateSteps, Startup
<1> QED BY <1>1, CleanInvStep, TypeCorrect, PTL DEF Spec

\* Whatever the callers do and whatever the API server answers: a rep begins
\* to serve only when every labelled pod of the processes before it has left
\* the API server.
THEOREM CleanStartHolds == Spec => CleanStart
<1>1. ASSUME TypeOK, CleanInv, [Next]_vars, rep = "cleanup", rep' = "serving"
      PROVE  \A h \in Labelled : ~PodExists(h)
  <2>1. Serve
    BY <1>1 DEF vars, Next, ProcessStep, CallStep, NodeStep, Evict, WorkerStep,
          Boot, Restore, CleanupFails, Crash, Halt, ReceiveResult, SendResult,
          DestroyReturns, DestroyStray, StartCreate, StartDestroy, UseProperties
  <2> QED BY <1>1, <2>1, LabelledAssumption DEF Serve, CleanInv
<1>2. TypeOK /\ CleanInv /\ [Next]_vars =>
        [rep = "cleanup" /\ rep' = "serving" =>
           \A h \in Labelled : ~PodExists(h)]_vars
  BY <1>1
<1> QED BY <1>2, CleanInvariant, TypeCorrect, PTL DEF Spec, CleanStart
=============================================================================
