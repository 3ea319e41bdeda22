-------------------------- MODULE RepSafetyProofs --------------------------
(***************************************************************************)
(* The safety properties of the garden client, for every set of handles    *)
(* and workers, every pool of ports and every bound on faults, with calls  *)
(* to the API server that fail with and without effect.  What the table    *)
(* and a single Destroy guarantee needs nothing else; the theorems about   *)
(* ports name what they need of the callers.                               *)
(***************************************************************************)
EXTENDS RepProofs

(***************************************************************************)
(* The table and the properties                                            *)
(***************************************************************************)

\* The steps of Create before and after the container is in the table.
Before == {"netin", "image", "props", "add"}
After == {"create", "wait", "tasks", "state"}

\* The callers' discipline as it shows in the workers' states.
Discipline ==
  \A v, w \in Workers : v # w /\ hdl[v] = hdl[w] =>
    /\ pc[v] \in CreateSteps => pc[w] \notin DestroySteps
    /\ pc[v] \in CreateSteps /\ pc[w] \in CreateSteps => "Create" \in Overlap
    /\ pc[v] \in DestroySteps /\ pc[w] \in DestroySteps => "Destroy" \in Overlap

\* A Create that has added its container finds it there, and it alone has.
AddedOnce ==
  /\ \A w \in Workers : pc[w] \in After => containers[hdl[w]].kind = "fresh"
  /\ \A w \in Workers : pc[w] = "state" => containers[hdl[w]].tasks
  /\ \A v, w \in Workers :
       pc[v] \in After /\ pc[w] \in After /\ hdl[v] = hdl[w] => v = w

\* A handle whose state is "created" has a usable container, or a Destroy is
\* about to take its properties away.
CreatedIsUsable ==
  \A h \in Handles : "created" \in props[h] =>
    \/ containers[h].kind = "fresh" /\ containers[h].tasks
    \/ ~Exists(h) /\ \E w \in Workers : hdl[w] = h /\ pc[w] = "keyspace"

\* A handle with properties has a container, or a call is about to add it or
\* to take its properties away.
PropertiesHaveOwner ==
  \A h \in Handles : props[h] # {} =>
    \/ Exists(h)
    \/ \E w \in Workers : hdl[w] = h /\ pc[w] \in {"add", "keyspace"}

TableInv == Discipline /\ AddedOnce /\ CreatedIsUsable /\ PropertiesHaveOwner

\* The variables of the client that a call works on.
LEMMA ClientTypes ==
  ASSUME TypeOK
  PROVE  /\ pc \in [Workers -> LabelSet]
         /\ hdl \in [Workers -> Handles \cup {NoHandle}]
         /\ held \in [Workers -> SUBSET Nat]
         /\ containers \in [Handles -> Container]
         /\ props \in [Handles -> SUBSET {"owner", "created", "user"}]
         /\ stray \in [Handles -> StrayStates]
         /\ \A w \in Workers : (hdl[w] \in Handles) <=> (pc[w] # "idle")
         /\ NoHandle \notin Handles
BY ClientAssumption DEF TypeOK, ClientTypeOK, LabelSet

\* What a caller who may begin an operation knows of the other workers.
LEMMA MayBeginFacts ==
  ASSUME NEW op, NEW h, MayBegin(op, h), NEW w \in Workers, hdl[w] = h
  PROVE  /\ pc[w] \in CreateSteps => op = "Create" /\ op \in Overlap
         /\ pc[w] \in DestroySteps => op = "Destroy" /\ op \in Overlap
<1>1. pc[w] \in CreateSteps => Operation(pc[w]) = "Create"
  BY DEF Operation, CreateSteps, DestroySteps
<1>2. pc[w] \in DestroySteps => Operation(pc[w]) = "Destroy"
  BY DEF Operation, CreateSteps, DestroySteps
<1> QED BY <1>1, <1>2 DEF MayBegin, Busy

\* A step of a call keeps the callers' discipline.
LEMMA DisciplineCall ==
  ASSUME TypeOK, Discipline, NEW w \in Workers, CallStep(w)
  PROVE  Discipline'
<1> USE DEF Discipline, CreateSteps, DestroySteps, Results, Goto, LabelSet
<1>t. /\ pc \in [Workers -> LabelSet]
      /\ hdl \in [Workers -> Handles \cup {NoHandle}]
      /\ \A v \in Workers : (hdl[v] \in Handles) <=> (pc[v] # "idle")
  BY ClientTypes
<1>0. ASSUME hdl' = hdl, NEW l \in LabelSet, Goto(w, l),
             \/ l \notin CreateSteps \cup DestroySteps
             \/ pc[w] \in CreateSteps /\ l \in CreateSteps
             \/ pc[w] \in DestroySteps /\ l \in DestroySteps
      PROVE  Discipline'
  BY <1>t, <1>0
<1>1. CASE Leave(w)
  BY <1>t, <1>1 DEF Leave
<1>2. CASE CreateStep(w)
  <2>1. CASE AllocatePort(w) \/ PollPod(w)
    BY <2>1 DEF AllocatePort, PollPod, workerVars
  <2>2. CASE PortsReady(w) \/ ImageReady(w)
    BY <1>0, <2>2 DEF PortsReady, ImageReady, Step
  <2>3. CASE SetProperties(w) \/ AddContainer(w) \/ CreatePod(w)
    BY <1>0, <2>3 DEF SetProperties, AddContainer, CreatePod, Step
  <2>4. CASE PodRunning(w) \/ LoadTasks(w)
    BY <1>0, <2>4 DEF PodRunning, LoadTasks, Step
  <2> QED BY <1>1, <1>2, <2>1, <2>2, <2>3, <2>4
          DEF CreateStep, AllocateFails, ImageFails, AddFails, CreatePodFails,
              CreatePodLost, CreateTimeout, WaitFails, LoadTasksFails, SetState
<1>3. CASE DestroyStep(w)
  BY <1>t, <1>3, DestroyMoves
<1>4. ASSUME NEW h \in Handles, BeginCreate(w, h) \/ BeginDestroy(w, h)
      PROVE  Discipline'
  <2>1. CASE BeginCreate(w, h)
    <3>1. \A v \in Workers : hdl[v] = h =>
            /\ pc[v] \in CreateSteps => "Create" \in Overlap
            /\ pc[v] \notin DestroySteps
      BY <2>1, MayBeginFacts DEF BeginCreate
    <3> QED BY <1>t, <2>1, <3>1 DEF BeginCreate
  <2>2. CASE BeginDestroy(w, h)
    <3>1. \A v \in Workers : hdl[v] = h =>
            /\ pc[v] \in DestroySteps => "Destroy" \in Overlap
            /\ pc[v] \notin CreateSteps
      BY <2>2, MayBeginFacts DEF BeginDestroy
    <3> QED BY <1>t, <2>2, <3>1 DEF BeginDestroy
  <2> QED BY <1>4, <2>1, <2>2
<1> QED BY <1>1, <1>2, <1>3, <1>4
        DEF CallStep, WorkerStep, SendResult, DestroyReturns, DestroyStray,
            StartCreate, StartDestroy

\* What the steps that write into a container object leave as it is.
LEMMA LoadTasksEffect ==
  ASSUME TypeOK, NEW w \in Workers, LoadTasks(w)
  PROVE  /\ containers'[hdl[w]].kind = containers[hdl[w]].kind
         /\ containers'[hdl[w]].ports = containers[hdl[w]].ports
         /\ containers'[hdl[w]].tasks
         /\ \A h \in Handles \ {hdl[w]} : containers'[h] = containers[h]
<1>1. hdl[w] \in Handles /\ containers \in [Handles -> Container]
  BY ClientTypes DEF LoadTasks, Step
<1>2. containers' = [containers EXCEPT
                       ![hdl[w]] = [containers[hdl[w]] EXCEPT !.tasks = TRUE]]
  BY Zenon DEF LoadTasks
<1>3. containers'[hdl[w]] = [containers[hdl[w]] EXCEPT !.tasks = TRUE]
  BY <1>1, <1>2, Zenon
<1>4. \A h \in Handles \ {hdl[w]} : containers'[h] = containers[h]
  BY <1>1, <1>2, Zenon
<1>5. containers[hdl[w]] \in [kind : {"none", "fresh", "restored"},
                              ports : SUBSET Nat, tasks : BOOLEAN]
  BY <1>1, Zenon DEF Container
<1>6. /\ containers'[hdl[w]].kind = containers[hdl[w]].kind
      /\ containers'[hdl[w]].ports = containers[hdl[w]].ports
      /\ containers'[hdl[w]].tasks = TRUE
  BY <1>3, <1>5, Zenon
<1> QED BY <1>4, <1>6

\* A read of the pod gives its container the ports that the watch cache has,
\* and changes nothing else.
LEMMA ReadPodEffect ==
  ASSUME TypeOK, NEW h \in Handles, ReadPod(h)
  PROVE  /\ containers'[h].kind = containers[h].kind
         /\ containers'[h].ports = Cached(h).ports
         /\ containers'[h].tasks = containers[h].tasks
         /\ \A g \in Handles \ {h} : containers'[g] = containers[g]
<1>1. containers \in [Handles -> Container]
  BY ClientTypes
<1>2. containers' = [containers EXCEPT
                       ![h] = [containers[h] EXCEPT !.ports = Cached(h).ports]]
  BY Zenon DEF ReadPod
<1>3. containers'[h] = [containers[h] EXCEPT !.ports = Cached(h).ports]
  BY <1>1, <1>2, Zenon
<1>4. \A g \in Handles \ {h} : containers'[g] = containers[g]
  BY <1>1, <1>2, Zenon
<1>5. containers[h] \in [kind : {"none", "fresh", "restored"},
                         ports : SUBSET Nat, tasks : BOOLEAN]
  BY <1>1, Zenon DEF Container
<1>6. /\ containers'[h].kind = containers[h].kind
      /\ containers'[h].ports = Cached(h).ports
      /\ containers'[h].tasks = containers[h].tasks
  BY <1>3, <1>5, Zenon
<1> QED BY <1>4, <1>6

\* A step of Create keeps what is known of the table and of properties.
LEMMA TableCreate ==
  ASSUME TypeOK, TableInv, NEW w \in Workers, CreateStep(w)
  PROVE  AddedOnce' /\ CreatedIsUsable' /\ PropertiesHaveOwner'
<1> USE DEF CreateSteps, DestroySteps, Results, Goto, LabelSet, Before, After,
            Exists
<1>t. /\ pc \in [Workers -> LabelSet]
      /\ hdl \in [Workers -> Handles \cup {NoHandle}]
      /\ containers \in [Handles -> Container]
      /\ props \in [Handles -> SUBSET {"owner", "created", "user"}]
      /\ \A v \in Workers : (hdl[v] \in Handles) <=> (pc[v] # "idle")
      /\ NoHandle \notin Handles
  BY ClientTypes
<1>i. Discipline /\ AddedOnce /\ CreatedIsUsable /\ PropertiesHaveOwner
  BY DEF TableInv
<1>h. hdl[w] \in Handles /\ pc[w] \in CreateSteps
  BY <1>t, CreateWrites
<1>1. ASSUME UNCHANGED <<containers, props>>, Leave(w),
             pc[w] = "add" => Exists(hdl[w])
      PROVE  AddedOnce' /\ CreatedIsUsable' /\ PropertiesHaveOwner'
  <2>1. AddedOnce'
    BY <1>t, <1>i, <1>1 DEF AddedOnce, Leave
  <2>2. CreatedIsUsable'
    BY <1>t, <1>i, <1>h, <1>1 DEF CreatedIsUsable, Leave
  <2>3. PropertiesHaveOwner'
    BY <1>t, <1>i, <1>h, <1>1 DEF PropertiesHaveOwner, Leave
  <2> QED BY <2>1, <2>2, <2>3
<1>2. CASE AllocateFails(w) \/ ImageFails(w) \/ CreatePodFails(w)
           \/ CreatePodLost(w)
  BY <1>1, <1>2 DEF AllocateFails, ImageFails, CreatePodFails, CreatePodLost
<1>3. CASE CreateTimeout(w) \/ WaitFails(w) \/ LoadTasksFails(w)
  BY <1>1, <1>3 DEF CreateTimeout, WaitFails, LoadTasksFails
<1>4. CASE AddFails(w)
  BY <1>1, <1>4 DEF AddFails, AddRefused
<1>5. ASSUME UNCHANGED <<containers, props, hdl>>, pc' = pc
      PROVE  AddedOnce' /\ CreatedIsUsable' /\ PropertiesHaveOwner'
  BY <1>i, <1>5 DEF AddedOnce, CreatedIsUsable, PropertiesHaveOwner
<1>6. CASE AllocatePort(w)
  BY <1>5, <1>6 DEF AllocatePort
<1>7. CASE PortsReady(w) \/ ImageReady(w) \/ CreatePod(w)
  <2>1. UNCHANGED <<containers, props, hdl>>
    BY <1>7 DEF PortsReady, ImageReady, CreatePod, Step
  <2>2. \E l \in {"image", "props", "wait"} :
          /\ pc' = [pc EXCEPT ![w] = l]
          /\ l = "wait" => pc[w] = "create"
          /\ pc[w] # "add"
    BY <1>7 DEF PortsReady, ImageReady, CreatePod, Step
  <2>3. AddedOnce'
    BY <1>t, <1>i, <2>1, <2>2 DEF AddedOnce
  <2>4. CreatedIsUsable'
    BY <1>t, <1>i, <1>h, <2>1, <2>2 DEF CreatedIsUsable
  <2>5. PropertiesHaveOwner'
    BY <1>t, <1>i, <1>h, <2>1, <2>2 DEF PropertiesHaveOwner
  <2> QED BY <2>3, <2>4, <2>5
<1>8. CASE SetProperties(w)
  <2>1. /\ UNCHANGED <<containers, hdl>> /\ pc[w] = "props"
        /\ pc' = [pc EXCEPT ![w] = "add"]
        /\ props' = [props EXCEPT ![hdl[w]] = @ \cup {"owner"}]
    BY <1>8 DEF SetProperties, Step
  <2>3. AddedOnce'
    BY <1>t, <1>i, <2>1 DEF AddedOnce
  <2>4. CreatedIsUsable'
    BY <1>t, <1>i, <1>h, <2>1 DEF CreatedIsUsable
  <2>5. PropertiesHaveOwner'
    BY <1>t, <1>i, <1>h, <2>1 DEF PropertiesHaveOwner
  <2> QED BY <2>3, <2>4, <2>5
<1>9. CASE AddContainer(w)
  <2>1. /\ UNCHANGED <<props, hdl>> /\ pc[w] = "add"
        /\ pc' = [pc EXCEPT ![w] = "create"]
        /\ ~Exists(hdl[w])
        /\ containers' = [containers EXCEPT ![hdl[w]] = FreshContainer(held[w])]
        /\ FreshContainer(held[w]).kind = "fresh"
    BY <1>9 DEF AddContainer, Add, Step, FreshContainer
  <2>3. AddedOnce'
    BY <1>t, <1>i, <1>h, <2>1 DEF AddedOnce
  <2>4. CreatedIsUsable'
    <3>1. "created" \notin props[hdl[w]]
      BY <1>t, <1>i, <1>h, <2>1 DEF CreatedIsUsable, Discipline
    <3> QED BY <1>t, <1>i, <1>h, <2>1, <3>1 DEF CreatedIsUsable
  <2>5. PropertiesHaveOwner'
    BY <1>t, <1>i, <1>h, <2>1 DEF PropertiesHaveOwner
  <2> QED BY <2>3, <2>4, <2>5
<1>10. ASSUME UNCHANGED <<props, hdl>>, ReadPod(hdl[w]),
              \/ pc' = pc
              \/ pc[w] = "wait" /\ pc' = [pc EXCEPT ![w] = "tasks"]
       PROVE  AddedOnce' /\ CreatedIsUsable' /\ PropertiesHaveOwner'
  <2>1. \A h \in Handles : /\ containers'[h].kind = containers[h].kind
                           /\ containers'[h].tasks = containers[h].tasks
    BY <1>h, <1>10, ReadPodEffect
  <2>3. AddedOnce'
    BY <1>t, <1>i, <1>10, <2>1 DEF AddedOnce
  <2>4. CreatedIsUsable'
    BY <1>t, <1>i, <1>h, <1>10, <2>1 DEF CreatedIsUsable
  <2>5. PropertiesHaveOwner'
    BY <1>t, <1>i, <1>h, <1>10, <2>1 DEF PropertiesHaveOwner
  <2> QED BY <2>3, <2>4, <2>5
<1>11. CASE PollPod(w) \/ PodRunning(w)
  BY <1>10, <1>11 DEF PollPod, PodRunning, Step, workerVars
<1>12. CASE LoadTasks(w)
  <2>1. /\ \A h \in Handles : /\ containers'[h].kind = containers[h].kind
                              /\ containers[h].tasks => containers'[h].tasks
        /\ containers'[hdl[w]].tasks
    BY <1>h, <1>12, LoadTasksEffect
  <2>2. /\ UNCHANGED <<props, hdl>> /\ pc[w] = "tasks"
        /\ pc' = [pc EXCEPT ![w] = "state"]
    BY <1>12 DEF LoadTasks, Step
  <2>3. AddedOnce'
    BY <1>t, <1>i, <2>1, <2>2 DEF AddedOnce
  <2>4. CreatedIsUsable'
    BY <1>t, <1>i, <1>h, <2>1, <2>2 DEF CreatedIsUsable
  <2>5. PropertiesHaveOwner'
    BY <1>t, <1>i, <1>h, <2>1, <2>2 DEF PropertiesHaveOwner
  <2> QED BY <2>3, <2>4, <2>5
<1>13. CASE SetState(w)
  <2>1. /\ UNCHANGED containers /\ pc[w] = "state" /\ Leave(w)
        /\ props' = [props EXCEPT ![hdl[w]] = @ \cup {"created"}]
    BY <1>13 DEF SetState
  <2>2. containers[hdl[w]].kind = "fresh" /\ containers[hdl[w]].tasks
    BY <1>i, <2>1 DEF AddedOnce
  <2>3. AddedOnce'
    BY <1>t, <1>i, <2>1 DEF AddedOnce, Leave
  <2>4. CreatedIsUsable'
    BY <1>t, <1>i, <1>h, <2>1, <2>2 DEF CreatedIsUsable, Leave
  <2>5. PropertiesHaveOwner'
    BY <1>t, <1>i, <1>h, <2>1, <2>2 DEF PropertiesHaveOwner, Leave
  <2> QED BY <2>3, <2>4, <2>5
<1> QED BY <1>2, <1>3, <1>4, <1>6, <1>7, <1>8, <1>9, <1>11, <1>12, <1>13
        DEF CreateStep

\* A step of Destroy keeps what is known of the table and of properties.
LEMMA TableDestroy ==
  ASSUME TypeOK, TableInv, NEW w \in Workers, DestroyStep(w)
  PROVE  AddedOnce' /\ CreatedIsUsable' /\ PropertiesHaveOwner'
<1> USE DEF CreateSteps, DestroySteps, Results, Goto, LabelSet, Before, After,
            Exists
<1>t. /\ pc \in [Workers -> LabelSet]
      /\ hdl \in [Workers -> Handles \cup {NoHandle}]
      /\ containers \in [Handles -> Container]
      /\ props \in [Handles -> SUBSET {"owner", "created", "user"}]
      /\ \A v \in Workers : (hdl[v] \in Handles) <=> (pc[v] # "idle")
      /\ NoHandle \notin Handles
  BY ClientTypes
<1>i. Discipline /\ AddedOnce /\ CreatedIsUsable /\ PropertiesHaveOwner
  BY DEF TableInv
<1>h. /\ pc[w] \in DestroySteps /\ pc'[w] \in DestroySteps \cup Results
      /\ \A v \in Workers \ {w} : pc'[v] = pc[v]
      /\ hdl' = hdl
      /\ hdl[w] \in Handles
  BY <1>t, DestroyMoves
<1>1. ASSUME UNCHANGED <<containers, props>>, pc[w] # "keyspace"
      PROVE  AddedOnce' /\ CreatedIsUsable' /\ PropertiesHaveOwner'
  <2>1. AddedOnce'
    BY <1>t, <1>i, <1>h, <1>1 DEF AddedOnce
  <2>2. CreatedIsUsable'
    BY <1>t, <1>i, <1>h, <1>1 DEF CreatedIsUsable
  <2>3. PropertiesHaveOwner'
    BY <1>t, <1>i, <1>h, <1>1 DEF PropertiesHaveOwner
  <2> QED BY <2>1, <2>2, <2>3
<1>2. CASE DeleteAccepted(w) \/ DeleteNotFound(w) \/ DeleteFails(w)
  BY <1>1, <1>2 DEF DeleteAccepted, DeleteNotFound, DeleteFails, DestroyFails,
                    Step
<1>3. CASE PodGone(w) \/ DeleteTimeout(w) \/ ReleasePort(w)
  BY <1>1, <1>3 DEF PodGone, DeleteTimeout, ReleasePort, DestroyFails, Step
<1>4. CASE RemoveContainer(w)
  <2>1. /\ UNCHANGED props /\ pc[w] = "release" /\ pc'[w] = "keyspace"
        /\ containers' = [containers EXCEPT ![hdl[w]] = NoContainer]
        /\ NoContainer.kind = "none"
    BY <1>t, <1>4 DEF RemoveContainer, Remove, Step, NoContainer
  <2>2. \A v \in Workers : pc[v] \in After => hdl[v] # hdl[w]
    BY <1>i, <1>h DEF Discipline
  <2>3. AddedOnce'
    BY <1>t, <1>i, <1>h, <2>1, <2>2 DEF AddedOnce
  <2>4. CreatedIsUsable'
    BY <1>t, <1>i, <1>h, <2>1 DEF CreatedIsUsable
  <2>5. PropertiesHaveOwner'
    BY <1>t, <1>i, <1>h, <2>1 DEF PropertiesHaveOwner
  <2> QED BY <2>3, <2>4, <2>5
<1>5. CASE DestroyKeySpace(w)
  <2>1. /\ UNCHANGED containers /\ pc[w] = "keyspace"
        /\ props' = [props EXCEPT ![hdl[w]] = {}]
    BY <1>5 DEF DestroyKeySpace, Step
  <2>3. AddedOnce'
    BY <1>t, <1>i, <1>h, <2>1 DEF AddedOnce
  <2>4. CreatedIsUsable'
    BY <1>t, <1>i, <1>h, <2>1 DEF CreatedIsUsable
  <2>5. PropertiesHaveOwner'
    BY <1>t, <1>i, <1>h, <2>1 DEF PropertiesHaveOwner
  <2> QED BY <2>3, <2>4, <2>5
<1> QED BY <1>2, <1>3, <1>4, <1>5 DEF DestroyStep

\* Every step keeps the invariant of the table.
LEMMA TableInvStep ==
  ASSUME TypeOK, CleanInv, TableInv, [Next]_vars
  PROVE  TableInv'
<1> USE DEF CreateSteps, DestroySteps, Results, Goto, LabelSet, Before, After,
            Exists, clusterVars, clientVars, memoryVars, workerVars
<1>t. /\ pc \in [Workers -> LabelSet]
      /\ hdl \in [Workers -> Handles \cup {NoHandle}]
      /\ containers \in [Handles -> Container]
      /\ props \in [Handles -> SUBSET {"owner", "created", "user"}]
      /\ \A v \in Workers : (hdl[v] \in Handles) <=> (pc[v] # "idle")
      /\ NoHandle \notin Handles
  BY ClientTypes
<1>i. Discipline /\ AddedOnce /\ CreatedIsUsable /\ PropertiesHaveOwner
  BY DEF TableInv
<1>0. CASE UNCHANGED <<pc, hdl, containers, props>>
  BY <1>0, <1>i DEF TableInv, Discipline, AddedOnce, CreatedIsUsable,
                    PropertiesHaveOwner
<1>h. CASE Halt
  <2>1. /\ pc' = [v \in Workers |-> "idle"] /\ props' = [h \in Handles |-> {}]
    BY <1>h DEF Halt
  <2> QED BY <2>1 DEF TableInv, Discipline, AddedOnce, CreatedIsUsable,
                      PropertiesHaveOwner
<1>1. CASE Restore
  <2>1. /\ pc' = pc /\ hdl' = hdl
        /\ \A v \in Workers : pc[v] = "idle"
        /\ props' = RestoredProps /\ containers' = RestoredContainers
    BY <1>1 DEF Restore, CleanInv
  <2>2. \A h \in Handles : /\ props'[h] \subseteq {"owner"}
                           /\ props'[h] # {} => Exists(h)'
    BY <2>1 DEF RestoredProps, RestoredContainers, RestoredContainer
  <2>3. Discipline' /\ AddedOnce'
    BY <2>1 DEF Discipline, AddedOnce
  <2>4. CreatedIsUsable' /\ PropertiesHaveOwner'
    BY <2>2 DEF CreatedIsUsable, PropertiesHaveOwner
  <2> QED BY <2>3, <2>4 DEF TableInv
<1>2. CASE ProcessStep
  BY <1>0, <1>h, <1>1, <1>2 DEF ProcessStep, Boot, Serve, CleanupFails, Crash,
                               ReceiveResult
<1>3. ASSUME NEW w \in Workers, CallStep(w)
      PROVE  TableInv'
  <2>1. Discipline'
    BY <1>i, <1>3, DisciplineCall
  <2>2. CASE WorkerStep(w)
    BY <2>1, <2>2, TableCreate, TableDestroy DEF WorkerStep, TableInv
  <2>3. ASSUME UNCHANGED <<containers, props>>, Leave(w), pc[w] \in Results
        PROVE  AddedOnce' /\ CreatedIsUsable' /\ PropertiesHaveOwner'
    <3>1. AddedOnce'
      BY <1>t, <1>i, <2>3 DEF AddedOnce, Leave
    <3>2. CreatedIsUsable'
      BY <1>t, <1>i, <2>3 DEF CreatedIsUsable, Leave
    <3>3. PropertiesHaveOwner'
      BY <1>t, <1>i, <2>3 DEF PropertiesHaveOwner, Leave
    <3> QED BY <3>1, <3>2, <3>3
  <2>4. ASSUME NEW h \in Handles, BeginCreate(w, h) \/ BeginDestroy(w, h)
        PROVE  AddedOnce' /\ CreatedIsUsable' /\ PropertiesHaveOwner'
    <3>0. /\ UNCHANGED <<containers, props>> /\ pc[w] = "idle"
          /\ hdl' = [hdl EXCEPT ![w] = h]
          /\ \E l \in {"netin", "delete"} : pc' = [pc EXCEPT ![w] = l]
      BY <2>4 DEF BeginCreate, BeginDestroy
    <3>1. AddedOnce'
      BY <1>t, <1>i, <3>0 DEF AddedOnce
    <3>2. CreatedIsUsable'
      BY <1>t, <1>i, <3>0 DEF CreatedIsUsable
    <3>3. PropertiesHaveOwner'
      BY <1>t, <1>i, <3>0 DEF PropertiesHaveOwner
    <3> QED BY <3>1, <3>2, <3>3
  <2> QED BY <1>3, <2>1, <2>2, <2>3, <2>4
          DEF CallStep, SendResult, DestroyReturns, DestroyStray, StartCreate,
              StartDestroy, TableInv
<1>4. ASSUME NEW h \in Handles, NodeStep(h) \/ Evict(h)
      PROVE  TableInv'
  BY <1>0, <1>4 DEF NodeStep, Evict
<1>5. ASSUME NEW h \in Annotated, UseProperties(h)
      PROVE  TableInv'
  <2>1. /\ UNCHANGED <<containers, pc, hdl>> /\ Exists(h) /\ h \in Handles
        /\ \/ props' = [props EXCEPT ![h] = @ \cup {"user"}]
           \/ props' = [props EXCEPT ![h] = @ \ {"user"}]
    BY <1>5, ClientAssumption DEF UseProperties, SetProperty, RemoveProperty
  <2>2. Discipline' /\ AddedOnce'
    BY <1>i, <2>1 DEF Discipline, AddedOnce
  <2>3. \A g \in Handles : "created" \in props'[g] => "created" \in props[g]
    BY <1>t, <2>1
  <2>4. CreatedIsUsable'
    BY <1>i, <2>1, <2>3 DEF CreatedIsUsable
  <2>5. PropertiesHaveOwner'
    BY <1>t, <1>i, <2>1 DEF PropertiesHaveOwner
  <2> QED BY <2>2, <2>4, <2>5 DEF TableInv
<1> QED BY <1>0, <1>2, <1>3, <1>4, <1>5 DEF Next, vars

\* The invariant of the table holds throughout.
LEMMA TableInvariant == Spec => []TableInv
<1>1. Init => TableInv
  BY DEF Init, ClientInit, InitMemory, TableInv, Discipline, AddedOnce,
         CreatedIsUsable, PropertiesHaveOwner, CreateSteps, DestroySteps, After
<1> QED BY <1>1, TableInvStep, TypeCorrect, CleanInvariant, PTL DEF Spec

\* Whatever the callers do and whatever fails: a container that Containers
\* lists as created was made by this process and has its tasks.
THEOREM ListedUsable == Spec => []ListedIsUsable
<1>1. TypeOK /\ TableInv => ListedIsUsable
  BY ClientTypes DEF TableInv, CreatedIsUsable, ListedIsUsable, Containers,
                     Tracked, Exists
<1> QED BY <1>1, TableInvariant, TypeCorrect, PTL

\* Whatever the callers do and whatever fails: a handle that has no container
\* and is not worked on has no properties that its next container would get.
THEOREM PropertiesNotStale == Spec => []NoStaleProperties
<1>1. TableInv => NoStaleProperties
  <2> SUFFICES ASSUME TableInv, NEW h \in Handles, ~Exists(h), props[h] # {}
               PROVE  Busy(h) # {}
    BY DEF NoStaleProperties
  <2>1. PICK w \in Workers : hdl[w] = h /\ pc[w] \in {"add", "keyspace"}
    BY DEF TableInv, PropertiesHaveOwner
  <2>2. Operation(pc[w]) # "none"
    BY <2>1, Zenon DEF Operation, CreateSteps, DestroySteps
  <2> QED BY <2>1, <2>2 DEF Busy
<1> QED BY <1>1, TableInvariant, PTL

(***************************************************************************)
(* Pods and their histories                                                *)
(***************************************************************************)

\* Handles are process GUIDs: no two pods are made under one handle.
HandlesAreFresh == MaxIncarnations <= 1

\* A pod that was there and is not any more has not come back.
OneLife(s) ==
  \A i, j \in 1 .. Len(s) :
    i <= j /\ s[i].phase # "Absent" /\ s[j].phase = "Absent" =>
      LatestOf(s).phase = "Absent"

HasPorts(s, ports) ==
  \A i \in 1 .. Len(s) : s[i].phase # "Absent" => s[i].ports = ports

OnePod(s) ==
  \A i \in 1 .. Len(s) : s[i].phase # "Absent" => HasPorts(s, s[i].ports)

Unborn(s) == \A i \in 1 .. Len(s) : s[i].phase = "Absent"

\* What is true of the history of one pod.
HistoryOK(h) ==
  /\ OneLife(view[h])
  /\ OnePod(view[h])
  /\ Live(h).uid = 0 => Unborn(view[h])
  /\ ~PodExists(h) => Live(h).ports = {}

HistoryInv ==
  /\ \A h \in Handles : HistoryOK(h)
  /\ \A h \in Handles : Exists(h) => HasPorts(view[h], containers[h].ports)
  /\ \A w \in Workers : pc[w] \in Before =>
       Live(hdl[w]).uid = 0 \/ Exists(hdl[w])
  /\ \A w \in Workers : pc[w] = "create" => Live(hdl[w]).uid = 0

\* A pod that is being deleted is there.
Ends(h) == h \in terminating => PodExists(h)

\* The UIDs of a name do not go down, and the next pod of it has another one
\* than the absent versions before it.
Ordered(s) ==
  /\ LatestOf(s).phase # "Absent" => LatestOf(s).uid > 0
  /\ \A i \in 1 .. Len(s) :
       /\ s[i].uid <= LatestOf(s).uid
       /\ s[i].phase = "Absent" /\ LatestOf(s).phase # "Absent" =>
            s[i].uid < LatestOf(s).uid

\* Every standing pod the cache can see has a container, and a Destroy whose
\* delete was accepted, or that found no pod, has no standing pod before it.
PodInv ==
  /\ \A h \in Handles : Ends(h) /\ Ordered(view[h])
  /\ rep \in {"cleanup", "serving"} =>
       \A h \in Labelled : Standing(h) => Exists(h)
  /\ \A w \in Workers :
       pc[w] \in {"gone", "release", "keyspace"} => ~Standing(hdl[w])

\* The version of a pod that a step other than its creation writes: the pod
\* is gone, or it is the same pod in another phase.
SamePod(s, v) ==
  \/ v.phase = "Absent" /\ v.ports = {}
  \/ /\ v.phase # "Absent" /\ LatestOf(s).phase # "Absent"
     /\ v.ports = LatestOf(s).ports

\* Such a version keeps what is true of a history.
LEMMA SamePodAppend ==
  ASSUME NEW s \in Views, NEW v \in Version, SamePod(s, v), NEW ports
  PROVE  /\ OneLife(s) => OneLife(Append(s, v)) /\ OneLife(<<v>>)
         /\ HasPorts(s, ports) => /\ HasPorts(Append(s, v), ports)
                                  /\ HasPorts(<<v>>, ports)
         /\ OnePod(s) => OnePod(Append(s, v)) /\ OnePod(<<v>>)
         /\ Unborn(s) => Unborn(Append(s, v)) /\ Unborn(<<v>>)
<1>1. /\ Len(s) \in Nat \ {0} /\ Len(Append(s, v)) = Len(s) + 1
      /\ LatestOf(Append(s, v)) = v
      /\ \A i \in 1 .. Len(s) : Append(s, v)[i] = s[i]
      /\ Append(s, v)[Len(s) + 1] = v
      /\ LatestOf(s) = s[Len(s)]
  BY ViewFacts, AppendFacts DEF LatestOf
<1>2. Len(<<v>>) = 1 /\ LatestOf(<<v>>) = v /\ <<v>>[1] = v
  BY SingletonFacts
<1>3. OneLife(<<v>>) /\ OnePod(<<v>>)
  BY <1>2 DEF OneLife, OnePod, HasPorts
<1>4. OneLife(s) => OneLife(Append(s, v))
  <2> SUFFICES ASSUME OneLife(s), NEW i \in 1 .. Len(s) + 1,
                      NEW j \in 1 .. Len(s) + 1, i <= j,
                      Append(s, v)[i].phase # "Absent",
                      Append(s, v)[j].phase = "Absent"
               PROVE  v.phase = "Absent"
    BY <1>1 DEF OneLife
  <2>1. CASE j = Len(s) + 1
    BY <1>1, <2>1
  <2>2. CASE j \in 1 .. Len(s)
    <3>1. i \in 1 .. Len(s)
      BY <1>1, <2>2
    <3> QED BY <1>1, <2>2, <3>1 DEF OneLife, SamePod
  <2> QED BY <1>1, <2>1, <2>2
<1>5. ASSUME NEW p, HasPorts(s, p)
      PROVE  HasPorts(Append(s, v), p) /\ HasPorts(<<v>>, p)
  <2>1. v.phase # "Absent" => v.ports = p
    BY <1>1, <1>5 DEF SamePod, HasPorts
  <2>2. HasPorts(<<v>>, p)
    BY <1>2, <2>1 DEF HasPorts
  <2>3. ASSUME NEW i \in 1 .. Len(s) + 1, Append(s, v)[i].phase # "Absent"
        PROVE  Append(s, v)[i].ports = p
    <3>1. CASE i = Len(s) + 1
      BY <1>1, <2>1, <2>3, <3>1
    <3>2. CASE i \in 1 .. Len(s)
      BY <1>1, <1>5, <2>3, <3>2 DEF HasPorts
    <3> QED BY <1>1, <3>1, <3>2
  <2> QED BY <1>1, <2>2, <2>3 DEF HasPorts
<1>6. OnePod(s) => OnePod(Append(s, v))
  <2> SUFFICES ASSUME OnePod(s), NEW i \in 1 .. Len(s) + 1,
                      Append(s, v)[i].phase # "Absent"
               PROVE  HasPorts(Append(s, v), Append(s, v)[i].ports)
    BY <1>1 DEF OnePod
  <2>1. CASE i = Len(s) + 1
    <3>1. HasPorts(s, s[Len(s)].ports) /\ Append(s, v)[i].ports = s[Len(s)].ports
      BY <1>1, <2>1 DEF OnePod, SamePod
    <3> QED BY <1>5, <3>1
  <2>2. CASE i \in 1 .. Len(s)
    <3>1. HasPorts(s, s[i].ports) /\ Append(s, v)[i].ports = s[i].ports
      BY <1>1, <2>2 DEF OnePod
    <3> QED BY <1>5, <3>1
  <2> QED BY <1>1, <2>1, <2>2
<1>7. Unborn(s) => Unborn(Append(s, v)) /\ Unborn(<<v>>)
  <2> SUFFICES ASSUME Unborn(s) PROVE Unborn(Append(s, v)) /\ Unborn(<<v>>)
    OBVIOUS
  <2>1. v.phase = "Absent"
    BY <1>1 DEF Unborn, SamePod
  <2>2. \A i \in 1 .. Len(s) + 1 : i \in 1 .. Len(s) \/ i = Len(s) + 1
    BY <1>1
  <2> QED BY <1>1, <1>2, <2>1, <2>2 DEF Unborn
<1> QED BY <1>3, <1>4, <1>5, <1>6, <1>7

\* A watch event keeps what is true of a history.
LEMMA HistoryTail ==
  ASSUME NEW s \in Views, Len(s) > 1, NEW ports
  PROVE  /\ OneLife(s) => OneLife(Tail(s))
         /\ HasPorts(s, ports) => HasPorts(Tail(s), ports)
         /\ OnePod(s) => OnePod(Tail(s))
         /\ Unborn(s) => Unborn(Tail(s))
<1>1. /\ Len(s) \in Nat /\ Len(Tail(s)) = Len(s) - 1
      /\ LatestOf(Tail(s)) = LatestOf(s)
      /\ \A i \in 1 .. Len(s) - 1 : Tail(s)[i] = s[i + 1]
  BY ViewFacts, TailFacts
<1>2. \A i \in 1 .. Len(s) - 1 : i + 1 \in 1 .. Len(s)
  BY <1>1
<1>3. OneLife(s) => OneLife(Tail(s))
  BY <1>1, <1>2 DEF OneLife
<1>4. \A p : HasPorts(s, p) => HasPorts(Tail(s), p)
  BY <1>1, <1>2 DEF HasPorts
<1>5. OnePod(s) => OnePod(Tail(s))
  BY <1>1, <1>2, <1>4 DEF OnePod
<1>6. Unborn(s) => Unborn(Tail(s))
  BY <1>1, <1>2 DEF Unborn
<1> QED BY <1>3, <1>4, <1>5, <1>6

\* The birth of a pod whose history shows none before it.
LEMMA BirthAppend ==
  ASSUME NEW s \in Views, NEW v \in Version, Unborn(s), v.phase # "Absent"
  PROVE  /\ OneLife(Append(s, v)) /\ OneLife(<<v>>)
         /\ OnePod(Append(s, v)) /\ OnePod(<<v>>)
         /\ HasPorts(Append(s, v), v.ports) /\ HasPorts(<<v>>, v.ports)
<1>1. /\ Len(s) \in Nat \ {0} /\ Len(Append(s, v)) = Len(s) + 1
      /\ LatestOf(Append(s, v)) = v
      /\ \A i \in 1 .. Len(s) : Append(s, v)[i] = s[i]
      /\ Append(s, v)[Len(s) + 1] = v
  BY ViewFacts, AppendFacts
<1>2. Len(<<v>>) = 1 /\ LatestOf(<<v>>) = v /\ <<v>>[1] = v
  BY SingletonFacts
<1>3. OneLife(<<v>>) /\ OnePod(<<v>>) /\ HasPorts(<<v>>, v.ports)
  BY <1>2 DEF OneLife, OnePod, HasPorts
<1>4. \A i \in 1 .. Len(s) + 1 :
        Append(s, v)[i].phase # "Absent" => i = Len(s) + 1
  BY <1>1 DEF Unborn
<1>5. HasPorts(Append(s, v), v.ports)
  BY <1>1, <1>4 DEF HasPorts
<1>6. OnePod(Append(s, v))
  BY <1>1, <1>4, <1>5 DEF OnePod
<1>7. OneLife(Append(s, v))
  BY <1>1, <1>4 DEF OneLife
<1> QED BY <1>3, <1>5, <1>6, <1>7

\* What a step that makes no pod named g keeps of its history.
KeepsHistory(g) ==
  /\ OneLife(view[g]) => OneLife(view'[g])
  /\ OnePod(view[g]) => OnePod(view'[g])
  /\ Unborn(view[g]) => Unborn(view'[g])
  /\ AbsentFinal(view[g]) => AbsentFinal(view'[g])
  /\ \A p : HasPorts(view[g], p) => HasPorts(view'[g], p)
  /\ Live(g)'.uid = Live(g).uid
  /\ PodExists(g)' => PodExists(g) /\ Live(g)'.ports = Live(g).ports
  /\ \/ PodExists(g)' \/ Live(g)'.ports = {}
     \/ ~PodExists(g) /\ Live(g)' = Live(g)

\* The cluster steps that make no pod keep what is true of histories.
LEMMA QuietHistory ==
  ASSUME ClusterTypeOK, NEW h \in Handles, Quiet(h), NEW g \in Handles
  PROVE  KeepsHistory(g)
<1> USE DEF KeepsHistory
<1>0. AbsentFinal(view[g]) => AbsentFinal(view'[g])
  BY QuietSteps
<1>1. /\ view \in [Handles -> Views] /\ Live(h) \in Version
      /\ view[h] \in Views /\ Live(h) = LatestOf(view[h])
  BY ClusterType DEF ClusterTypeOK, Views, Live
<1>2. CASE view' = view
  BY <1>0, <1>2 DEF PodExists, Live
<1>3. ASSUME NEW v \in Version, Publish(h, v), SamePod(view[h], v),
             v.uid = Live(h).uid
      PROVE  KeepsHistory(g)
  <2>1. CASE g # h
    <3>1. view'[g] = view[g]
      BY <1>3, <2>1, PublishFacts
    <3> QED BY <1>0, <3>1 DEF PodExists, Live
  <2>2. CASE g = h
    <3>1. /\ Live(g)' = v
          /\ view'[g] = Append(view[g], v) \/ view'[g] = <<v>>
      BY <1>3, <2>2, PublishFacts
    <3>2. /\ OneLife(view[g]) => OneLife(view'[g])
          /\ OnePod(view[g]) => OnePod(view'[g])
          /\ Unborn(view[g]) => Unborn(view'[g])
          /\ \A p : HasPorts(view[g], p) => HasPorts(view'[g], p)
      BY <1>1, <1>3, <2>2, <3>1, SamePodAppend
    <3> QED BY <1>0, <1>1, <1>3, <2>2, <3>1, <3>2 DEF PodExists, SamePod
  <2> QED BY <2>1, <2>2
<1>4. CASE ApiForceDelete(h) \/ RemovePod(h)
  <2>1. /\ Gone(Live(h).uid) \in Version /\ SamePod(view[h], Gone(Live(h).uid))
        /\ Gone(Live(h).uid).uid = Live(h).uid
    BY <1>1 DEF Gone, Version, Phases, SamePod
  <2> QED BY <1>2, <1>3, <1>4, <2>1 DEF ApiForceDelete, RemovePod
<1>5. ASSUME NEW l \in {"Running", "Failed"}, PodExists(h),
             Publish(h, [Live(h) EXCEPT !.phase = l])
      PROVE  KeepsHistory(g)
  <2>1. /\ [Live(h) EXCEPT !.phase = l] \in Version
        /\ [Live(h) EXCEPT !.phase = l].uid = Live(h).uid
        /\ [Live(h) EXCEPT !.phase = l].ports = Live(h).ports
        /\ [Live(h) EXCEPT !.phase = l].phase = l
    BY <1>1, <1>5 DEF Version, Phases
  <2>2. SamePod(view[h], [Live(h) EXCEPT !.phase = l])
    BY <1>1, <1>5, <2>1 DEF SamePod, PodExists
  <2> QED BY <1>3, <1>5, <2>1, <2>2
<1>6. CASE StartPod(h) \/ FailPod(h)
  BY <1>5, <1>6 DEF StartPod, FailPod, PodExists
<1>7. CASE WatchEvent(h)
  <2>1. Len(view[h]) > 1 /\ view' = [view EXCEPT ![h] = Tail(view[h])]
    BY <1>7 DEF WatchEvent
  <2>2. CASE g = h
    <3>1. view'[g] = Tail(view[g]) /\ Live(g)' = Live(g)
      BY <1>1, <2>1, <2>2, TailFacts DEF Live
    <3>2. /\ OneLife(view[g]) => OneLife(view'[g])
          /\ OnePod(view[g]) => OnePod(view'[g])
          /\ Unborn(view[g]) => Unborn(view'[g])
          /\ \A p : HasPorts(view[g], p) => HasPorts(view'[g], p)
      BY <1>1, <2>1, <2>2, <3>1, HistoryTail
    <3> QED BY <1>0, <3>1, <3>2 DEF PodExists
  <2>3. CASE g # h
    <3>1. view'[g] = view[g]
      BY <1>1, <2>1, <2>3
    <3> QED BY <1>0, <3>1 DEF PodExists, Live
  <2> QED BY <2>2, <2>3
<1> QED BY <1>2, <1>4, <1>6, <1>7 DEF Quiet, ApiDelete

\* What such a step keeps of the deletion of g and of the order of its UIDs.
KeepsLife(g) ==
  /\ PodExists(g)' /\ g \in terminating => g \in terminating'
  /\ Ends(g) => Ends(g)'
  /\ Ordered(view[g]) => Ordered(view'[g])

\* A version with the UID of the pod it follows, or of the pod after it.
LEMMA OrderedAppend ==
  ASSUME NEW s \in Views, NEW v \in Version, Ordered(s),
         \/ /\ v.uid = LatestOf(s).uid
            /\ v.phase = "Absent" \/ LatestOf(s).phase # "Absent"
         \/ v.uid = LatestOf(s).uid + 1
  PROVE  Ordered(Append(s, v)) /\ Ordered(<<v>>)
<1>1. /\ Len(s) \in Nat \ {0} /\ Len(Append(s, v)) = Len(s) + 1
      /\ LatestOf(Append(s, v)) = v
      /\ \A i \in 1 .. Len(s) : Append(s, v)[i] = s[i]
      /\ Append(s, v)[Len(s) + 1] = v
      /\ LatestOf(s) \in Version /\ \A i \in 1 .. Len(s) : s[i] \in Version
  BY ViewFacts, AppendFacts DEF Views, LatestOf
<1>2. Len(<<v>>) = 1 /\ LatestOf(<<v>>) = v /\ <<v>>[1] = v
  BY SingletonFacts
<1>3. v.uid \in Nat /\ LatestOf(s).uid \in Nat
      /\ \A i \in 1 .. Len(s) : s[i].uid \in Nat
  BY <1>1 DEF Version
<1>4. v.phase # "Absent" => v.uid > 0
  BY <1>3 DEF Ordered
<1>5. ASSUME NEW i \in 1 .. Len(s)
      PROVE  /\ s[i].uid <= v.uid
             /\ s[i].phase = "Absent" /\ v.phase # "Absent" => s[i].uid < v.uid
  <2>1. /\ s[i].uid <= LatestOf(s).uid
        /\ s[i].phase = "Absent" /\ LatestOf(s).phase # "Absent" =>
             s[i].uid < LatestOf(s).uid
    BY DEF Ordered
  <2> QED BY <1>3, <2>1
<1>6. \A i \in 1 .. Len(s) + 1 : i \in 1 .. Len(s) \/ i = Len(s) + 1
  BY <1>1
<1>7. Ordered(Append(s, v))
  BY <1>1, <1>3, <1>4, <1>5, <1>6 DEF Ordered
<1>8. Ordered(<<v>>)
  BY <1>2, <1>3, <1>4 DEF Ordered
<1> QED BY <1>7, <1>8

\* A watch event keeps the order.
LEMMA OrderedTail ==
  ASSUME NEW s \in Views, Len(s) > 1, Ordered(s)
  PROVE  Ordered(Tail(s))
<1>1. /\ Len(s) \in Nat /\ Len(Tail(s)) = Len(s) - 1
      /\ LatestOf(Tail(s)) = LatestOf(s)
      /\ \A i \in 1 .. Len(s) - 1 : Tail(s)[i] = s[i + 1]
  BY ViewFacts, TailFacts
<1>2. \A i \in 1 .. Len(s) - 1 : i + 1 \in 1 .. Len(s)
  BY <1>1
<1> QED BY <1>1, <1>2 DEF Ordered

\* The cluster steps that make no pod end no deletion before its pod is gone.
LEMMA QuietLife ==
  ASSUME ClusterTypeOK, NEW h \in Handles, Quiet(h), NEW g \in Handles
  PROVE  KeepsLife(g)
<1>1. /\ view \in [Handles -> Views] /\ Live(h) \in Version
      /\ view[h] \in Views /\ Live(h) = LatestOf(view[h])
  BY ClusterType DEF ClusterTypeOK, Views, Live
<1>2. ASSUME NEW v \in Version, Publish(h, v), v.uid = Live(h).uid,
             v.phase = "Absent" \/ PodExists(h),
             \/ terminating' = terminating \ {h} /\ v.phase = "Absent"
             \/ terminating' = terminating /\ v.phase # "Absent"
      PROVE  KeepsLife(g)
  <2>1. CASE g # h
    <3>1. view'[g] = view[g]
      BY <1>2, <2>1, PublishFacts
    <3> QED BY <1>2, <2>1, <3>1 DEF KeepsLife, Ends, PodExists, Live
  <2>2. CASE g = h
    <3>1. /\ Live(g)' = v
          /\ view'[g] = Append(view[g], v) \/ view'[g] = <<v>>
      BY <1>2, <2>2, PublishFacts
    <3>2. Ordered(view[g]) => Ordered(view'[g])
      BY <1>1, <1>2, <2>2, <3>1, OrderedAppend DEF PodExists
    <3> QED BY <1>2, <2>2, <3>1, <3>2 DEF KeepsLife, Ends, PodExists
  <2> QED BY <2>1, <2>2
<1>3. CASE view' = view /\ (ApiDelete(h) \/ terminating' = terminating)
  BY <1>3 DEF KeepsLife, Ends, PodExists, Live, ApiDelete
<1>4. CASE ApiForceDelete(h) /\ ~PodExists(h)
  BY <1>4 DEF ApiForceDelete, KeepsLife, Ends, PodExists, Live
<1>5. CASE RemovePod(h) \/ (ApiForceDelete(h) /\ PodExists(h))
  <2>1. /\ Gone(Live(h).uid) \in Version
        /\ Gone(Live(h).uid).uid = Live(h).uid
        /\ Gone(Live(h).uid).phase = "Absent"
    BY <1>1 DEF Gone, Version, Phases
  <2> QED BY <1>2, <1>5, <2>1 DEF ApiForceDelete, RemovePod
<1>6. CASE StartPod(h) \/ FailPod(h)
  <2>1. PICK l \in {"Running", "Failed"} :
          /\ PodExists(h) /\ terminating' = terminating
          /\ Publish(h, [Live(h) EXCEPT !.phase = l])
    BY <1>6 DEF StartPod, FailPod, PodExists
  <2>2. /\ [Live(h) EXCEPT !.phase = l] \in Version
        /\ [Live(h) EXCEPT !.phase = l].uid = Live(h).uid
        /\ [Live(h) EXCEPT !.phase = l].phase # "Absent"
    BY <1>1 DEF Version, Phases
  <2> QED BY <1>2, <2>1, <2>2
<1>7. CASE WatchEvent(h)
  <2>1. /\ Len(view[h]) > 1 /\ view' = [view EXCEPT ![h] = Tail(view[h])]
        /\ terminating' = terminating
    BY <1>7 DEF WatchEvent
  <2>2. CASE g = h
    <3>1. view'[g] = Tail(view[g]) /\ Live(g)' = Live(g)
      BY <1>1, <2>1, <2>2, TailFacts DEF Live
    <3> QED BY <1>1, <2>1, <2>2, <3>1, OrderedTail DEF KeepsLife, Ends, PodExists
  <2>3. CASE g # h
    <3>1. view'[g] = view[g]
      BY <1>1, <2>1, <2>3
    <3> QED BY <2>1, <3>1 DEF KeepsLife, Ends, PodExists, Live
  <2> QED BY <2>2, <2>3
<1> QED BY <1>3, <1>4, <1>5, <1>6, <1>7 DEF Quiet, ApiDelete

\* A write to the table: what it does to the container of h.
TableWrite(h) ==
  \/ containers'[h] = containers[h]
  \/ Halt
  \/ Restore
  \/ \E w \in Workers :
       /\ hdl[w] = h
       /\ \/ AddContainer(w)
          \/ RemoveContainer(w)
          \/ LoadTasks(w)
          \/ ReadPod(h) /\ pc[w] = "wait" /\ UNCHANGED view

\* The table changes in no other way.
LEMMA TableWrites ==
  ASSUME TypeOK, [Next]_vars, NEW h \in Handles
  PROVE  TableWrite(h)
<1> USE DEF clusterVars, clientVars, memoryVars, workerVars
<1>t. containers \in [Handles -> Container]
  BY ClientTypes
<1>0. CASE UNCHANGED containers
  BY <1>0 DEF TableWrite
<1>1. CASE ProcessStep
  BY <1>0, <1>1 DEF ProcessStep, Boot, Serve, CleanupFails, Crash,
                    ReceiveResult, TableWrite
<1>2. ASSUME NEW w \in Workers, WorkerStep(w)
      PROVE  TableWrite(h)
  <2>1. CASE hdl[w] = h
    <3>1. CASE AddContainer(w) \/ RemoveContainer(w) \/ LoadTasks(w)
      BY <2>1, <3>1 DEF TableWrite
    <3>2. CASE PollPod(w) \/ PodRunning(w)
      BY <2>1, <3>2 DEF TableWrite, PollPod, PodRunning, Step
    <3> QED BY <1>0, <1>2, <3>1, <3>2
            DEF WorkerStep, CreateStep, DestroyStep, AllocatePort,
                AllocateFails, PortsReady, ImageReady, ImageFails,
                SetProperties, AddFails, AddRefused, CreatePod, CreatePodFails,
                CreatePodLost, CreateTimeout, WaitFails, LoadTasksFails,
                SetState, DeleteAccepted, DeleteNotFound, DeleteFails,
                DestroyFails, PodGone, DeleteTimeout, ReleasePort,
                DestroyKeySpace
  <2>2. CASE hdl[w] # h
    <3>1. containers'[h] = containers[h]
      BY <1>t, <1>0, <1>2, <2>2
      DEF WorkerStep, CreateStep, DestroyStep, AllocatePort,
          AllocateFails, PortsReady, ImageReady, ImageFails,
          SetProperties, AddContainer, Add, AddFails, AddRefused, CreatePod,
          CreatePodFails, CreatePodLost, PollPod, PodRunning, ReadPod,
          CreateTimeout, WaitFails, LoadTasks, LoadTasksFails,
          SetState, DeleteAccepted, DeleteNotFound, DeleteFails,
          DestroyFails, PodGone, DeleteTimeout, ReleasePort, RemoveContainer,
          Remove, DestroyKeySpace
    <3> QED BY <3>1 DEF TableWrite
  <2> QED BY <2>1, <2>2
<1>3. ASSUME NEW w \in Workers, CallStep(w), ~WorkerStep(w)
      PROVE  UNCHANGED containers
  BY <1>3 DEF CallStep, SendResult, DestroyReturns, DestroyStray, StartCreate,
              StartDestroy, BeginCreate, BeginDestroy
<1> QED BY <1>0, <1>1, <1>2, <1>3
        DEF Next, vars, NodeStep, Evict, UseProperties, SetProperty,
            RemoveProperty

\* A step of the calls: what it does to a worker.
Move(w) ==
  \/ pc'[w] = pc[w] /\ hdl'[w] = hdl[w] /\ held'[w] = held[w]
  \/ pc'[w] = "idle" /\ held'[w] = {}
  \/ CreateStep(w) /\ pc'[w] # "idle" /\ hdl' = hdl
  \/ DestroyStep(w) /\ hdl' = hdl
  \/ \E h \in Handles : /\ BeginCreate(w, h) \/ BeginDestroy(w, h)
                        /\ pc'[w] \in {"netin", "delete"} /\ hdl'[w] = h

\* Every step moves a worker in one of these ways.
LEMMA Moves ==
  ASSUME TypeOK, [Next]_vars, NEW w \in Workers
  PROVE  Move(w)
<1> USE DEF clusterVars, clientVars, memoryVars, workerVars, Goto
<1>t. /\ pc \in [Workers -> LabelSet]
      /\ hdl \in [Workers -> Handles \cup {NoHandle}]
      /\ held \in [Workers -> SUBSET Nat]
  BY ClientTypes
<1>0. CASE UNCHANGED <<pc, hdl, held>>
  BY <1>0 DEF Move
<1>h. CASE Halt
  BY <1>h DEF Halt, Move
<1>1. CASE ProcessStep
  BY <1>0, <1>h, <1>1 DEF ProcessStep, Boot, Serve, CleanupFails, Crash,
                          ReceiveResult, Restore
<1>2. ASSUME NEW v \in Workers, CallStep(v)
      PROVE  Move(w)
  <2>1. CASE Leave(v)
    BY <1>t, <2>1 DEF Leave, Move
  <2>2. CASE CreateStep(v)
    <3>1. CASE AllocatePort(v)
      BY <1>t, <2>2, <3>1 DEF AllocatePort, Move, LabelSet
    <3>2. CASE PortsReady(v) \/ ImageReady(v) \/ SetProperties(v)
      BY <1>t, <2>2, <3>2 DEF PortsReady, ImageReady, SetProperties, Step, Move
    <3>3. CASE CreatePod(v) \/ PodRunning(v) \/ LoadTasks(v)
      BY <1>t, <2>2, <3>3 DEF CreatePod, PodRunning, LoadTasks, Step, Move
    <3>4. CASE AddContainer(v)
      BY <1>t, <2>2, <3>4 DEF AddContainer, Step, Move
    <3> QED BY <1>0, <2>1, <2>2, <3>1, <3>2, <3>3, <3>4
            DEF CreateStep, AllocateFails, ImageFails, AddFails, PollPod,
                CreatePodFails, CreatePodLost, CreateTimeout, WaitFails,
                LoadTasksFails, SetState
  <2>3. CASE DestroyStep(v)
    <3>1. \A u \in Workers \ {v} : pc'[u] = pc[u] /\ held'[u] = held[u]
      BY <1>t, <2>3
      DEF DestroyStep, DeleteAccepted, DeleteNotFound,
          DeleteFails, DestroyFails, PodGone, DeleteTimeout, ReleasePort,
          RemoveContainer, DestroyKeySpace, Step
    <3>2. hdl' = hdl
      BY <2>3, DestroyMoves
    <3> QED BY <2>3, <3>1, <3>2 DEF Move
  <2>4. ASSUME NEW h \in Handles, BeginCreate(v, h) \/ BeginDestroy(v, h)
        PROVE  Move(w)
    <3>1. CASE v = w
      <4>1. pc'[w] \in {"netin", "delete"} /\ hdl'[w] = h
        BY <1>t, <2>4, <3>1 DEF BeginCreate, BeginDestroy
      <4> QED BY <2>4, <3>1, <4>1 DEF Move
    <3>2. CASE v # w
      BY <1>t, <2>4, <3>2 DEF BeginCreate, BeginDestroy, Move
    <3> QED BY <3>1, <3>2
  <2> QED BY <1>2, <2>1, <2>2, <2>3, <2>4
          DEF CallStep, WorkerStep, SendResult, DestroyReturns, DestroyStray,
              StartCreate, StartDestroy
<1> QED BY <1>0, <1>1, <1>2
        DEF Next, vars, NodeStep, Evict, UseProperties, SetProperty,
            RemoveProperty

\* How a worker comes to the places of its call that matter for pods.
LEMMA Arrivals ==
  ASSUME TypeOK, [Next]_vars, NEW w \in Workers
  PROVE  /\ pc'[w] # "idle" =>
              hdl'[w] = hdl[w] \/ \E h \in Handles : /\ hdl'[w] = h
                                                     /\ \/ BeginCreate(w, h)
                                                        \/ BeginDestroy(w, h)
         /\ pc'[w] \in Before =>
              \/ pc[w] \in Before /\ hdl'[w] = hdl[w]
              \/ \E h \in Handles : BeginCreate(w, h) /\ hdl'[w] = h
         /\ pc'[w] = "create" =>
              \/ pc[w] = "create" /\ hdl'[w] = hdl[w]
              \/ AddContainer(w)
         /\ pc'[w] = "wait" =>
              \/ pc[w] = "wait" /\ hdl'[w] = hdl[w]
              \/ CreatePod(w)
         /\ pc'[w] \in {"release", "keyspace"} =>
              \/ pc[w] \in {"release", "keyspace"} /\ hdl'[w] = hdl[w]
              \/ DeleteNotFound(w) \/ PodGone(w)
         /\ pc'[w] = "gone" =>
              \/ pc[w] = "gone" /\ hdl'[w] = hdl[w]
              \/ DeleteAccepted(w)
<1> USE DEF Goto, Before
<1>t. pc \in [Workers -> LabelSet]
  BY ClientTypes
<1>1. CASE CreateStep(w) /\ pc'[w] # "idle" /\ hdl' = hdl
  BY <1>t, <1>1
  DEF CreateStep, AllocatePort, AllocateFails, PortsReady, ImageReady,
      ImageFails, SetProperties, AddContainer, AddFails, CreatePod,
      CreatePodFails, CreatePodLost, PollPod, PodRunning, CreateTimeout,
      WaitFails, LoadTasks, LoadTasksFails, SetState, Step, Leave, workerVars
<1>2. CASE DestroyStep(w) /\ hdl' = hdl
  BY <1>t, <1>2
  DEF DestroyStep, DeleteAccepted, DeleteNotFound, DeleteFails, DestroyFails,
      PodGone, DeleteTimeout, ReleasePort, RemoveContainer, DestroyKeySpace,
      Step
<1>3. ASSUME NEW h \in Handles, BeginCreate(w, h) \/ BeginDestroy(w, h)
      PROVE  \/ pc'[w] = "netin" /\ BeginCreate(w, h)
             \/ pc'[w] = "delete"
  BY <1>t, <1>3 DEF BeginCreate, BeginDestroy
<1>4. CASE pc'[w] = pc[w] /\ hdl'[w] = hdl[w]
  BY <1>4
<1> QED BY <1>1, <1>2, <1>3, <1>4, Moves DEF Move

\* The API server makes a pod for the Create of worker w.
Birth(w) ==
  /\ pc[w] = "create" /\ pc'[w] \in {"wait", "idle"} /\ hdl[w] \in Handles
  /\ ApiCreate(hdl[w], containers[hdl[w]].ports)
  /\ UNCHANGED <<containers, allocated, rep, terminating>>
  /\ \A v \in Workers \ {w} : pc'[v] = pc[v] /\ hdl'[v] = hdl[v]

\* A step keeps what is known of histories, or makes one pod.
LEMMA ViewSteps ==
  ASSUME TypeOK, [Next]_vars
  PROVE  \/ \A g \in Handles : KeepsHistory(g) /\ KeepsLife(g)
         \/ \E w \in Workers : Birth(w)
<1> USE DEF clusterVars, clientVars
<1>t. /\ ClusterTypeOK /\ view \in [Handles -> Views]
      /\ pc \in [Workers -> LabelSet]
      /\ hdl \in [Workers -> Handles \cup {NoHandle}]
      /\ \A v \in Workers : (hdl[v] \in Handles) <=> (pc[v] # "idle")
  BY ClientTypes DEF TypeOK, ClusterTypeOK, Views
<1>0. CASE UNCHANGED <<view, terminating>>
  <2>1. \A g \in Handles : KeepsHistory(g)
    BY <1>0 DEF KeepsHistory, PodExists, Live
  <2>2. \A g \in Handles : KeepsLife(g)
    BY <1>0 DEF KeepsLife, Ends, PodExists, Live
  <2> QED BY <2>1, <2>2
<1>q. ASSUME NEW h \in Handles, Quiet(h)
      PROVE  \A g \in Handles : KeepsHistory(g) /\ KeepsLife(g)
  BY <1>t, <1>q, QuietHistory, QuietLife
<1>1. CASE Boot
  <2> SUFFICES ASSUME NEW g \in Handles
               PROVE  KeepsHistory(g) /\ KeepsLife(g)
    OBVIOUS
  <2>1. view[g] \in Views /\ Live(g) \in Version /\ view'[g] = <<Live(g)>>
    BY <1>t, <1>1, ClusterType DEF Boot, CacheSync
  <2>2. Live(g) = view[g][Len(view[g])] /\ Len(view[g]) \in 1 .. Len(view[g])
    BY <2>1, ViewFacts DEF Live, LatestOf
  <2>3. /\ Len(<<Live(g)>>) = 1 /\ <<Live(g)>>[1] = Live(g)
        /\ LatestOf(<<Live(g)>>) = Live(g)
    BY <2>1, SingletonFacts
  <2>4. Live(g)' = Live(g)
    BY <2>1, <2>3 DEF Live
  <2>5. OneLife(view'[g]) /\ OnePod(view'[g]) /\ AbsentFinal(view'[g])
    BY <2>1, <2>3 DEF OneLife, OnePod, HasPorts, AbsentFinal
  <2>6. Unborn(view[g]) => Unborn(view'[g])
    BY <2>1, <2>2, <2>3 DEF Unborn
  <2>7. \A p : HasPorts(view[g], p) => HasPorts(view'[g], p)
    BY <2>1, <2>2, <2>3 DEF HasPorts
  <2>8. KeepsHistory(g)
    BY <2>4, <2>5, <2>6, <2>7 DEF KeepsHistory, PodExists
  <2>9. Ordered(view[g]) => Ordered(view'[g])
    <3>1. LatestOf(view[g]) = Live(g) /\ Live(g).uid \in Nat
      BY <2>1 DEF Live, Version
    <3>2. \A i \in 1 .. Len(view'[g]) : view'[g][i] = Live(g)
      BY <2>1, <2>3
    <3>3. LatestOf(view'[g]) = Live(g)
      BY <2>1, <2>3
    <3> QED BY <3>1, <3>2, <3>3 DEF Ordered
  <2>10. terminating' = terminating
    BY <1>1 DEF Boot, CacheSync
  <2> QED BY <2>4, <2>8, <2>9, <2>10 DEF KeepsLife, Ends, PodExists
<1>2. CASE ProcessStep
  BY <1>0, <1>1, <1>2 DEF ProcessStep, Restore, Serve, CleanupFails, Crash,
                          Halt, ReceiveResult
<1>3. ASSUME NEW h \in Handles, NodeStep(h) \/ Evict(h)
      PROVE  Quiet(h)
  BY <1>3 DEF NodeStep, Evict, Quiet
<1>4. ASSUME NEW w \in Workers, WorkerStep(w)
      PROVE  \/ UNCHANGED <<view, terminating>>
             \/ hdl[w] \in Handles /\ Quiet(hdl[w])
             \/ Birth(w)
  <2>1. CASE DestroyStep(w)
    BY <2>1, DestroyWrites
  <2>2. CASE CreatePod(w)
    BY <1>t, <1>4, <2>2 DEF CreatePod, Step, Goto, Birth, ApiCreate, WorkerStep
  <2>3. CASE CreatePodLost(w)
    BY <1>t, <1>4, <2>3 DEF CreatePodLost, Leave, Goto, Birth, ApiCreate,
                            WorkerStep
  <2>4. CASE CreateTimeout(w)
    BY <1>t, <2>4 DEF CreateTimeout, Quiet
  <2> QED BY <1>4, <2>1, <2>2, <2>3, <2>4
          DEF WorkerStep, CreateStep, AllocatePort, AllocateFails, PortsReady,
              ImageReady, ImageFails, SetProperties, AddContainer, AddFails,
              CreatePodFails, PollPod, PodRunning, WaitFails, LoadTasks,
              LoadTasksFails, SetState
<1>5. ASSUME NEW w \in Workers, CallStep(w), ~WorkerStep(w)
      PROVE  UNCHANGED <<view, terminating>>
  BY <1>5 DEF CallStep, SendResult, DestroyReturns, DestroyStray, StartCreate,
              StartDestroy, BeginCreate, BeginDestroy
<1> QED BY <1>0, <1>q, <1>2, <1>3, <1>4, <1>5
        DEF Next, vars, UseProperties, SetProperty, RemoveProperty

\* What the birth of a pod does to the cluster.
LEMMA BirthFacts ==
  ASSUME TypeOK, NEW w \in Workers, Birth(w), NEW h, h = hdl[w]
  PROVE  /\ h \in Handles
         /\ PodExists(h)' /\ ~PodExists(h)
         /\ \A g \in Handles \ {h} : view'[g] = view[g]
         /\ Ordered(view[h]) => Ordered(view'[h])
         /\ terminating' = terminating
<1> DEFINE v == [uid |-> Live(h).uid + 1, phase |-> "Pending",
                 ports |-> containers[h].ports]
<1>1. /\ h \in Handles /\ Live(h) \in Version /\ view[h] \in Views
      /\ ClusterTypeOK /\ containers[h].ports \in SUBSET Nat
      /\ Live(h) = LatestOf(view[h])
  BY ClientTypes, ClusterType
  DEF Birth, TypeOK, ClusterTypeOK, Views, Container, Live
<1>2. v \in Version /\ v.phase = "Pending" /\ v.uid = Live(h).uid + 1
  BY <1>1 DEF Version, Phases
<1>3. Publish(h, v) /\ ~PodExists(h) /\ terminating' = terminating
  BY DEF Birth, ApiCreate
<1>4. PICK u : u = v
  OBVIOUS
<1> HIDE DEF v
<1>5. /\ Live(h)' = u
      /\ \A g \in Handles \ {h} : view'[g] = view[g]
      /\ view'[h] = Append(view[h], u) \/ view'[h] = <<u>>
  BY <1>1, <1>2, <1>3, <1>4, PublishFacts
<1>6. Ordered(view[h]) => Ordered(view'[h])
  BY <1>1, <1>2, <1>4, <1>5, OrderedAppend
<1>7. PodExists(h)'
  BY <1>2, <1>4, <1>5 DEF PodExists
<1> QED BY <1>1, <1>3, <1>5, <1>6, <1>7

\* What the birth of a pod does to its history.
LEMMA BirthHistory ==
  ASSUME TypeOK, HistoryInv, NEW w \in Workers, Birth(w), NEW h, h = hdl[w]
  PROVE  /\ h \in Handles
         /\ HistoryOK(h)'
         /\ HasPorts(view'[h], containers[h].ports)
         /\ PodExists(h)' /\ ~PodExists(h)
         /\ Live(h)'.ports = containers[h].ports
         /\ \A g \in Handles \ {h} : view'[g] = view[g]
<1> DEFINE v == [uid |-> Live(h).uid + 1, phase |-> "Pending",
                 ports |-> containers[h].ports]
<1>1. /\ h \in Handles /\ Live(h) \in Version /\ view[h] \in Views
      /\ ClusterTypeOK /\ containers[h].ports \in SUBSET Nat
  BY ClientTypes, ClusterType
  DEF Birth, TypeOK, ClusterTypeOK, Views, Container
<1>2. /\ v \in Version /\ v.phase = "Pending" /\ v.uid # 0
      /\ v.ports = containers[h].ports
  BY <1>1 DEF Version, Phases
<1>3. Publish(h, v) /\ ~PodExists(h)
  BY DEF Birth, ApiCreate
<1>5. Unborn(view[h])
  BY <1>1 DEF Birth, HistoryInv, HistoryOK
<1>9. PICK u : u = v
  OBVIOUS
<1> HIDE DEF v
<1>4. /\ Live(h)' = u
      /\ \A g \in Handles \ {h} : view'[g] = view[g]
      /\ view'[h] = Append(view[h], u) \/ view'[h] = <<u>>
  BY <1>1, <1>2, <1>3, <1>9, PublishFacts
<1>6. OneLife(view'[h]) /\ OnePod(view'[h]) /\ HasPorts(view'[h], u.ports)
  BY <1>1, <1>2, <1>4, <1>5, <1>9, BirthAppend
<1>7. PodExists(h)'
  BY <1>2, <1>4, <1>9 DEF PodExists
<1>8. HistoryOK(h)'
  <2>1. Live(h)'.uid # 0
    BY <1>2, <1>4, <1>9
  <2> QED BY <1>6, <1>7, <2>1 DEF HistoryOK
<1> QED BY <1>1, <1>2, <1>3, <1>4, <1>6, <1>7, <1>8, <1>9

\* What the cache holds of a pod agrees with its whole history.
LEMMA CachedPorts ==
  ASSUME TypeOK, HistoryInv, NEW h \in Handles, InCache(h)
  PROVE  HasPorts(view[h], Cached(h).ports)
<1>1. view[h] \in Views /\ Cached(h) = Head(view[h])
  BY DEF TypeOK, ClusterTypeOK, Views, InCache, Cached, Gone
<1>2. Head(view[h]) = view[h][1] /\ 1 \in 1 .. Len(view[h])
  BY <1>1, ViewFacts
<1> QED BY <1>1, <1>2 DEF InCache, HistoryInv, HistoryOK, OnePod

\* Every step keeps what is known of each history.
LEMMA HistoryStep ==
  ASSUME TypeOK, HistoryInv, [Next]_vars
  PROVE  \A g \in Handles : HistoryOK(g)'
<1> SUFFICES ASSUME NEW g \in Handles
             PROVE  HistoryOK(g)'
  OBVIOUS
<1>1. CASE KeepsHistory(g)
  BY <1>1 DEF KeepsHistory, HistoryInv, HistoryOK
<1>2. ASSUME NEW w \in Workers, Birth(w)
      PROVE  HistoryOK(g)'
  <2>1. CASE g = hdl[w]
    BY <1>2, <2>1, BirthHistory
  <2>2. CASE g # hdl[w]
    <3>1. view'[g] = view[g]
      BY <1>2, <2>2, BirthHistory
    <3> QED BY <3>1 DEF HistoryInv, HistoryOK, Live, PodExists
  <2> QED BY <2>1, <2>2
<1> QED BY <1>1, <1>2, ViewSteps

\* When handles are fresh, every step keeps the invariant of histories.
LEMMA HistoryInvStep ==
  ASSUME HandlesAreFresh, TypeOK, CleanInv, TableInv, HistoryInv, [Next]_vars
  PROVE  HistoryInv'
<1>t. /\ containers \in [Handles -> Container]
      /\ held \in [Workers -> SUBSET Nat]
      /\ pc \in [Workers -> LabelSet]
      /\ hdl \in [Workers -> Handles \cup {NoHandle}]
      /\ \A w \in Workers : (hdl[w] \in Handles) <=> (pc[w] # "idle")
  BY ClientTypes
<1>i. /\ Discipline /\ AddedOnce
      /\ \A h \in Handles : Live(h).uid = 0 => Unborn(view[h])
      /\ \A h \in Handles : Exists(h) => HasPorts(view[h], containers[h].ports)
      /\ \A w \in Workers : pc[w] \in Before =>
           Live(hdl[w]).uid = 0 \/ Exists(hdl[w])
      /\ \A w \in Workers : pc[w] = "create" => Live(hdl[w]).uid = 0
  BY DEF TableInv, HistoryInv, HistoryOK
<1>1. ASSUME NEW h \in Handles, Exists(h)'
      PROVE  HasPorts(view'[h], containers'[h].ports)
  <2>1. CASE containers'[h].ports = containers[h].ports /\ Exists(h)
    <3>1. CASE KeepsHistory(h)
      BY <1>i, <2>1, <3>1 DEF KeepsHistory
    <3>2. ASSUME NEW w \in Workers, Birth(w)
          PROVE  HasPorts(view'[h], containers[h].ports)
      <4>1. CASE h = hdl[w]
        BY <3>2, <4>1, BirthHistory
      <4>2. CASE h # hdl[w]
        <5>1. view'[h] = view[h]
          BY <3>2, <4>2, BirthHistory
        <5> QED BY <1>i, <2>1, <5>1
      <4> QED BY <4>1, <4>2
    <3> QED BY <2>1, <3>1, <3>2, ViewSteps
  <2>2. CASE containers'[h] = containers[h]
    BY <1>1, <2>1, <2>2 DEF Exists
  <2>3. ~Halt
    BY <1>1 DEF Halt, Exists, NoContainer
  <2>4. CASE Restore
    <3>1. view' = view /\ InCache(h) /\ containers'[h].ports = Cached(h).ports
      BY <1>1, <2>4 DEF Restore, RestoredContainers, RestoredContainer, Exists,
                        NoContainer, clusterVars
    <3> QED BY <3>1, CachedPorts
  <2>5. ASSUME NEW w \in Workers, hdl[w] = h, AddContainer(w)
        PROVE  HasPorts(view'[h], containers'[h].ports)
    <3>1. pc[w] = "add" /\ ~Exists(h) /\ view' = view
      BY <2>5 DEF AddContainer, Step, Add, clusterVars
    <3>2. Unborn(view[h])
      BY <1>i, <2>5, <3>1 DEF Before
    <3> QED BY <3>1, <3>2 DEF Unborn, HasPorts
  <2>6. ASSUME NEW w \in Workers, hdl[w] = h, RemoveContainer(w)
        PROVE  FALSE
    BY <1>t, <1>1, <2>6 DEF RemoveContainer, Remove, NoContainer, Exists
  <2>7. ASSUME NEW w \in Workers, hdl[w] = h, LoadTasks(w)
        PROVE  containers'[h].ports = containers[h].ports /\ Exists(h)
    BY <1>1, <2>7, LoadTasksEffect DEF Exists
  <2>8. CASE ReadPod(h) /\ UNCHANGED view
    <3>1. InCache(h) /\ containers'[h].ports = Cached(h).ports
      BY <2>8, ReadPodEffect DEF ReadPod
    <3> QED BY <2>8, <3>1, CachedPorts
  <2> QED BY <2>1, <2>2, <2>3, <2>4, <2>5, <2>6, <2>7, <2>8, TableWrites
          DEF TableWrite
<1>2. ASSUME NEW w \in Workers, NEW h \in Handles, hdl[w] = h, Exists(h),
             pc[w] \in Before, pc'[w] # "idle"
      PROVE  Exists(h)'
  <2>1. ~Halt
    BY <1>2 DEF Halt
  <2>2. ~Restore
    BY <1>2 DEF Restore, CleanInv, Before
  <2>3. ASSUME NEW v \in Workers, hdl[v] = h, RemoveContainer(v)
        PROVE  FALSE
    BY <1>i, <1>2, <2>3 DEF Discipline, RemoveContainer, Step, DestroySteps,
                            CreateSteps, Before
  <2>4. ASSUME NEW v \in Workers, hdl[v] = h, AddContainer(v)
        PROVE  FALSE
    BY <1>2, <2>4 DEF AddContainer, Add
  <2>5. ASSUME NEW v \in Workers, hdl[v] = h, LoadTasks(v)
        PROVE  Exists(h)'
    BY <1>2, <2>5, LoadTasksEffect DEF Exists
  <2>6. CASE ReadPod(h)
    BY <1>2, <2>6, ReadPodEffect DEF Exists
  <2> QED BY <1>2, <2>1, <2>2, <2>3, <2>4, <2>5, <2>6, TableWrites
          DEF TableWrite, Exists
<1>3. ASSUME NEW w \in Workers, pc'[w] \in Before, NEW h, h = hdl'[w]
      PROVE  Live(h)'.uid = 0 \/ Exists(h)'
  <2>1. ASSUME h \in Handles, BeginCreate(w, h)
        PROVE  Live(h)'.uid = 0
    <3>1. Live(h).uid \in Nat /\ Live(h).uid < MaxIncarnations /\ view' = view
      BY <2>1, ClusterType DEF BeginCreate, TypeOK, Version, clusterVars
    <3> QED BY <3>1, ClientAssumption DEF HandlesAreFresh, Live
  <2>2. CASE pc[w] \in Before /\ hdl[w] = h
    <3>0. h \in Handles
      BY <1>t, <2>2 DEF Before
    <3>1. CASE Exists(h)
      BY <1>2, <1>3, <2>2, <3>0, <3>1 DEF Before
    <3>2. CASE Live(h).uid = 0 /\ KeepsHistory(h)
      BY <3>2 DEF KeepsHistory
    <3>3. ASSUME NEW v \in Workers, Birth(v), Live(h).uid = 0, ~Exists(h)
          PROVE  Live(h)'.uid = 0
      <4>1. hdl[v] # h
        BY <1>i, <3>3 DEF Birth, AddedOnce, After, Exists
      <4>2. view'[h] = view[h]
        BY <3>0, <3>3, <4>1, BirthHistory
      <4> QED BY <3>3, <4>2 DEF Live
    <3> QED BY <1>i, <2>2, <3>0, <3>1, <3>2, <3>3, ViewSteps
  <2> QED BY <1>3, <2>1, <2>2, Arrivals
<1>4. ASSUME NEW w \in Workers, pc'[w] = "create", NEW h, h = hdl'[w]
      PROVE  Live(h)'.uid = 0
  <2>1. CASE AddContainer(w)
    <3>1. /\ hdl[w] = h /\ pc[w] = "add" /\ ~Exists(h) /\ view' = view
      BY <1>4, <2>1 DEF AddContainer, Step, Add, clusterVars
    <3> QED BY <1>i, <3>1 DEF Before, Live
  <2>2. CASE pc[w] = "create" /\ hdl[w] = h
    <3>0. h \in Handles /\ Live(h).uid = 0
      BY <1>t, <1>i, <2>2
    <3>1. CASE KeepsHistory(h)
      BY <3>0, <3>1 DEF KeepsHistory
    <3>2. ASSUME NEW v \in Workers, Birth(v)
          PROVE  Live(h)'.uid = 0
      <4>1. v # w
        BY <1>4, <3>2 DEF Birth
      <4>2. hdl[v] # h
        BY <1>i, <2>2, <3>2, <4>1 DEF Birth, AddedOnce, After
      <4>3. view'[h] = view[h]
        BY <3>0, <3>2, <4>2, BirthHistory
      <4> QED BY <3>0, <4>3 DEF Live
    <3> QED BY <3>0, <3>1, <3>2, ViewSteps
  <2> QED BY <1>4, <2>1, <2>2, Arrivals
<1>5. \A w \in Workers : pc'[w] \in Before =>
        (Live(hdl[w]).uid = 0 \/ Exists(hdl[w]))'
  BY <1>3 DEF Live, Exists
<1>6. \A w \in Workers : pc'[w] = "create" => (Live(hdl[w]).uid = 0)'
  BY <1>4 DEF Live
<1> QED BY <1>1, <1>5, <1>6, HistoryStep DEF HistoryInv

\* When handles are fresh, the invariant of histories holds throughout.
LEMMA HistoryInvariant ==
  ASSUME HandlesAreFresh
  PROVE  Spec => []HistoryInv
<1>1. Init => HistoryInv
  <2> SUFFICES ASSUME Init PROVE HistoryInv
    OBVIOUS
  <2>1. \A h \in Handles : view[h] = <<Gone(0)>>
    BY DEF Init, ClientInit, ClusterInit
  <2>2. /\ Gone(0) \in Version /\ Gone(0).phase = "Absent"
        /\ Gone(0).ports = {}
    BY DEF Gone, Version, Phases
  <2>3. /\ LatestOf(<<Gone(0)>>) = Gone(0) /\ Len(<<Gone(0)>>) = 1
        /\ <<Gone(0)>>[1] = Gone(0)
    BY <2>2, SingletonFacts
  <2>4. \A h \in Handles : HistoryOK(h)
    BY <2>1, <2>2, <2>3 DEF HistoryOK, OneLife, OnePod, HasPorts, Unborn, Live
  <2>5. /\ \A h \in Handles : ~Exists(h)
        /\ \A w \in Workers : pc[w] = "idle"
    BY DEF Init, ClientInit, InitMemory, Exists, NoContainer
  <2> QED BY <2>4, <2>5 DEF HistoryInv, Before
<1>2. TypeOK /\ CleanInv /\ TableInv /\ HistoryInv /\ [Next]_vars => HistoryInv'
  BY HistoryInvStep
<1> QED BY <1>1, <1>2, TypeCorrect, CleanInvariant, TableInvariant, PTL
        DEF Spec

\* A cache that has lost a pod for good.
LEMMA FinalFacts ==
  ASSUME TypeOK, NEW h \in Labelled
  PROVE  ~InCache(h) /\ AbsentFinal(view[h]) => ~PodExists(h)
<1>1. /\ h \in Handles /\ view[h] \in Views /\ Cached(h) = Head(view[h])
  BY LabelledAssumption DEF TypeOK, ClusterTypeOK, Views, Cached
<1>2. /\ Head(view[h]) = view[h][1] /\ Len(view[h]) \in Nat \ {0}
      /\ 1 \in 1 .. Len(view[h])
      /\ \A j \in 1 .. Len(view[h]) : 1 <= j
  BY <1>1, ViewFacts
<1> QED BY <1>1, <1>2 DEF AbsentFinal, PodExists, Live, InCache

\* A container whose pod stands stays in the table while the process lives.
LEMMA PodKeepsContainer ==
  ASSUME TypeOK, CleanInv, PodInv, [Next]_vars, NEW h \in Labelled,
         Exists(h), Standing(h)
  PROVE  Exists(h)' \/ Halt \/ Restore
<1>0. h \in Handles
  BY LabelledAssumption
<1>1. ASSUME NEW v \in Workers, hdl[v] = h, RemoveContainer(v)
      PROVE  FALSE
  BY <1>1 DEF PodInv, RemoveContainer, Step
<1>2. ASSUME NEW v \in Workers, hdl[v] = h, AddContainer(v)
      PROVE  FALSE
  BY <1>2 DEF AddContainer, Add
<1>3. ASSUME NEW v \in Workers, hdl[v] = h, LoadTasks(v)
      PROVE  Exists(h)'
  BY <1>3, LoadTasksEffect DEF Exists
<1>4. CASE ReadPod(h)
  BY <1>0, <1>4, ReadPodEffect DEF Exists
<1> QED BY <1>0, <1>1, <1>2, <1>3, <1>4, TableWrites DEF TableWrite, Exists

\* How the phase of the process changes.
LEMMA RepMoves ==
  ASSUME [Next]_vars
  PROVE  \/ rep' = rep
         \/ Halt
         \/ Boot
         \/ Restore
         \/ Serve
BY DEF vars, Next, ProcessStep, CallStep, NodeStep, Evict, WorkerStep,
       CleanupFails, Crash, ReceiveResult, SendResult, DestroyReturns,
       DestroyStray, StartCreate, StartDestroy, UseProperties

\* Every step keeps the invariant of pods and containers.
LEMMA PodInvStep ==
  ASSUME TypeOK, CleanInv, TableInv, PodInv, [Next]_vars
  PROVE  PodInv'
<1>t. /\ containers \in [Handles -> Container]
      /\ pc \in [Workers -> LabelSet]
      /\ hdl \in [Workers -> Handles \cup {NoHandle}]
      /\ \A w \in Workers : (hdl[w] \in Handles) <=> (pc[w] # "idle")
      /\ Labelled \subseteq Handles
  BY ClientTypes, LabelledAssumption
<1>i. Discipline /\ AddedOnce
  BY DEF TableInv
<1>0. ASSUME NEW h \in Handles
      PROVE  /\ Ends(h)' /\ Ordered(view'[h])
             /\ Standing(h)' => \/ Standing(h)
                                \/ \E w \in Workers : Birth(w) /\ hdl[w] = h
  <2>0. Ends(h) /\ Ordered(view[h])
    BY DEF PodInv
  <2>1. CASE KeepsHistory(h) /\ KeepsLife(h)
    BY <2>0, <2>1 DEF KeepsHistory, KeepsLife, Standing
  <2>2. ASSUME NEW w \in Workers, Birth(w)
        PROVE  /\ Ends(h)' /\ Ordered(view'[h])
               /\ Standing(h)' => Standing(h) \/ hdl[w] = h
    <3>1. CASE hdl[w] = h
      BY <2>0, <2>2, <3>1, BirthFacts DEF Ends
    <3>2. CASE hdl[w] # h
      <4>1. view'[h] = view[h] /\ terminating' = terminating
        BY <2>2, <3>2, BirthFacts
      <4> QED BY <2>0, <4>1 DEF Ends, Standing, PodExists, Live
    <3> QED BY <3>1, <3>2
  <2> QED BY <2>1, <2>2, ViewSteps
<1>2. ASSUME rep' \in {"cleanup", "serving"}, NEW h \in Labelled, Standing(h)'
      PROVE  Exists(h)'
  <2>0. ~Halt
    BY <1>2 DEF Halt
  <2>1. CASE Restore
    <3>1. view' = view /\ AbsentFinal(view[h])
      BY <2>1 DEF Restore, clusterVars, CleanInv, Startup
    <3>2. InCache(h)
      BY <1>2, <3>1, FinalFacts DEF Standing, PodExists, Live
    <3> QED BY <1>t, <2>1, <3>2 DEF Restore, RestoredContainers,
                                    RestoredContainer, Exists
  <2>2. ASSUME NEW w \in Workers, Birth(w), hdl[w] = h
        PROVE  Exists(h)'
    BY <1>i, <2>2 DEF Birth, AddedOnce, After, Exists
  <2>3. CASE Standing(h) /\ ~Restore
    <3>1. rep \in {"cleanup", "serving"}
      BY <1>2, <2>0, <2>3, RepMoves DEF Boot, Serve
    <3>2. Exists(h)
      BY <2>3, <3>1 DEF PodInv
    <3> QED BY <2>0, <2>3, <3>2, PodKeepsContainer
  <2> QED BY <1>t, <1>0, <1>2, <2>1, <2>2, <2>3
<1>3. ASSUME NEW w \in Workers, pc'[w] \in {"gone", "release", "keyspace"},
             NEW h \in Handles, h = hdl'[w], Standing(h)'
      PROVE  FALSE
  <2>1. CASE pc[w] \in {"gone", "release", "keyspace"} /\ hdl[w] = h
    <3>1. ~Standing(h)
      BY <2>1 DEF PodInv
    <3>2. ASSUME NEW v \in Workers, Birth(v), hdl[v] = h
          PROVE  FALSE
      BY <1>i, <2>1, <3>2 DEF Birth, Discipline, CreateSteps, DestroySteps
    <3> QED BY <1>0, <1>3, <3>1, <3>2
  <2>2. CASE DeleteNotFound(w)
    BY <1>3, <2>2 DEF DeleteNotFound, Step, clusterVars, Standing, PodExists,
                      Live
  <2>3. CASE DeleteAccepted(w)
    BY <1>3, <2>3 DEF DeleteAccepted, Step, ApiDelete, Standing
  <2>4. CASE PodGone(w)
    BY <1>3, <2>1, <2>4 DEF PodGone, Step
  <2> QED BY <1>3, <2>1, <2>2, <2>3, <2>4, Arrivals
<1>4. \A w \in Workers : pc'[w] \in {"gone", "release", "keyspace"} =>
        ~Standing(hdl[w])'
  <2> SUFFICES ASSUME NEW w \in Workers,
                      pc'[w] \in {"gone", "release", "keyspace"}
               PROVE  ~Standing(hdl[w])'
    OBVIOUS
  <2>1. hdl'[w] \in Handles
    <3>1. TypeOK'
      BY TypeStep
    <3> QED BY <3>1 DEF TypeOK, ClientTypeOK
  <2> QED BY <1>3, <2>1 DEF Standing, PodExists, Live
<1> QED BY <1>0, <1>2, <1>4 DEF PodInv

\* The invariant of pods and containers holds throughout.
LEMMA PodInvariant == Spec => []PodInv
<1>1. Init => PodInv
  <2> SUFFICES ASSUME Init PROVE PodInv
    OBVIOUS
  <2>1. \A h \in Handles : view[h] = <<Gone(0)>> /\ h \notin terminating
    BY DEF Init, ClientInit, ClusterInit
  <2>2. /\ Gone(0) \in Version /\ Gone(0).phase = "Absent" /\ Gone(0).uid = 0
    BY DEF Gone, Version, Phases
  <2>3. /\ LatestOf(<<Gone(0)>>) = Gone(0) /\ Len(<<Gone(0)>>) = 1
        /\ <<Gone(0)>>[1] = Gone(0)
    BY <2>2, SingletonFacts
  <2>4. \A h \in Handles : Ends(h) /\ Ordered(view[h])
    BY <2>1, <2>2, <2>3 DEF Ends, Ordered
  <2> QED BY <2>4 DEF Init, ClientInit, InitMemory, PodInv
<1> QED BY <1>1, PodInvStep, TypeCorrect, CleanInvariant, TableInvariant, PTL
        DEF Spec

\* When no two pods are made under one handle: every labelled pod that nobody
\* has deleted has a container in the table, with the ports the pod uses,
\* whatever calls fail and whatever answers are lost.
THEOREM PodsAccounted ==
  ASSUME HandlesAreFresh
  PROVE  Spec => []AccountedPods
<1>1. TypeOK /\ HistoryInv /\ PodInv => AccountedPods
  <2> SUFFICES ASSUME TypeOK, HistoryInv, PodInv,
                      rep \in {"cleanup", "serving"},
                      NEW h \in Labelled, Standing(h)
               PROVE  Exists(h) /\ containers[h].ports = Live(h).ports
    BY DEF AccountedPods
  <2>1. Exists(h) /\ h \in Handles
    BY LabelledAssumption DEF PodInv
  <2>2. HasPorts(view[h], containers[h].ports)
    BY <2>1 DEF HistoryInv
  <2>3. Len(view[h]) \in 1 .. Len(view[h])
    BY <2>1, ViewFacts DEF TypeOK, ClusterTypeOK, Views
  <2> QED BY <2>1, <2>2, <2>3 DEF HasPorts, Standing, PodExists, Live, LatestOf
<1> QED BY <1>1, TypeCorrect, HistoryInvariant, PodInvariant, PTL

\* Whatever the callers do, whatever answers are lost and whatever the cache
\* has not been told: the only pod a Destroy can go past is one that is being
\* deleted already and of which the cache has seen no version.
THEOREM OnlyUnseenPodsMissed == Spec => GoneUnlessUnseen
<1> DEFINE Past(w) ==
      LET h == hdl[w] IN
      pc[w] \in {"delete", "gone"} /\ pc'[w] = "release" /\ PodExists(h) =>
        h \in terminating /\ Cached(h).uid # Live(h).uid
<1>1. ASSUME TypeOK, PodInv, [Next]_vars, NEW w \in Workers,
             pc[w] \in {"delete", "gone"}, pc'[w] = "release",
             NEW h, h = hdl[w], PodExists(h)
      PROVE  h \in terminating /\ Cached(h).uid # Live(h).uid
  <2>1. PodGone(w) /\ pc[w] = "gone"
    <3>1. DeleteNotFound(w) \/ PodGone(w)
      BY <1>1, Arrivals
    <3> QED BY <1>1, <3>1 DEF DeleteNotFound, PodGone, Step
  <2>2. /\ h \in Handles /\ h \in terminating /\ Ordered(view[h])
        /\ view[h] \in Views /\ Live(h) \in Version
    <3>1. h \in Handles
      BY <1>1, ClientTypes
    <3>2. h \in terminating
      BY <1>1, <2>1 DEF PodInv, Standing
    <3> QED BY <1>1, <3>1, <3>2, ClusterType
        DEF PodInv, TypeOK, ClusterTypeOK, Views
  <2>3. ~InCache(h)
    BY <1>1, <2>1 DEF PodGone
  <2>4. Live(h).uid > 0 /\ Live(h).uid \in Nat
    BY <1>1, <2>2 DEF Ordered, PodExists, Live, Version
  <2>5. CASE h \notin Labelled
    <3>1. Cached(h).uid = 0
      BY <2>5 DEF Cached, Gone
    <3>2. Live(h).uid # 0
      BY <2>4
    <3> QED BY <2>2, <3>1, <3>2
  <2>6. CASE h \in Labelled
    <3>1. /\ Cached(h) = view[h][1] /\ 1 \in 1 .. Len(view[h])
          /\ view[h][1] \in Version
      BY <2>2, <2>6, ViewFacts DEF Cached, Views
    <3>2. view[h][1].uid < Live(h).uid /\ view[h][1].uid \in Nat
      BY <1>1, <2>2, <2>3, <3>1 DEF Ordered, InCache, PodExists, Live, Version
    <3>3. Cached(h).uid = view[h][1].uid
      BY <3>1
    <3>4. view[h][1].uid # Live(h).uid
      BY <2>4, <3>2
    <3> QED BY <2>2, <3>3, <3>4
  <2> QED BY <2>2, <2>5, <2>6
<1>2. TypeOK /\ PodInv /\ [Next]_vars => [\A w \in Workers : Past(w)]_vars
  BY <1>1
<1> QED BY <1>2, TypeCorrect, PodInvariant, PTL DEF Spec, GoneUnlessUnseen

(***************************************************************************)
(* Ports                                                                   *)
(***************************************************************************)

\* A process that is not serving knows only the strays it has to destroy, and
\* what is not in the table has no ports.
StrayInv ==
  /\ rep \in {"down", "starting"} => \A h \in Handles : ~Exists(h)
  /\ rep = "cleanup" =>
       /\ \A w \in Workers : pc[w] # "idle" => stray[hdl[w]] = "running"
       /\ \A v, w \in Workers :
            pc[v] # "idle" /\ pc[w] # "idle" /\ hdl[v] = hdl[w] => v = w
       /\ \A h \in Handles : Exists(h) =>
            stray[h] \in {"queued", "running", "failed"}
       /\ \A w \in Workers :
            pc[w] \in {"keyspace", "destroyed"} => ~Exists(hdl[w])
  /\ \A h \in Handles : ~Exists(h) => containers[h].ports = {}

\* What is not in the table has no ports, after every step.
LEMMA NoLeftPorts ==
  ASSUME TypeOK, TableInv, StrayInv, [Next]_vars, NEW h \in Handles, ~Exists(h)'
  PROVE  containers'[h].ports = {}
<1>t. containers \in [Handles -> Container]
  BY ClientTypes
<1>i. \A w \in Workers : pc[w] \in After => Exists(hdl[w])
  BY DEF TableInv, AddedOnce, Exists
<1>1. CASE containers'[h] = containers[h]
  BY <1>1 DEF StrayInv, Exists
<1>2. CASE Halt
  BY <1>2 DEF Halt, NoContainer
<1>3. CASE Restore
  BY <1>3
     DEF Restore, RestoredContainers, RestoredContainer, NoContainer, Exists
<1>4. ASSUME NEW w \in Workers, hdl[w] = h, AddContainer(w)
      PROVE  FALSE
  BY <1>t, <1>4 DEF AddContainer, Add, FreshContainer, Exists
<1>5. ASSUME NEW w \in Workers, hdl[w] = h, RemoveContainer(w)
      PROVE  containers'[h].ports = {}
  BY <1>t, <1>5 DEF RemoveContainer, Remove, NoContainer
<1>6. ASSUME NEW w \in Workers, hdl[w] = h, LoadTasks(w)
      PROVE  FALSE
  BY <1>i, <1>6, LoadTasksEffect DEF LoadTasks, Step, After, Exists
<1>7. ASSUME NEW w \in Workers, hdl[w] = h, ReadPod(h), pc[w] = "wait"
      PROVE  FALSE
  BY <1>i, <1>7, ReadPodEffect DEF After, Exists
<1> QED BY <1>1, <1>2, <1>3, <1>4, <1>5, <1>6, <1>7, TableWrites DEF TableWrite

\* Every step keeps the invariant of strays.
LEMMA StrayInvStep ==
  ASSUME TypeOK, CleanInv, TableInv, StrayInv, [Next]_vars
  PROVE  StrayInv'
<1>t. /\ containers \in [Handles -> Container]
      /\ pc \in [Workers -> LabelSet]
      /\ hdl \in [Workers -> Handles \cup {NoHandle}]
      /\ \A w \in Workers : (hdl[w] \in Handles) <=> (pc[w] # "idle")
      /\ stray \in [Handles -> StrayStates]
  BY ClientTypes
<1>p. \A h \in Handles : ~Exists(h)' => containers'[h].ports = {}
  BY NoLeftPorts
<1>u. CASE UNCHANGED <<containers, pc, hdl, rep, stray>>
  BY <1>p, <1>u DEF StrayInv, Exists
<1>h. CASE Halt
  BY <1>p, <1>h DEF Halt, StrayInv, Exists, NoContainer
<1>1. CASE Boot
  BY <1>p, <1>1 DEF Boot, memoryVars, StrayInv, Exists
<1>2. CASE Restore
  <2>1. /\ rep' = "cleanup" /\ pc' = pc
        /\ \A w \in Workers : pc[w] = "idle"
    BY <1>2 DEF Restore, workerVars, CleanInv
  <2>2. \A h \in Handles : Exists(h)' => stray'[h] = "queued"
    BY <1>2 DEF Restore, StraysToDestroy, Containers, Tracked, Exists,
                RestoredContainers, RestoredProps, RestoredContainer, NoContainer
  <2> QED BY <1>p, <2>1, <2>2 DEF StrayInv
<1>3. CASE Serve
  BY <1>p, <1>3 DEF Serve, StrayInv
<1>4. ASSUME NEW h \in Handles, ReceiveResult(h)
      PROVE  StrayInv'
  BY <1>t, <1>p, <1>4 DEF ReceiveResult, StrayInv, clientVars, memoryVars,
                          workerVars, Exists
<1>5. ASSUME NEW w \in Workers, CallStep(w), rep = "serving"
      PROVE  StrayInv'
  <2>1. rep' = "serving"
    BY <1>5 DEF CallStep, WorkerStep, SendResult, DestroyReturns, DestroyStray,
                StartCreate, StartDestroy
  <2> QED BY <1>p, <2>1 DEF StrayInv
<1>6. ASSUME NEW w \in Workers, CallStep(w), rep # "serving"
      PROVE  StrayInv'
  <2>0. ~CreateStep(w)
    BY <1>6, CreateWrites DEF CleanInv
  <2>1. CASE WorkerStep(w)
    <3>1. DestroyStep(w) /\ UNCHANGED <<rep, stray>>
      BY <2>0, <2>1 DEF WorkerStep
    <3>2. /\ pc[w] \in DestroySteps /\ pc'[w] \in DestroySteps \cup Results
          /\ \A v \in Workers \ {w} : pc'[v] = pc[v]
          /\ hdl' = hdl
      BY <3>1, DestroyMoves
    <3>3. rep = "cleanup" /\ pc[w] # "idle"
      BY <1>6, <3>2 DEF CleanInv, DestroySteps, TypeOK, RepStates
    <3>4. \A h \in Handles : Exists(h)' => Exists(h)
      BY <1>t, <3>1 DEF DestroyStep, DeleteAccepted, DeleteNotFound,
           DeleteFails, DestroyFails, PodGone, DeleteTimeout, ReleasePort,
           RemoveContainer, Remove, DestroyKeySpace, Exists, NoContainer
    <3>5. pc'[w] \in {"keyspace", "destroyed"} => ~Exists(hdl[w])'
      BY <1>t, <3>1, <3>3 DEF DestroyStep, DeleteAccepted, DeleteNotFound,
           DeleteFails, DestroyFails, PodGone, DeleteTimeout, ReleasePort,
           RemoveContainer, Remove, DestroyKeySpace, Exists, NoContainer,
           Step, Goto, StrayInv
    <3> QED BY <1>t, <1>p, <3>1, <3>2, <3>3, <3>4, <3>5 DEF StrayInv
  <2>2. CASE SendResult(w)
    BY <1>t, <1>p, <2>2 DEF SendResult, Leave, Goto, Results, StrayInv, Exists
  <2>3. ASSUME NEW h \in Handles, DestroyStray(w, h)
        PROVE  StrayInv'
    BY <1>t, <1>p, <2>3 DEF DestroyStray, BeginDestroy, Goto, StrayInv, Exists
  <2> QED BY <1>6, <2>1, <2>2, <2>3
          DEF CallStep, DestroyReturns, StartCreate, StartDestroy
<1>7. CASE ProcessStep
  BY <1>h, <1>1, <1>2, <1>3, <1>4, <1>7 DEF ProcessStep, CleanupFails, Crash
<1> QED BY <1>u, <1>5, <1>6, <1>7
        DEF Next, vars, clientVars, memoryVars, workerVars, NodeStep, Evict,
            UseProperties, SetProperty, RemoveProperty

\* The invariant of strays holds throughout.
LEMMA StrayInvariant == Spec => []StrayInv
<1>1. Init => StrayInv
  BY DEF Init, ClientInit, InitMemory, StrayInv, Exists, NoContainer
<1> QED BY <1>1, StrayInvStep, TypeCorrect, CleanInvariant, TableInvariant, PTL
        DEF Spec

\* The host ports a container asks for by number are not of the pool.
FixedOutsidePool == \A h \in Handles : FixedPorts[h] \cap Pool = {}

\* The callers destroy a container once at a time.
OneDestroy == "Destroy" \notin Overlap

\* The ports of the pool that a container has and no Destroy has released.
Owned(h) ==
  {p \in containers[h].ports \cap Pool :
     \A w \in Workers : hdl[w] = h /\ pc[w] = "release" => p \in held[w]}

\* The ports of the pool that a Create has and no container yet.
Claimed(w) == IF pc[w] \in Before THEN held[w] \cap Pool ELSE {}

\* Every port that is in use is allocated, and in one use only.
PortsApart ==
  /\ \A h \in Handles : Owned(h) \subseteq allocated
  /\ \A w \in Workers : Claimed(w) \subseteq allocated
  /\ \A g, h \in Handles : g # h => Owned(g) \cap Owned(h) = {}
  /\ \A v, w \in Workers : v # w => Claimed(v) \cap Claimed(w) = {}
  /\ \A w \in Workers, h \in Handles : Claimed(w) \cap Owned(h) = {}

\* A Destroy releases only ports of its container.
ReleasesOwn ==
  \A w \in Workers : pc[w] \in {"delete", "gone", "release"} =>
    held[w] \subseteq containers[hdl[w]].ports

PortInv ==
  /\ rep = "serving" => PortsApart
  /\ ReleasesOwn
  /\ PortExclusive

\* A Destroy keeps a container in the table as it is until it removes it.
LEMMA DestroyHoldsContainer ==
  ASSUME OneDestroy, TypeOK, CleanInv, TableInv, [Next]_vars,
         NEW w \in Workers, pc[w] \in DestroySteps, pc'[w] # "idle",
         NEW h \in Handles, h = hdl[w]
  PROVE  containers'[h] = containers[h] \/ RemoveContainer(w)
<1>i. Discipline /\ \A v \in Workers : pc[v] = "release" => pc[v] \in DestroySteps
  BY DEF TableInv, DestroySteps
<1>1. ~Halt /\ ~Restore
  BY DEF Halt, Restore, CleanInv, DestroySteps
<1>2. ASSUME NEW v \in Workers, hdl[v] = h, pc[v] \in {"add", "tasks", "wait"}
      PROVE  FALSE
  BY <1>i, <1>2 DEF Discipline, CreateSteps, DestroySteps
<1>3. ASSUME NEW v \in Workers, hdl[v] = h, RemoveContainer(v)
      PROVE  v = w
  BY <1>i, <1>3 DEF Discipline, RemoveContainer, Step, OneDestroy
<1> QED BY <1>1, <1>2, <1>3, TableWrites
        DEF TableWrite, AddContainer, LoadTasks, Step

\* A step of any worker lets a Destroy release only ports of its container.
LEMMA ReleasesOwnStep ==
  ASSUME OneDestroy, TypeOK, CleanInv, TableInv, ReleasesOwn, [Next]_vars
  PROVE  ReleasesOwn'
<1>t. /\ containers \in [Handles -> Container]
      /\ pc \in [Workers -> LabelSet]
      /\ hdl \in [Workers -> Handles \cup {NoHandle}]
      /\ held \in [Workers -> SUBSET Nat]
      /\ \A w \in Workers : (hdl[w] \in Handles) <=> (pc[w] # "idle")
  BY ClientTypes
<1> DEFINE L == {"delete", "gone", "release"}
<1> SUFFICES ASSUME NEW w \in Workers, pc'[w] \in L
             PROVE  held'[w] \subseteq containers'[hdl'[w]].ports
  BY DEF ReleasesOwn
<1>1. CASE pc'[w] = pc[w] /\ hdl'[w] = hdl[w] /\ held'[w] = held[w]
  <2>1. pc[w] \in DestroySteps /\ pc'[w] # "idle" /\ hdl[w] \in Handles
    BY <1>t, <1>1 DEF DestroySteps
  <2>2. ~RemoveContainer(w)
    BY <1>t, <1>1 DEF RemoveContainer, Step, Goto
  <2> QED BY <1>1, <2>1, <2>2, DestroyHoldsContainer DEF ReleasesOwn
<1>2. CASE CreateStep(w) /\ pc'[w] # "idle"
  BY <1>t, <1>2
  DEF CreateStep, AllocatePort, AllocateFails, PortsReady, ImageReady,
      ImageFails, SetProperties, AddContainer, AddFails, CreatePod,
      CreatePodFails, CreatePodLost, PollPod, PodRunning, CreateTimeout,
      WaitFails, LoadTasks, LoadTasksFails, SetState, Step, Goto, Leave,
      workerVars
<1>3. CASE DestroyStep(w)
  <2>1. /\ containers' = containers /\ hdl' = hdl
        /\ held'[w] \subseteq held[w] /\ pc[w] \in L
    BY <1>t, <1>3
    DEF DestroyStep, DeleteAccepted, DeleteNotFound, DeleteFails, DestroyFails,
        PodGone, DeleteTimeout, ReleasePort, RemoveContainer, DestroyKeySpace,
        Step, Goto
  <2> QED BY <2>1 DEF ReleasesOwn
<1>4. ASSUME NEW h \in Handles, BeginCreate(w, h) \/ BeginDestroy(w, h)
      PROVE  held'[w] \subseteq containers'[hdl'[w]].ports
  BY <1>t, <1>4 DEF BeginCreate, BeginDestroy, Goto
<1> QED BY <1>1, <1>2, <1>3, <1>4, Moves DEF Move

\* The ports of a standing pod are owned by its container.
LEMMA PodOwnsPorts ==
  ASSUME TypeOK, HistoryInv, PodInv, rep \in {"cleanup", "serving"},
         NEW h \in Labelled, Standing(h)
  PROVE  Live(h).ports \cap Pool = Owned(h)
<1>1. Exists(h) /\ h \in Handles
  BY LabelledAssumption DEF PodInv
<1>2. HasPorts(view[h], containers[h].ports)
  BY <1>1 DEF HistoryInv
<1>3. Len(view[h]) \in 1 .. Len(view[h])
  BY <1>1, ViewFacts DEF TypeOK, ClusterTypeOK, Views
<1>4. containers[h].ports = Live(h).ports
  BY <1>2, <1>3 DEF HasPorts, Standing, PodExists, Live, LatestOf
<1>5. \A w \in Workers : hdl[w] = h => pc[w] # "release"
  BY DEF PodInv
<1> QED BY <1>4, <1>5 DEF Owned

\* A new pod has ports that no standing pod has.
LEMMA BirthApart ==
  ASSUME TypeOK, CleanInv, TableInv, HistoryInv, PodInv,
         PortInv, NEW w \in Workers, Birth(w),
         NEW g \in Labelled, g # hdl[w], Standing(g)
  PROVE  Live(g).ports \cap containers[hdl[w]].ports \cap Pool = {}
<1>1. rep = "serving" /\ hdl[w] \in Handles /\ g \in Handles
  BY LabelledAssumption DEF Birth, CleanInv, CreateSteps
<1>2. \A v \in Workers : hdl[v] = hdl[w] => pc[v] # "release"
  BY DEF Birth, TableInv, Discipline, CreateSteps, DestroySteps
<1>3. Owned(hdl[w]) = containers[hdl[w]].ports \cap Pool
  BY <1>2 DEF Owned
<1>4. Owned(g) = Live(g).ports \cap Pool
  BY <1>1, PodOwnsPorts
<1>5. Owned(g) \cap Owned(hdl[w]) = {}
  BY <1>1 DEF PortInv, PortsApart
<1> QED BY <1>3, <1>4, <1>5

\* Every step keeps the ports of standing pods apart.
LEMMA PortExclusiveStep ==
  ASSUME TypeOK, CleanInv, TableInv, HistoryInv, PodInv, PortInv, [Next]_vars
  PROVE  PortExclusive'
<1>0. Labelled \subseteq Handles
  BY LabelledAssumption
<1>1. CASE \A g \in Handles : KeepsHistory(g) /\ KeepsLife(g)
  <2>1. \A g \in Labelled : Standing(g)' => /\ Standing(g)
                                            /\ Live(g)'.ports = Live(g).ports
    BY <1>0, <1>1 DEF KeepsHistory, KeepsLife, Standing
  <2> QED BY <2>1 DEF PortInv, PortExclusive
<1>2. ASSUME NEW w \in Workers, Birth(w)
      PROVE  PortExclusive'
  <2>1. PICK b : b = hdl[w]
    OBVIOUS
  <2>2. /\ b \in Handles
        /\ Live(b)'.ports = containers[b].ports
        /\ \A g \in Handles \ {b} : view'[g] = view[g]
        /\ terminating' = terminating
    BY <1>2, <2>1, BirthHistory, BirthFacts
  <2>3. \A g \in Labelled \ {b} : /\ Live(g)' = Live(g)
                                  /\ Standing(g)' => Standing(g)
    BY <1>0, <2>2 DEF Live, PodExists, Standing
  <2>4. \A g \in Labelled \ {b} : Standing(g) =>
          Live(g).ports \cap containers[b].ports \cap Pool = {}
    BY <1>2, <2>1, BirthApart
  <2> SUFFICES ASSUME NEW g \in Labelled, NEW h \in Labelled, g # h,
                      Standing(g)', Standing(h)'
               PROVE  Live(g)'.ports \cap Live(h)'.ports \cap Pool = {}
    BY DEF PortExclusive
  <2>5. CASE g = b
    BY <2>2, <2>3, <2>4, <2>5
  <2>6. CASE h = b
    BY <2>2, <2>3, <2>4, <2>6
  <2>7. CASE g # b /\ h # b
    BY <2>3, <2>7 DEF PortInv, PortExclusive
  <2> QED BY <2>5, <2>6, <2>7
<1> QED BY <1>1, <1>2, ViewSteps

\* The container's ports are what a read of its pod finds.
LEMMA ReadKeepsPorts ==
  ASSUME TypeOK, HistoryInv, TableInv, NEW h \in Handles, ReadPod(h),
         NEW w \in Workers, hdl[w] = h, pc[w] = "wait"
  PROVE  containers'[h].ports = containers[h].ports
<1>1. InCache(h) /\ containers'[h].ports = Cached(h).ports
  BY ReadPodEffect DEF ReadPod
<1>2. Exists(h)
  BY DEF TableInv, AddedOnce, After, Exists
<1>3. view[h] \in Views /\ Cached(h) = Head(view[h])
  BY <1>1 DEF TypeOK, ClusterTypeOK, Views, InCache, Cached, Gone
<1>4. Head(view[h]) = view[h][1] /\ 1 \in 1 .. Len(view[h])
  BY <1>3, ViewFacts
<1> QED BY <1>1, <1>2, <1>3, <1>4 DEF HistoryInv, HasPorts, InCache

\* A Destroy that releases ports does so until the container is removed or
\* the process ends.
LEMMA StaysInRelease ==
  ASSUME TypeOK, [Next]_vars, NEW w \in Workers, pc[w] = "release", ~Halt
  PROVE  pc'[w] # "idle"
<1>t. pc \in [Workers -> LabelSet]
  BY ClientTypes
<1>1. ASSUME NEW v \in Workers, CallStep(v)
      PROVE  pc'[w] # "idle"
  <2>1. CASE DestroyStep(v)
    BY <1>t, <2>1, DestroyMoves DEF DestroySteps, Results
  <2>2. CASE CreateStep(v)
    <3>1. v # w
      BY <2>2, CreateWrites DEF CreateSteps
    <3> QED BY <1>t, <2>2, <3>1
      DEF CreateStep, AllocatePort, AllocateFails, PortsReady, ImageReady,
        ImageFails, SetProperties, AddContainer, AddFails, CreatePod,
        CreatePodFails, CreatePodLost, PollPod, PodRunning, CreateTimeout,
        WaitFails, LoadTasks, LoadTasksFails, SetState, Step, Goto, Leave,
        workerVars
  <2> QED BY <1>t, <1>1, <2>1, <2>2
          DEF CallStep, WorkerStep, SendResult, DestroyReturns, DestroyStray,
              StartCreate, StartDestroy, BeginCreate, BeginDestroy, Leave, Goto,
              Results
<1> QED BY <1>1
        DEF Next, vars, ProcessStep, Boot, Restore, Serve, CleanupFails, Crash,
            ReceiveResult, NodeStep, Evict, UseProperties, SetProperty,
            RemoveProperty, clientVars, memoryVars, workerVars

\* A step that hands out no port and adds no container only takes ports away
\* from the containers and from the Creates.
LEMMA OwnedShrinks ==
  ASSUME TypeOK, HistoryInv, TableInv, [Next]_vars, rep = "serving", rep' = "serving",
         NEW h \in Handles,
         \A w \in Workers : hdl[w] = h => ~AddContainer(w)
  PROVE  Owned(h)' \subseteq Owned(h)
<1>t. /\ containers \in [Handles -> Container]
      /\ pc \in [Workers -> LabelSet]
      /\ held \in [Workers -> SUBSET Nat]
      /\ \A w \in Workers : (hdl[w] \in Handles) <=> (pc[w] # "idle")
  BY ClientTypes
<1>1. ~Halt /\ ~Restore
  BY DEF Halt, Restore
<1>2. ASSUME NEW w \in Workers, hdl[w] = h, RemoveContainer(w)
      PROVE  Owned(h)' = {}
  <2>1. containers'[h].ports = {}
    BY <1>t, <1>2 DEF RemoveContainer, Remove, NoContainer
  <2> QED BY <2>1 DEF Owned
<1>3. CASE /\ containers'[h].ports = containers[h].ports
           /\ \A w \in Workers : hdl[w] = h => ~RemoveContainer(w)
  <2> SUFFICES ASSUME NEW p \in Owned(h)', NEW w \in Workers, hdl[w] = h,
                      pc[w] = "release"
               PROVE  p \in held[w]
    BY <1>3 DEF Owned
  <2>1. /\ pc'[w] = "release" /\ hdl'[w] = h /\ held'[w] \subseteq held[w]
    <3>1. ~(pc'[w] = "idle" /\ held'[w] = {})
      BY <1>t, <1>1, StaysInRelease
    <3>2. ~CreateStep(w)
      BY CreateWrites DEF CreateSteps
    <3>3. CASE DestroyStep(w)
      BY <1>t, <1>3, <3>3
      DEF DestroyStep, DeleteAccepted, DeleteNotFound, DeleteFails, PodGone,
          DeleteTimeout, ReleasePort, DestroyKeySpace, Step
    <3>4. \A g \in Handles : ~(BeginCreate(w, g) \/ BeginDestroy(w, g))
      BY DEF BeginCreate, BeginDestroy
    <3> QED BY <3>1, <3>2, <3>3, <3>4, Moves DEF Move
  <2> QED BY <2>1 DEF Owned
<1>4. ASSUME NEW w \in Workers, hdl[w] = h, LoadTasks(w)
      PROVE  containers'[h].ports = containers[h].ports
  BY <1>4, LoadTasksEffect
<1>5. ASSUME NEW w \in Workers, hdl[w] = h, pc[w] = "wait", ReadPod(h)
      PROVE  containers'[h].ports = containers[h].ports
  BY <1>5, ReadKeepsPorts
<1> QED BY <1>1, <1>2, <1>3, <1>4, <1>5, TableWrites DEF TableWrite

\* The ports a Create has collected grow by AllocatePort alone.
LEMMA ClaimedShrinks ==
  ASSUME FixedOutsidePool, TypeOK, [Next]_vars, NEW w \in Workers,
         ~AllocatePort(w)
  PROVE  Claimed(w)' \subseteq Claimed(w)
<1>t. /\ pc \in [Workers -> LabelSet]
      /\ held \in [Workers -> SUBSET Nat]
  BY ClientTypes
<1> SUFFICES ASSUME pc'[w] \in Before
             PROVE  held'[w] \cap Pool \subseteq Claimed(w)
  BY DEF Claimed
<1>1. CASE pc'[w] = pc[w] /\ held'[w] = held[w]
  BY <1>1 DEF Claimed
<1>2. CASE CreateStep(w) /\ pc'[w] # "idle"
  <2>1. pc[w] \in Before /\ held'[w] = held[w]
    BY <1>t, <1>2
    DEF CreateStep, AllocateFails, PortsReady, ImageReady,
        ImageFails, SetProperties, AddContainer, AddFails, CreatePod,
        CreatePodFails, CreatePodLost, PollPod, PodRunning, CreateTimeout,
        WaitFails, LoadTasks, LoadTasksFails, SetState, Step, Goto, Leave,
        workerVars, Before
  <2> QED BY <2>1 DEF Claimed
<1>3. ~DestroyStep(w)
  BY DestroyMoves DEF Before, DestroySteps, Results
<1>4. ASSUME NEW h \in Handles, BeginCreate(w, h) \/ BeginDestroy(w, h)
      PROVE  held'[w] \cap Pool = {}
  BY <1>t, <1>4 DEF BeginCreate, BeginDestroy, Goto, Before, FixedOutsidePool
<1> QED BY <1>1, <1>2, <1>3, <1>4, Moves DEF Move, Before

\* The port manager changes only when a Create asks it for a port, when a
\* Destroy gives one back, and with the process.
LEMMA AllocatedChanges ==
  ASSUME [Next]_vars, ~Halt, ~Restore
  PROVE  \/ allocated' = allocated
         \/ \E w \in Workers : AllocatePort(w) \/ ReleasePort(w)
BY DEF vars, clientVars, memoryVars, Next, ProcessStep, CallStep, NodeStep,
   Evict,
       WorkerStep, Boot, Serve, CleanupFails, Crash, ReceiveResult,
       SendResult, DestroyReturns, DestroyStray, StartCreate, StartDestroy,
       UseProperties, SetProperty, RemoveProperty, BeginCreate, BeginDestroy,
       CreateStep, AllocateFails, NoPort, PortsReady, ImageReady,
       ImageFails, SetProperties, AddContainer, AddFails, CreatePod,
       CreatePodFails, CreatePodLost, PollPod, PodRunning, CreateTimeout,
       WaitFails, LoadTasks, LoadTasksFails, SetState, DestroyStep,
       DeleteAccepted, DeleteNotFound, DeleteFails, DestroyFails, PodGone,
       DeleteTimeout, RemoveContainer, DestroyKeySpace

\* Every step of a serving process keeps the uses of the ports apart.
LEMMA PortsApartStep ==
  ASSUME OneDestroy, FixedOutsidePool, TypeOK, CleanInv, TableInv, HistoryInv,
         PortsApart, ReleasesOwn, [Next]_vars, rep = "serving", rep' = "serving"
  PROVE  PortsApart'
<1>t. /\ containers \in [Handles -> Container]
      /\ pc \in [Workers -> LabelSet]
      /\ hdl \in [Workers -> Handles \cup {NoHandle}]
      /\ held \in [Workers -> SUBSET Nat]
      /\ \A w \in Workers : (hdl[w] \in Handles) <=> (pc[w] # "idle")
      /\ allocated \subseteq Pool
  BY ClientTypes DEF TypeOK, ClientTypeOK
<1>1. ASSUME NEW w \in Workers, AllocatePort(w)
      PROVE  PortsApart'
  <2>1. PICK q \in Pool : NextPort(q) /\ held' = [held EXCEPT ![w] = @ \cup {q}]
    BY <1>1 DEF AllocatePort
  <2>2. /\ q \notin allocated /\ allocated' = allocated \cup {q}
        /\ UNCHANGED <<containers, pc, hdl>> /\ pc[w] = "netin"
    BY <1>1, <2>1 DEF NextPort, Free, AllocatePort
  <2>3. \A h \in Handles : Owned(h)' = Owned(h)
    BY <1>t, <2>1, <2>2 DEF Owned
  <2>4. /\ \A v \in Workers \ {w} : Claimed(v)' = Claimed(v)
        /\ Claimed(w)' \subseteq Claimed(w) \cup {q}
    BY <1>t, <2>1, <2>2 DEF Claimed, Before
  <2> QED BY <2>2, <2>3, <2>4 DEF PortsApart
<1>2. ASSUME NEW w \in Workers, AddContainer(w)
      PROVE  PortsApart'
  <2>1. /\ pc[w] = "add" /\ pc' = [pc EXCEPT ![w] = "create"]
        /\ hdl' = hdl /\ allocated' = allocated
        /\ held' = [held EXCEPT ![w] = {}]
        /\ containers' = [containers EXCEPT ![hdl[w]] = FreshContainer(held[w])]
        /\ FreshContainer(held[w]).ports = held[w]
        /\ hdl[w] \in Handles
    BY <1>t, <1>2 DEF AddContainer, Add, Step, Goto, FreshContainer
  <2>2. PICK b \in Handles : b = hdl[w]
    BY <2>1
  <2>3. \A h \in Handles \ {b} : Owned(h)' \subseteq Owned(h)
    BY <1>t, <2>1, <2>2 DEF Owned
  <2>4. Owned(b)' \subseteq Claimed(w)
    BY <1>t, <2>1, <2>2 DEF Owned, Claimed, Before
  <2>5. /\ \A v \in Workers \ {w} : Claimed(v)' = Claimed(v)
        /\ Claimed(w)' = {}
    BY <1>t, <2>1 DEF Claimed, Before
  <2>6. /\ \A h \in Handles : Owned(h)' \subseteq allocated'
        /\ \A v \in Workers : Claimed(v)' \subseteq allocated'
    BY <2>1, <2>3, <2>4, <2>5 DEF PortsApart
  <2>7. \A g, h \in Handles : g # h => Owned(g)' \cap Owned(h)' = {}
    <3> SUFFICES ASSUME NEW g \in Handles, NEW h \in Handles, g # h,
                        NEW q \in Owned(g)', q \in Owned(h)'
                 PROVE  FALSE
      OBVIOUS
    <3>1. CASE g = b
      BY <2>3, <2>4, <3>1 DEF PortsApart
    <3>2. CASE h = b
      BY <2>3, <2>4, <3>2 DEF PortsApart
    <3>3. CASE g # b /\ h # b
      BY <2>3, <3>3 DEF PortsApart
    <3> QED BY <3>1, <3>2, <3>3
  <2>8. \A u, v \in Workers : u # v => Claimed(u)' \cap Claimed(v)' = {}
    BY <2>5 DEF PortsApart
  <2>9. \A v \in Workers, h \in Handles : Claimed(v)' \cap Owned(h)' = {}
    <3> SUFFICES ASSUME NEW v \in Workers, NEW h \in Handles,
                        NEW q \in Claimed(v)', q \in Owned(h)'
                 PROVE  FALSE
      OBVIOUS
    <3>1. v # w /\ q \in Claimed(v)
      BY <2>5
    <3>2. CASE h = b
      BY <2>4, <3>1, <3>2 DEF PortsApart
    <3>3. CASE h # b
      BY <2>3, <3>1, <3>3 DEF PortsApart
    <3> QED BY <3>2, <3>3
  <2> QED BY <2>6, <2>7, <2>8, <2>9 DEF PortsApart
<1>3. ASSUME NEW w \in Workers, ReleasePort(w)
      PROVE  PortsApart'
  <2>1. PICK q \in held[w] : /\ Release(q)
                             /\ held' = [held EXCEPT ![w] = @ \ {q}]
    BY <1>3 DEF ReleasePort
  <2>2. /\ allocated' = allocated \ {q}
        /\ UNCHANGED <<containers, pc, hdl>> /\ pc[w] = "release"
        /\ hdl[w] \in Handles
    BY <1>t, <1>3, <2>1 DEF Release, ReleasePort
  <2>3. PICK b \in Handles : b = hdl[w]
    BY <2>2
  <2>4. \A v \in Workers : hdl[v] = b /\ pc[v] = "release" => v = w
    BY <2>2, <2>3 DEF TableInv, Discipline, OneDestroy, DestroySteps
  <2>5. q \in Pool => q \in Owned(b)
    BY <2>1, <2>2, <2>3, <2>4 DEF Owned, ReleasesOwn
  <2>6. /\ \A h \in Handles : Owned(h)' \subseteq Owned(h)
        /\ q \notin Owned(b)'
    BY <1>t, <2>1, <2>2, <2>3 DEF Owned
  <2>7. \A v \in Workers : Claimed(v)' = Claimed(v)
    BY <1>t, <2>1, <2>2 DEF Claimed, Before
  <2>8. \A h \in Handles : q \notin Owned(h)'
    BY <1>t, <2>5, <2>6 DEF PortsApart
  <2>9. \A v \in Workers : q \notin Claimed(v)
    BY <1>t, <2>5 DEF PortsApart
  <2> QED BY <2>2, <2>6, <2>7, <2>8, <2>9 DEF PortsApart
<1>4. CASE \A w \in Workers : ~AllocatePort(w) /\ ~AddContainer(w) /\ ~ReleasePort(w)
  <2>1. allocated' = allocated
    BY <1>4, AllocatedChanges DEF Halt, Restore
  <2>2. \A h \in Handles : Owned(h)' \subseteq Owned(h)
    BY <1>4, OwnedShrinks
  <2>3. \A w \in Workers : Claimed(w)' \subseteq Claimed(w)
    BY <1>4, ClaimedShrinks
  <2> QED BY <2>1, <2>2, <2>3 DEF PortsApart
<1> QED BY <1>1, <1>2, <1>3, <1>4

\* Every step keeps the invariant of ports.
LEMMA PortInvStep ==
  ASSUME OneDestroy, FixedOutsidePool, TypeOK, CleanInv, TableInv,
         HistoryInv, PodInv, StrayInv, PortInv, [Next]_vars
  PROVE  PortInv'
<1>1. ReleasesOwn'
  BY ReleasesOwnStep DEF PortInv
<1>2. PortExclusive'
  BY PortExclusiveStep
<1>3. CASE rep' = "serving" /\ rep = "serving"
  BY <1>1, <1>2, <1>3, PortsApartStep DEF PortInv
<1>4. CASE rep' = "serving" /\ rep # "serving"
  <2>1. Serve
    BY <1>4, RepMoves DEF Halt, Boot, Restore
  <2>2. /\ UNCHANGED <<allocated, containers, pc, hdl, held>>
        /\ \A h \in Handles : ~Exists(h)
        /\ \A w \in Workers : pc[w] = "idle"
    BY <2>1, ClientTypes DEF Serve, clientVars, memoryVars, workerVars, StrayInv
  <2>3. /\ \A h \in Handles : Owned(h)' = {}
        /\ \A w \in Workers : Claimed(w)' = {}
    BY <2>2 DEF StrayInv, Owned, Claimed, Before
  <2> QED BY <1>1, <1>2, <2>3 DEF PortInv, PortsApart
<1> QED BY <1>1, <1>2, <1>3, <1>4 DEF PortInv

\* The invariant of ports holds throughout.
LEMMA PortInvariant ==
  ASSUME HandlesAreFresh, OneDestroy, FixedOutsidePool
  PROVE  Spec => []PortInv
<1>1. Init => PortInv
  <2> SUFFICES ASSUME Init PROVE PortInv
    OBVIOUS
  <2>1. \A h \in Labelled : ~Standing(h)
    BY SingletonFacts, LabelledAssumption
    DEF Init, ClientInit, ClusterInit, Standing, PodExists, Live, Gone, LatestOf
  <2> QED BY <2>1 DEF Init, ClientInit, InitMemory, PortInv, ReleasesOwn,
                      PortExclusive
<1>2. /\ TypeOK /\ CleanInv /\ TableInv /\ HistoryInv /\ PodInv /\ StrayInv
      /\ PortInv /\ [Next]_vars
      => PortInv'
  BY PortInvStep
<1> QED BY <1>1, <1>2, TypeCorrect, CleanInvariant, TableInvariant,
           HistoryInvariant, PodInvariant, StrayInvariant, PTL DEF Spec

\* When no two pods are made under one handle, containers are destroyed once
\* at a time and fixed ports are outside the pool: no two standing pods use one
\* host port of the pool, although a new process begins with an empty port
\* manager, a Destroy releases ports by what a cache told it, and any call to
\* the API server may fail, with or without effect.
THEOREM PortsExclusive ==
  ASSUME HandlesAreFresh, OneDestroy, FixedOutsidePool
  PROVE  Spec => []PortExclusive
<1>1. PortInv => PortExclusive
  BY DEF PortInv
<1> QED BY <1>1, PortInvariant, PTL

(***************************************************************************)
(* The contract                                                            *)
(***************************************************************************)

\* The mapped state of GardenSpec.
StateOf(h) == IF ~PodExists(h) THEN "none"
              ELSE IF h \in terminating THEN "going" ELSE "standing"

PodOf(h) == [state |-> StateOf(h), ports |-> Live(h).ports \cap Pool]

Pods == [h \in Labelled |-> PodOf(h)]

\* What the state of a pod in the contract says.
LEMMA StateFacts ==
  ASSUME NEW h \in Labelled
  PROVE  /\ Pods[h] = [state |-> StateOf(h), ports |-> Live(h).ports \cap Pool]
         /\ Pods[h].state = StateOf(h)
         /\ Pods[h].ports = Live(h).ports \cap Pool
         /\ (StateOf(h) = "none") <=> ~PodExists(h)
         /\ (StateOf(h) = "standing") <=> Standing(h)
BY DEF Pods, PodOf, StateOf, Standing

\* The pods of the contract depend on nothing else.
LEMMA SamePods ==
  ASSUME NEW S \in SUBSET Labelled,
         \A h \in S : StateOf(h)' = StateOf(h),
         \A h \in S : Live(h)'.ports = Live(h).ports
  PROVE  \A h \in S : PodOf(h)' = PodOf(h)
<1> SUFFICES ASSUME NEW h \in S
             PROVE  PodOf(h)' = PodOf(h)
  OBVIOUS
<1>1. StateOf(h)' = StateOf(h)
  OBVIOUS
<1>2. Live(h)'.ports = Live(h).ports
  OBVIOUS
<1> QED BY <1>1, <1>2, Zenon DEF PodOf

\* What a step changes of the state the contract is about: the life of the
\* process, one pod, or one container.
LEMMA OneThingAtATime ==
  ASSUME TypeOK, [Next]_vars
  PROVE  \/ Halt \/ Boot \/ Restore \/ Serve
         \/ UNCHANGED <<rep, containers, view, terminating>>
         \/ UNCHANGED <<rep, containers>> /\ \E h \in Handles : Quiet(h)
         \/ UNCHANGED <<rep, containers>> /\ \E w \in Workers : Birth(w)
         \/ /\ UNCHANGED <<rep, view, terminating>>
            /\ \E w \in Workers : \/ AddContainer(w) \/ RemoveContainer(w)
                                  \/ LoadTasks(w)
                                  \/ hdl[w] \in Handles /\ ReadPod(hdl[w])
<1> USE DEF clusterVars, clientVars, memoryVars, workerVars
<1>t. /\ pc \in [Workers -> LabelSet]
      /\ hdl \in [Workers -> Handles \cup {NoHandle}]
      /\ \A w \in Workers : (hdl[w] \in Handles) <=> (pc[w] # "idle")
  BY ClientTypes
<1>1. ASSUME NEW w \in Workers, WorkerStep(w)
      PROVE  \/ UNCHANGED <<rep, containers, view, terminating>>
             \/ UNCHANGED <<rep, containers>> /\ \E h \in Handles : Quiet(h)
             \/ UNCHANGED <<rep, containers>> /\ Birth(w)
             \/ /\ UNCHANGED <<rep, view, terminating>>
                /\ \/ AddContainer(w) \/ RemoveContainer(w)
                   \/ LoadTasks(w)
                   \/ hdl[w] \in Handles /\ ReadPod(hdl[w])
  <2>0. UNCHANGED rep
    BY <1>1 DEF WorkerStep
  <2>1. CASE CreatePod(w)
    BY <1>t, <1>1, <2>1 DEF CreatePod, Step, Goto, Birth, ApiCreate, WorkerStep
  <2>2. CASE CreatePodLost(w)
    BY <1>t, <1>1, <2>2 DEF CreatePodLost, Leave, Goto, Birth, ApiCreate,
                            WorkerStep
  <2>3. CASE CreateTimeout(w)
    BY <1>t, <2>0, <2>3 DEF CreateTimeout, Quiet
  <2>4. CASE DeleteAccepted(w) \/ DeleteFails(w)
    BY <1>t, <2>0, <2>4 DEF DeleteAccepted, DeleteFails, DestroyFails, Step,
                            Quiet
  <2>5. CASE PollPod(w) \/ PodRunning(w)
    BY <1>t, <2>0, <2>5 DEF PollPod, PodRunning, Step
  <2> QED BY <1>1, <2>0, <2>1, <2>2, <2>3, <2>4, <2>5
          DEF WorkerStep, CreateStep, AllocatePort, AllocateFails, PortsReady,
              ImageReady, ImageFails, SetProperties, AddContainer, AddFails,
              AddRefused, CreatePodFails, WaitFails, LoadTasks,
              LoadTasksFails, SetState, DestroyStep, DeleteNotFound, PodGone,
              DeleteTimeout, DestroyFails, ReleasePort, RemoveContainer,
              DestroyKeySpace
<1>2. ASSUME NEW w \in Workers, CallStep(w), ~WorkerStep(w)
      PROVE  UNCHANGED <<rep, containers, view, terminating>>
  BY <1>2 DEF CallStep, SendResult, DestroyReturns, DestroyStray, StartCreate,
              StartDestroy, BeginCreate, BeginDestroy
<1>3. ASSUME NEW h \in Handles, NodeStep(h) \/ Evict(h)
      PROVE  UNCHANGED <<rep, containers>> /\ Quiet(h)
  BY <1>3 DEF NodeStep, Evict, Quiet
<1>4. ASSUME ProcessStep
      PROVE  \/ Halt \/ Boot \/ Restore \/ Serve
             \/ UNCHANGED <<rep, containers, view, terminating>>
  BY <1>4 DEF ProcessStep, CleanupFails, Crash, ReceiveResult
<1>5. ASSUME NEW h \in Annotated, UseProperties(h)
      PROVE  UNCHANGED <<rep, containers, view, terminating>>
  BY <1>5 DEF UseProperties, SetProperty, RemoveProperty
<1>6. CASE UNCHANGED vars
  BY <1>6 DEF vars
<1> QED BY <1>1, <1>2, <1>3, <1>4, <1>5, <1>6 DEF Next

\* A quiet step of the cluster is a stutter of the contract, or a pod is
\* condemned, or it goes.
LEMMA QuietImplements ==
  ASSUME TypeOK, HistoryInv, NEW b \in Handles, Quiet(b),
         UNCHANGED <<rep, containers>>
  PROVE  \/ UNCHANGED Garden!specVars
         \/ \E h \in Labelled : Garden!Condemn(h) \/ Garden!Disappear(h)
<1>0. Labelled \subseteq Handles /\ ClusterTypeOK /\ view \in [Handles -> Views]
      /\ terminating \subseteq Handles
  BY LabelledAssumption DEF TypeOK, ClusterTypeOK, Views
<1>1. /\ \A g \in Handles \ {b} : view'[g] = view[g]
      /\ \A g \in Handles \ {b} : g \in terminating' <=> g \in terminating
  BY <1>0 DEF Quiet, ApiDelete, ApiForceDelete, WatchEvent, StartPod, FailPod,
              RemovePod, Publish
<1>2. \A g \in Labelled \ {b} : PodOf(g)' = PodOf(g)
  <2>1. \A g \in Labelled \ {b} : /\ StateOf(g)' = StateOf(g)
                                  /\ Live(g)'.ports = Live(g).ports
    BY <1>0, <1>1 DEF StateOf, PodExists, Live
  <2> QED BY <2>1, SamePods
<1>3. Tracked' = Tracked
  BY DEF Tracked, Exists
<1>4. CASE b \in Labelled => PodOf(b)' = PodOf(b)
  <2>1. Pods' = Pods
    BY <1>2, <1>4 DEF Pods
  <2> QED BY <1>3, <2>1 DEF Garden!specVars, Pods, PodOf, StateOf
<1>5. CASE b \in Labelled
  <2>0. KeepsHistory(b) /\ KeepsLife(b)
    BY <1>0, QuietHistory, QuietLife
  <2>1. CASE PodExists(b)' /\ (b \in terminating' <=> b \in terminating)
    <3>1. StateOf(b)' = StateOf(b) /\ Live(b)'.ports = Live(b).ports
      BY <2>0, <2>1 DEF KeepsHistory, StateOf
    <3>2. PodOf(b)' = PodOf(b)
      BY <1>5, <3>1, SamePods
    <3> QED BY <1>4, <3>2
  <2>2. CASE ~PodExists(b)' /\ ~PodExists(b)
    <3>1. StateOf(b)' = StateOf(b)
      BY <2>2 DEF StateOf
    <3>2. Live(b)'.ports = Live(b).ports
      BY <2>0, <2>2 DEF KeepsHistory, HistoryInv, HistoryOK
    <3>3. PodOf(b)' = PodOf(b)
      BY <1>5, <3>1, <3>2, SamePods
    <3> QED BY <1>4, <3>3
  <2>3. CASE PodExists(b)' /\ ~(b \in terminating' <=> b \in terminating)
    <3>1. /\ StateOf(b) = "standing" /\ StateOf(b)' = "going"
          /\ Live(b)'.ports = Live(b).ports
      BY <2>0, <2>3 DEF KeepsHistory, KeepsLife, StateOf
    <3>2. /\ PodOf(b)' = [PodOf(b) EXCEPT !.state = "going"]
          /\ PodOf(b).state = "standing"
      BY <3>1 DEF PodOf
    <3>3. /\ Pods' = [Pods EXCEPT ![b].state = "going"]
          /\ Pods[b].state = "standing"
      BY <1>2, <1>5, <3>2 DEF Pods
    <3>4. Garden!Condemn(b)
      BY <1>3, <3>3 DEF Garden!Condemn, Pods, PodOf, StateOf
    <3> QED BY <1>5, <3>4
  <2>4. CASE ~PodExists(b)' /\ PodExists(b)
    <3>1. /\ StateOf(b)' = "none" /\ StateOf(b) # "none"
          /\ Live(b)'.ports = {}
      BY <2>0, <2>4 DEF KeepsHistory, StateOf
    <3>2. /\ PodOf(b)' = [state |-> "none", ports |-> {}]
          /\ PodOf(b).state # "none"
      BY <3>1 DEF PodOf
    <3>3. /\ Pods' = [Pods EXCEPT ![b] = [state |-> "none", ports |-> {}]]
          /\ Pods[b].state # "none"
      BY <1>2, <1>5, <3>2 DEF Pods
    <3>4. Garden!Disappear(b)
      BY <1>3, <3>3 DEF Garden!Disappear, Garden!NoPod, Pods, PodOf, StateOf
    <3> QED BY <1>5, <3>4
  <2> QED BY <2>1, <2>2, <2>3, <2>4
<1> QED BY <1>4, <1>5

\* The creation of a pod is its appearance in the contract, or the cache never
\* sees the pod.
LEMMA BirthImplements ==
  ASSUME TypeOK, CleanInv, TableInv, HistoryInv, PodInv, PortInv,
         NEW w \in Workers, Birth(w), NEW b \in Handles, b = hdl[w]
  PROVE  \/ UNCHANGED Garden!specVars
         \/ b \in Labelled /\ Garden!Appear(b)
<1>0. Labelled \subseteq Handles
  BY LabelledAssumption
<1>1. /\ PodExists(b)' /\ ~PodExists(b)
      /\ Live(b)'.ports = containers[b].ports
      /\ \A g \in Handles \ {b} : view'[g] = view[g]
      /\ terminating' = terminating /\ b \notin terminating
  BY BirthHistory, BirthFacts DEF PodInv, Ends
<1>2. \A g \in Labelled \ {b} : PodOf(g)' = PodOf(g)
  <2>1. \A g \in Labelled \ {b} : /\ StateOf(g)' = StateOf(g)
                                  /\ Live(g)'.ports = Live(g).ports
    BY <1>0, <1>1 DEF StateOf, PodExists, Live
  <2> QED BY <2>1, SamePods
<1>5. rep = "serving" /\ rep' = rep /\ b \in Tracked /\ Tracked' = Tracked
  <2>1. rep = "serving" /\ rep' = rep /\ containers' = containers
    BY DEF Birth, CleanInv, CreateSteps
  <2>2. b \in Tracked
    BY ClientTypes DEF Birth, TableInv, AddedOnce, After, Tracked, Exists
  <2> QED BY <2>1, <2>2 DEF Tracked, Exists
<1>6. CASE b \notin Labelled
  <2>1. Pods' = Pods
    BY <1>2, <1>6 DEF Pods
  <2> QED BY <1>5, <2>1 DEF Garden!specVars, Pods, PodOf, StateOf
<1>7. CASE b \in Labelled
  <2>1. Pods' = [Pods EXCEPT ![b] = Pods'[b]]
    BY <1>2, <1>7 DEF Pods
  <2>2. StateOf(b)' = "standing" /\ StateOf(b) = "none"
    BY <1>1 DEF StateOf
  <2>3. /\ Pods'[b].state = "standing" /\ Pods[b].state = "none"
        /\ Pods'[b].ports = containers[b].ports \cap Pool
    BY <1>1, <1>7, <2>2 DEF Pods, PodOf
  <2>4. \A g \in Labelled \ {b} : Pods[g].state = "standing" =>
          Pods[g].ports \cap Pods'[b].ports = {}
    <3> SUFFICES ASSUME NEW g \in Labelled \ {b}, Pods[g].state = "standing"
                 PROVE  Pods[g].ports \cap Pods'[b].ports = {}
      OBVIOUS
    <3>1. Standing(g) /\ Pods[g].ports = Live(g).ports \cap Pool
      BY StateFacts
    <3>2. Live(g).ports \cap containers[b].ports \cap Pool = {}
      BY <3>1, BirthApart
    <3> QED BY <2>3, <3>1, <3>2
  <2>5. Garden!Appear(b)
    BY <1>5, <1>7, <2>1, <2>3, <2>4 DEF Garden!Appear, Pods, PodOf, StateOf
  <2> QED BY <1>7, <2>5
<1> QED BY <1>6, <1>7

\* A step that writes to the table is a stutter of the contract, or one
\* container becomes known or is forgotten.
LEMMA TableImplements ==
  ASSUME TypeOK, CleanInv, TableInv, PodInv,
         UNCHANGED <<rep, view, terminating>>, NEW w \in Workers,
         \/ AddContainer(w) \/ RemoveContainer(w) \/ LoadTasks(w)
         \/ hdl[w] \in Handles /\ ReadPod(hdl[w])
  PROVE  \/ UNCHANGED Garden!specVars
         \/ \E b \in Labelled : Garden!Learn(b) \/ Garden!Forget(b)
<1>t. /\ containers \in [Handles -> Container]
      /\ pc \in [Workers -> LabelSet]
      /\ \A v \in Workers : (hdl[v] \in Handles) <=> (pc[v] # "idle")
  BY ClientTypes
<1>0. Pods' = Pods
  <2>1. \A h \in Labelled : StateOf(h)' = StateOf(h) /\ Live(h)' = Live(h)
    BY DEF StateOf, PodExists, Live
  <2>2. \A h \in Labelled : PodOf(h)' = PodOf(h)
    BY <2>1, SamePods
  <2> QED BY <2>2 DEF Pods
<1>s. ASSUME Tracked' \cap Labelled = Tracked \cap Labelled
      PROVE  UNCHANGED Garden!specVars
  BY <1>0, <1>s DEF Garden!specVars, Pods, PodOf, StateOf
<1>1. CASE AddContainer(w)
  <2>1. /\ hdl[w] \in Handles /\ ~Exists(hdl[w]) /\ pc[w] = "add"
        /\ containers' = [containers EXCEPT ![hdl[w]] = FreshContainer(held[w])]
        /\ FreshContainer(held[w]).kind = "fresh"
    BY <1>t, <1>1 DEF AddContainer, Step, Add, FreshContainer
  <2>2. hdl[w] \notin Tracked /\ Tracked' = Tracked \cup {hdl[w]}
    BY <1>t, <2>1 DEF Tracked, Exists
  <2>3. rep = "serving"
    BY <2>1 DEF CleanInv, CreateSteps
  <2>4. CASE hdl[w] \in Labelled
    <3>1. Tracked' \cap Labelled = (Tracked \cap Labelled) \cup {hdl[w]}
      BY <2>2, <2>4
    <3>2. Garden!Learn(hdl[w])
      BY <1>0, <2>2, <2>3, <3>1 DEF Garden!Learn, Pods, PodOf, StateOf
    <3> QED BY <2>4, <3>2
  <2>5. CASE hdl[w] \notin Labelled
    BY <1>s, <2>2, <2>5
  <2> QED BY <2>4, <2>5
<1>2. CASE RemoveContainer(w)
  <2>1. /\ hdl[w] \in Handles /\ pc[w] = "release"
        /\ containers' = [containers EXCEPT ![hdl[w]] = NoContainer]
        /\ NoContainer.kind = "none"
    BY <1>t, <1>2 DEF RemoveContainer, Step, Remove, NoContainer
  <2>2. Tracked' = Tracked \ {hdl[w]}
    BY <1>t, <2>1 DEF Tracked, Exists
  <2>3. ~Standing(hdl[w])
    BY <2>1 DEF PodInv
  <2>4. CASE hdl[w] \in Labelled /\ hdl[w] \in Tracked
    <3>1. Pods[hdl[w]].state # "standing"
      BY <2>3, <2>4, StateFacts
    <3>2. /\ Tracked' \cap Labelled = (Tracked \cap Labelled) \ {hdl[w]}
          /\ hdl[w] \in Tracked \cap Labelled
      BY <2>2, <2>4
    <3>3. Garden!Forget(hdl[w])
      BY <1>0, <3>1, <3>2 DEF Garden!Forget, Pods, PodOf, StateOf
    <3> QED BY <2>4, <3>3
  <2>5. CASE ~(hdl[w] \in Labelled /\ hdl[w] \in Tracked)
    <3>1. Tracked' \cap Labelled = Tracked \cap Labelled
      BY <2>2, <2>5
    <3> QED BY <1>s, <3>1
  <2> QED BY <2>4, <2>5
<1>3. CASE \A h \in Handles : containers'[h].kind = containers[h].kind
  <2>1. DOMAIN containers' = DOMAIN containers
    BY <1>t DEF AddContainer, Add, RemoveContainer, Remove, LoadTasks, ReadPod
  <2>2. Tracked' = Tracked
    BY <1>t, <1>3, <2>1 DEF Tracked, Exists
  <2> QED BY <1>s, <2>2
<1>4. CASE LoadTasks(w)
  BY <1>3, <1>4, LoadTasksEffect
<1>5. CASE hdl[w] \in Handles /\ ReadPod(hdl[w])
  BY <1>3, <1>5, ReadPodEffect
<1> QED BY <1>1, <1>2, <1>4, <1>5

\* The life of the process in the contract.
LEMMA LifeImplements ==
  ASSUME TypeOK, CleanInv, StrayInv, Halt \/ Boot \/ Restore \/ Serve
  PROVE  \/ UNCHANGED Garden!specVars
         \/ Garden!Recover \/ Garden!BeginService \/ Garden!EndProcess
<1> USE DEF clusterVars, clientVars, memoryVars, workerVars
<1>t. /\ containers \in [Handles -> Container] /\ ClusterTypeOK
      /\ Labelled \subseteq Handles
  BY ClientTypes, LabelledAssumption DEF TypeOK
<1>0. Pods' = Pods
  <2>0. terminating' = terminating
    BY DEF Halt, Boot, CacheSync, Restore, Serve
  <2>1. \A h \in Labelled : Live(h)' = Live(h)
    <3>1. CASE UNCHANGED view
      BY <3>1 DEF Live
    <3>2. CASE Boot
      <4> SUFFICES ASSUME NEW h \in Handles
                   PROVE  Live(h)' = Live(h)
        BY <1>t
      <4>1. view'[h] = <<Live(h)>> /\ Live(h) \in Version
        BY <1>t, <3>2, ClusterType DEF Boot, CacheSync
      <4> QED BY <4>1, SingletonFacts DEF Live
    <3> QED BY <3>1, <3>2 DEF Halt, Restore, Serve
  <2>2. \A h \in Labelled : StateOf(h)' = StateOf(h)
    BY <2>0, <2>1 DEF StateOf, PodExists
  <2>3. \A h \in Labelled : PodOf(h)' = PodOf(h)
    BY <2>1, <2>2, SamePods
  <2> QED BY <2>3 DEF Pods
<1>1. CASE Halt
  <2>1. Tracked' = {} /\ rep' # "serving"
    BY <1>1 DEF Halt, Tracked, Exists, NoContainer
  <2> QED BY <1>0, <2>1 DEF Garden!EndProcess, Pods, PodOf, StateOf
<1>2. CASE Boot
  <2>1. Tracked' = Tracked /\ rep # "serving" /\ rep' # "serving"
    BY <1>2 DEF Boot, Tracked, Exists
  <2> QED BY <1>0, <2>1 DEF Garden!specVars, Pods, PodOf, StateOf
<1>3. CASE Restore
  <2>1. rep = "starting" /\ rep' = "cleanup"
    BY <1>3 DEF Restore
  <2>2. Tracked = {}
    BY <1>t, <2>1 DEF StrayInv, Tracked
  <2>3. {h \in Labelled : Pods[h].state # "none"} \subseteq Tracked' \cap Labelled
    <3> SUFFICES ASSUME NEW h \in Labelled, Pods[h].state # "none"
                 PROVE  h \in Tracked'
      OBVIOUS
    <3>1. PodExists(h) /\ AbsentFinal(view[h])
      BY <2>1, StateFacts DEF CleanInv, Startup
    <3>2. InCache(h)
      BY <3>1, FinalFacts
    <3>3. DOMAIN containers' = Handles /\ containers'[h].kind # "none"
      BY <1>t, <1>3, <3>2 DEF Restore, RestoredContainers, RestoredContainer
    <3> QED BY <1>t, <3>3 DEF Tracked, Exists
  <2> QED BY <1>0, <2>1, <2>2, <2>3 DEF Garden!Recover, Pods, PodOf, StateOf
<1>4. CASE Serve
  <2>1. /\ rep = "cleanup" /\ rep' = "serving" /\ Tracked' = Tracked
        /\ \A h \in Handles : stray[h] = "none"
    BY <1>4 DEF Serve, Tracked, Exists
  <2>2. Tracked = {}
    BY <1>t, <2>1 DEF StrayInv, Tracked
  <2>3. \A h \in Labelled : Pods[h].state = "none"
    <3>1. \A h \in Labelled : ~PodExists(h)
      BY <1>t, <2>1 DEF CleanInv
    <3> QED BY <3>1, StateFacts
  <2> QED BY <1>0, <2>1, <2>2, <2>3
          DEF Garden!BeginService, Pods, PodOf, StateOf
<1> QED BY <1>1, <1>2, <1>3, <1>4

\* When no two pods are made under one handle, containers are destroyed once
\* at a time and fixed ports are outside the pool: the rep with its cache, port
\* manager, races, failing and lost calls and crashes implements the contract
\* for the pods its cache can see.
THEOREM ContractKept ==
  ASSUME HandlesAreFresh, OneDestroy, FixedOutsidePool
  PROVE  Spec => KeepsContract
<1>1. Init => Garden!SpecInit
  <2> SUFFICES ASSUME Init PROVE Garden!SpecInit
    OBVIOUS
  <2>1. /\ \A h \in Handles : view[h] = <<Gone(0)>> /\ ~Exists(h)
        /\ rep = "down" /\ Tracked = {} /\ Labelled \subseteq Handles
    BY LabelledAssumption
    DEF Init, ClientInit, InitMemory, ClusterInit, Exists, Tracked, NoContainer
  <2>2. \A h \in Labelled : Live(h) = Gone(0)
    BY <2>1, SingletonFacts DEF Live, Gone, Version, Phases
  <2>3. \A h \in Labelled : StateOf(h) = "none" /\ Live(h).ports = {}
    BY <2>2 DEF StateOf, PodExists, Gone
  <2>4. \A h \in Labelled : PodOf(h) = [state |-> "none", ports |-> {}]
    BY <2>3 DEF PodOf
  <2>5. Pods = [h \in Labelled |-> [state |-> "none", ports |-> {}]]
    BY <2>4 DEF Pods
  <2> QED BY <2>1, <2>5 DEF Garden!SpecInit, Garden!NoPod, Pods, PodOf, StateOf
<1>2. ASSUME TypeOK, CleanInv, TableInv, HistoryInv, PodInv, StrayInv, PortInv,
             [Next]_vars
      PROVE  [Garden!SpecNext]_(Garden!specVars)
  <2>2. CASE Halt \/ Boot \/ Restore \/ Serve
    BY <1>2, <2>2, LifeImplements DEF Garden!SpecNext
  <2>3. CASE UNCHANGED <<rep, containers, view, terminating>>
    <3>1. \A h \in Labelled : PodOf(h)' = PodOf(h)
      <4>1. \A h \in Labelled : StateOf(h)' = StateOf(h) /\ Live(h)' = Live(h)
        BY <2>3 DEF StateOf, PodExists, Live
      <4> QED BY <4>1, SamePods
    <3>2. Pods' = Pods /\ Tracked' = Tracked
      BY <2>3, <3>1 DEF Pods, Tracked, Exists
    <3> QED BY <2>3, <3>2 DEF Garden!specVars, Pods, PodOf, StateOf
  <2>4. ASSUME UNCHANGED <<rep, containers>>, NEW h \in Handles, Quiet(h)
        PROVE  [Garden!SpecNext]_(Garden!specVars)
    BY <1>2, <2>4, QuietImplements DEF Garden!SpecNext
  <2>5. ASSUME NEW w \in Workers, Birth(w)
        PROVE  [Garden!SpecNext]_(Garden!specVars)
    <3>1. hdl[w] \in Handles
      BY <2>5 DEF Birth
    <3> QED BY <1>2, <2>5, <3>1, BirthImplements DEF Garden!SpecNext
  <2>6. ASSUME UNCHANGED <<rep, view, terminating>>, NEW w \in Workers,
               \/ AddContainer(w) \/ RemoveContainer(w) \/ LoadTasks(w)
               \/ hdl[w] \in Handles /\ ReadPod(hdl[w])
        PROVE  [Garden!SpecNext]_(Garden!specVars)
    BY <1>2, <2>6, TableImplements DEF Garden!SpecNext
  <2> QED BY <1>2, <2>2, <2>3, <2>4, <2>5, <2>6, OneThingAtATime
<1>3. /\ TypeOK /\ CleanInv /\ TableInv /\ HistoryInv /\ PodInv /\ StrayInv
      /\ PortInv /\ [Next]_vars
      => [Garden!SpecNext]_(Garden!specVars)
  BY <1>2
<1> QED BY <1>1, <1>3, TypeCorrect, CleanInvariant, TableInvariant,
           HistoryInvariant, PodInvariant, StrayInvariant, PortInvariant, PTL
        DEF Spec, KeepsContract, Garden!Spec

(***************************************************************************)
(* Ports that nobody gives back                                            *)
(***************************************************************************)

\* A Destroy that has not found its pod gone yet holds every port of the
\* container, and so will give all of them back.
DestroyHolds ==
  \A w \in Workers : pc[w] \in {"delete", "gone"} =>
    containers[hdl[w]].ports \subseteq held[w]

\* How a Create ends before its container is in the table.
LEMMA LeavesBefore ==
  ASSUME TypeOK, [Next]_vars, NEW w \in Workers, pc[w] \in Before
  PROVE  \/ pc'[w] \in Before /\ held[w] \subseteq held'[w]
         \/ AddContainer(w) \/ AllocateFails(w) \/ ImageFails(w) \/ AddFails(w)
         \/ Halt
<1> USE DEF Before
<1>t. pc \in [Workers -> LabelSet] /\ held \in [Workers -> SUBSET Nat]
  BY ClientTypes
<1>1. ASSUME NEW v \in Workers, CallStep(v), v # w
      PROVE  pc'[w] = pc[w] /\ held'[w] = held[w]
  <2>1. CASE CreateStep(v)
    BY <1>t, <1>1, <2>1
    DEF CreateStep, AllocatePort, AllocateFails, PortsReady, ImageReady,
        ImageFails, SetProperties, AddContainer, AddFails, CreatePod,
        CreatePodFails, CreatePodLost, PollPod, PodRunning, CreateTimeout,
        WaitFails, LoadTasks, LoadTasksFails, SetState, Step, Goto, Leave,
        workerVars
  <2>2. CASE DestroyStep(v)
    BY <1>t, <1>1, <2>2
    DEF DestroyStep, DeleteAccepted, DeleteNotFound, DeleteFails, DestroyFails,
        PodGone, DeleteTimeout, ReleasePort, RemoveContainer, DestroyKeySpace,
        Step, Goto
  <2> QED BY <1>t, <1>1, <2>1, <2>2
          DEF CallStep, WorkerStep, SendResult, DestroyReturns, DestroyStray,
              StartCreate, StartDestroy, BeginCreate, BeginDestroy, Leave, Goto
<1>2. CASE CallStep(w)
  <2>1. CASE CreateStep(w)
    BY <1>t, <2>1
    DEF CreateStep, AllocatePort, PortsReady, ImageReady, SetProperties,
        CreatePod, CreatePodFails, CreatePodLost, PollPod, PodRunning,
        CreateTimeout, WaitFails, LoadTasks, LoadTasksFails, SetState, Step,
        Goto, workerVars
  <2>2. ~DestroyStep(w)
    BY DestroyMoves DEF DestroySteps
  <2> QED BY <1>2, <2>1, <2>2
          DEF CallStep, WorkerStep, SendResult, DestroyReturns, DestroyStray,
              StartCreate, StartDestroy, BeginCreate, BeginDestroy, Results
<1> QED BY <1>1, <1>2
        DEF Next, vars, ProcessStep, Boot, Restore, Serve, CleanupFails, Crash,
            ReceiveResult, NodeStep, Evict, UseProperties, SetProperty,
            RemoveProperty, clientVars, memoryVars, workerVars

\* Every step lets a Destroy hold all ports of its container.
LEMMA DestroyHoldsStep ==
  ASSUME TypeOK, CleanInv, TableInv, DestroyHolds, [Next]_vars
  PROVE  DestroyHolds'
<1>t. /\ containers \in [Handles -> Container]
      /\ pc \in [Workers -> LabelSet]
      /\ hdl \in [Workers -> Handles \cup {NoHandle}]
      /\ held \in [Workers -> SUBSET Nat]
      /\ \A v \in Workers : (hdl[v] \in Handles) <=> (pc[v] # "idle")
  BY ClientTypes
<1> SUFFICES ASSUME NEW w \in Workers, pc'[w] \in {"delete", "gone"}
             PROVE  containers'[hdl'[w]].ports \subseteq held'[w]
  BY DEF DestroyHolds
<1>1. CASE pc'[w] = pc[w] /\ hdl'[w] = hdl[w] /\ held'[w] = held[w]
  <2>1. PICK h \in Handles : h = hdl[w]
    BY <1>t, <1>1
  <2>2. containers[h].ports \subseteq held[w] /\ pc[w] \in DestroySteps
    BY <1>1, <2>1 DEF DestroyHolds, DestroySteps
  <2>3. ~Halt /\ ~Restore
    BY <1>1, <2>2 DEF Halt, Restore, CleanInv, DestroySteps
  <2>4. ASSUME NEW v \in Workers, hdl[v] = h, pc[v] \in {"add", "tasks", "wait"}
        PROVE  FALSE
    BY <2>1, <2>2, <2>4 DEF TableInv, Discipline, CreateSteps, DestroySteps
  <2>5. ASSUME NEW v \in Workers, hdl[v] = h, RemoveContainer(v)
        PROVE  containers'[h].ports = {}
    BY <1>t, <2>5 DEF RemoveContainer, Remove, NoContainer
  <2>6. containers'[h] = containers[h] \/ containers'[h].ports = {}
    BY <2>3, <2>4, <2>5, TableWrites DEF TableWrite, AddContainer, LoadTasks, Step
  <2> QED BY <1>1, <2>1, <2>2, <2>6
<1>2. CASE CreateStep(w) /\ pc'[w] # "idle"
  BY <1>t, <1>2
  DEF CreateStep, AllocatePort, AllocateFails, PortsReady, ImageReady,
      ImageFails, SetProperties, AddContainer, AddFails, CreatePod,
      CreatePodFails, CreatePodLost, PollPod, PodRunning, CreateTimeout,
      WaitFails, LoadTasks, LoadTasksFails, SetState, Step, Goto, Leave,
      workerVars
<1>3. CASE DestroyStep(w)
  <2>1. pc[w] = "delete" /\ UNCHANGED <<hdl, held, containers>>
    BY <1>t, <1>3
    DEF DestroyStep, DeleteAccepted, DeleteNotFound, DeleteFails,
        DestroyFails, PodGone, DeleteTimeout, ReleasePort, RemoveContainer,
        DestroyKeySpace, Step, Goto
  <2> QED BY <2>1 DEF DestroyHolds
<1>4. ASSUME NEW h \in Handles, BeginCreate(w, h) \/ BeginDestroy(w, h)
      PROVE  containers'[hdl'[w]].ports \subseteq held'[w]
  BY <1>t, <1>4 DEF BeginCreate, BeginDestroy, Goto
<1> QED BY <1>1, <1>2, <1>3, <1>4, Moves DEF Move

\* A Destroy holds all ports of its container throughout.
LEMMA DestroyHoldsInvariant == Spec => []DestroyHolds
<1>1. Init => DestroyHolds
  BY DEF Init, ClientInit, InitMemory, DestroyHolds
<1> QED BY <1>1, DestroyHoldsStep, TypeCorrect, CleanInvariant, TableInvariant,
           PTL DEF Spec

\* A Create that has collected a port keeps it, puts it into its container, or
\* fails before the container is in the table.
LEMMA CollectedEnds ==
  ASSUME TypeOK, TableInv, [Next]_vars, ~Halt, NEW w \in Workers,
         NEW p \in Collected(w)
  PROVE  \/ InUse(p)'
         \/ /\ p \in held[w] /\ pc[w] \in {"netin", "image", "add"}
            /\ pc'[w] = "idle"
<1>t. /\ containers \in [Handles -> Container]
      /\ pc \in [Workers -> LabelSet]
      /\ hdl \in [Workers -> Handles \cup {NoHandle}]
      /\ held \in [Workers -> SUBSET Nat]
      /\ \A v \in Workers : (hdl[v] \in Handles) <=> (pc[v] # "idle")
  BY ClientTypes
<1>1. pc[w] \in Before /\ p \in held[w]
  BY DEF Collected, Before
<1>2. CASE pc'[w] \in Before /\ held[w] \subseteq held'[w]
  <2>1. p \in Collected(w)'
    BY <1>1, <1>2 DEF Collected, Before
  <2> QED BY <2>1 DEF InUse
<1>3. CASE AllocateFails(w) \/ ImageFails(w) \/ AddFails(w)
  BY <1>t, <1>1, <1>3 DEF AllocateFails, ImageFails, AddFails, Leave, Goto
<1>4. CASE AddContainer(w)
  <2>1. /\ pc[w] = "add" /\ pc' = [pc EXCEPT ![w] = "create"] /\ hdl' = hdl
        /\ containers' = [containers EXCEPT ![hdl[w]] = FreshContainer(held[w])]
        /\ FreshContainer(held[w]).ports = held[w]
    BY <1>4 DEF AddContainer, Add, Step, Goto, FreshContainer
  <2>2. PICK b \in Handles : b = hdl[w]
    BY <1>t, <2>1
  <2>3. p \in containers'[b].ports
    BY <1>t, <1>1, <2>1, <2>2
  <2>4. \A v \in Workers : hdl'[v] = b => pc'[v] # "release"
    BY <1>t, <2>1, <2>2 DEF TableInv, Discipline, CreateSteps, DestroySteps
  <2>5. p \in Kept(b)'
    BY <2>3, <2>4 DEF Kept
  <2> QED BY <2>5 DEF InUse
<1> QED BY <1>1, <1>2, <1>3, <1>4, LeavesBefore

\* A container keeps a port that stays allocated.
LEMMA KeptStays ==
  ASSUME TypeOK, TableInv, HistoryInv, StrayInv, DestroyHolds, [Next]_vars,
         ~Halt, ~Restore, NEW h \in Handles, NEW p \in Kept(h), p \in allocated'
  PROVE  p \in Kept(h)'
<1>t. /\ containers \in [Handles -> Container]
      /\ pc \in [Workers -> LabelSet]
      /\ held \in [Workers -> SUBSET Nat]
  BY ClientTypes
<1>k. /\ p \in containers[h].ports
      /\ \A w \in Workers : hdl[w] = h /\ pc[w] = "release" => p \in held[w]
  BY DEF Kept
<1>1. containers'[h].ports = containers[h].ports
  <2>1. ASSUME NEW v \in Workers, hdl[v] = h, AddContainer(v)
        PROVE  FALSE
    BY <1>k, <2>1 DEF AddContainer, Add, StrayInv
  <2>2. ASSUME NEW v \in Workers, hdl[v] = h, RemoveContainer(v)
        PROVE  FALSE
    BY <1>k, <2>2 DEF RemoveContainer, Step
  <2> QED BY <2>1, <2>2, LoadTasksEffect, ReadKeepsPorts, TableWrites
          DEF TableWrite
<1> SUFFICES ASSUME NEW w \in Workers, hdl'[w] = h, pc'[w] = "release"
             PROVE  p \in held'[w]
  BY <1>k, <1>1 DEF Kept
<1>2. CASE pc'[w] = pc[w] /\ hdl'[w] = hdl[w] /\ held'[w] = held[w]
  BY <1>k, <1>2
<1>3. CASE DeleteNotFound(w) \/ PodGone(w)
  <2>1. hdl[w] = h /\ pc[w] \in {"delete", "gone"} /\ held'[w] = held[w]
    BY <1>3 DEF DeleteNotFound, PodGone, Step
  <2> QED BY <1>k, <2>1 DEF DestroyHolds
<1>4. CASE ReleasePort(w)
  <2>1. PICK q \in held[w] : /\ Release(q)
                             /\ held' = [held EXCEPT ![w] = @ \ {q}]
    BY <1>4 DEF ReleasePort
  <2>2. hdl[w] = h /\ pc[w] = "release" /\ p # q
    BY <1>4, <2>1 DEF ReleasePort, Release
  <2> QED BY <1>t, <1>k, <2>1, <2>2
<1>5. CASE DestroyStep(w)
  BY <1>t, <1>3, <1>4, <1>5
  DEF DestroyStep, DeleteAccepted, DeleteFails, DestroyFails, DeleteTimeout,
      RemoveContainer, DestroyKeySpace, Step, Goto
<1>6. CASE CreateStep(w)
  <2>1. pc[w] \in CreateSteps
    BY <1>6, CreateWrites
  <2> QED BY <1>3, <2>1, Arrivals DEF CreateSteps
<1> QED BY <1>2, <1>5, <1>6, Moves DEF Move

\* When no two pods are made under one handle: the only port that stays
\* allocated without a user is one that a Create had collected when it failed
\* before its container was in the table, whatever the callers overlap and
\* whatever calls fail.
THEOREM OnlyEarlyStranding ==
  ASSUME HandlesAreFresh
  PROVE  Spec => OnlyEarlyFailuresStrand
<1> DEFINE Early(p) == \E w \in Workers : /\ p \in held[w]
                                          /\ pc[w] \in {"netin", "image", "add"}
                                          /\ pc'[w] = "idle"
<1>1. ASSUME TypeOK, TableInv, HistoryInv, StrayInv, DestroyHolds, [Next]_vars,
             NEW p \in allocated \cap allocated', InUse(p), ~InUse(p)'
      PROVE  Early(p)
  <2>1. ~Halt /\ ~Restore
    BY <1>1 DEF Halt, Restore
  <2>2. ASSUME NEW w \in Workers, p \in Collected(w)
        PROVE  Early(p)
    BY <1>1, <2>1, <2>2, CollectedEnds
  <2>3. ASSUME NEW h \in Handles, p \in Kept(h)
        PROVE  FALSE
    <3>1. p \in Kept(h)'
      BY <1>1, <2>1, <2>3, KeptStays
    <3> QED BY <1>1, <3>1 DEF InUse
  <2> QED BY <1>1, <2>2, <2>3 DEF InUse
<1>2. TypeOK /\ TableInv /\ HistoryInv /\ StrayInv /\ DestroyHolds /\ [Next]_vars
      => [\A p \in allocated \cap allocated' :
            InUse(p) /\ ~InUse(p)' => Early(p)]_vars
  BY <1>1
<1> QED BY <1>2, TypeCorrect, TableInvariant, HistoryInvariant, StrayInvariant,
           DestroyHoldsInvariant, PTL DEF Spec, OnlyEarlyFailuresStrand
=============================================================================
