-------------------------------- MODULE Rep --------------------------------
(***************************************************************************)
(* The rep process around the garden client: start-up with a synchronised  *)
(* cache, restored containers and the clean-up of strays (NewClient,       *)
(* containerRestoreInfo, Initialize, destroyContainers), serving, and      *)
(* crashes, after which only the cluster's state is left.                  *)
(***************************************************************************)
EXTENDS GardenClient

VARIABLES rep,      \* the life of the process
          stray     \* destroyContainers: what became of each container listed

vars == <<clientVars, rep, stray>>

RepStates == {"down", "starting", "cleanup", "serving"}

\* "none": not listed, or its result was received; "ok" and "failed" are
\* results that wait in errInfoChannel.
StrayStates == {"none", "queued", "running", "ok", "failed"}

Init == ClientInit /\ rep = "down" /\ stray = [h \in Handles |-> "none"]
-----------------------------------------------------------------------------
(* Start-up *)

\* A new process waits until its pod cache is in sync.
Boot ==
  /\ rep = "down"
  /\ rep' = "starting"
  /\ CacheSync
  /\ UNCHANGED <<memoryVars, faults, stray>>

\* Mutant of RestoredContainers: only running pods are restored.
RestoredRunning == [h \in Handles |-> IF Cached(h).phase = "Running"
                                      THEN RestoredContainer(Cached(h).ports)
                                      ELSE NoContainer]

\* containerRestoreInfo: a container and an owner property for every pod in
\* the cache.  The port manager starts empty.
RestoredContainers == [h \in Handles |-> IF InCache(h)
                                         THEN RestoredContainer(Cached(h).ports)
                                         ELSE NoContainer]

RestoredProps == [h \in Handles |-> IF InCache(h) THEN {"owner"} ELSE {}]

\* Mutant of StraysToDestroy: the default state filter.
CreatedStrays == Containers("created")

\* executorContainers: the containers of this owner, in whatever state.
StraysToDestroy == Containers("all")

Restore ==
  /\ rep = "starting"
  /\ rep' = "cleanup"
  /\ containers' = RestoredContainers
  /\ props' = RestoredProps
  /\ allocated' = {}
  /\ stray' = [h \in Handles |-> IF h \in StraysToDestroy'
                                 THEN "queued" ELSE "none"]
  /\ UNCHANGED <<workerVars, clusterVars, faults>>

\* A worker of the deletion pool picks a stray.
DestroyStray(w, h) ==
  /\ rep = "cleanup"
  /\ stray[h] = "queued"
  /\ BeginDestroy(w, h)
  /\ stray' = [stray EXCEPT ![h] = "running"]
  /\ UNCHANGED rep

\* Mutant of SendResult: a failed Destroy sends nothing.
SendSuccess(w) ==
  /\ rep = "cleanup"
  /\ pc[w] \in Results
  /\ stray' = [stray EXCEPT ![hdl[w]] = IF pc[w] = "destroyed" THEN "ok" ELSE @]
  /\ Leave(w)
  /\ UNCHANGED <<allocated, containers, props, clusterVars, faults, rep>>

\* The Destroy of a stray has returned; its result goes into the channel.
SendResult(w) ==
  /\ rep = "cleanup"
  /\ pc[w] \in Results
  /\ stray' = [stray EXCEPT
                 ![hdl[w]] = IF pc[w] = "destroyed" THEN "ok" ELSE "failed"]
  /\ Leave(w)
  /\ UNCHANGED <<allocated, containers, props, clusterVars, faults, rep>>

ReceiveResult(h) ==
  /\ rep = "cleanup"
  /\ stray[h] = "ok"
  /\ stray' = [stray EXCEPT ![h] = "none"]
  /\ UNCHANGED <<clientVars, rep>>

\* Every result was received and none was an error.
Serve ==
  /\ rep = "cleanup"
  /\ \A h \in Handles : stray[h] = "none"
  /\ rep' = "serving"
  /\ UNCHANGED <<clientVars, stray>>

\* The process is gone and its memory with it.
Halt ==
  /\ rep' = "down"
  /\ stray' = [h \in Handles |-> "none"]
  /\ allocated' = {}
  /\ containers' = [h \in Handles |-> NoContainer]
  /\ props' = [h \in Handles |-> {}]
  /\ pc' = [w \in Workers |-> "idle"]
  /\ hdl' = [w \in Workers |-> NoHandle]
  /\ need' = [w \in Workers |-> 0]
  /\ held' = [w \in Workers |-> {}]
  /\ UNCHANGED clusterVars

\* The first error that is received ends Initialize, and main exits.
CleanupFails ==
  /\ rep = "cleanup"
  /\ \E h \in Handles : stray[h] = "failed"
  /\ Halt
  /\ UNCHANGED faults

\* A crash, or an error of another step of Initialize.
Crash == rep # "down" /\ Fault /\ Halt
-----------------------------------------------------------------------------
(* Serving *)

StartCreate(w, h) ==
  rep = "serving" /\ BeginCreate(w, h) /\ UNCHANGED <<rep, stray>>

StartDestroy(w, h) ==
  rep = "serving" /\ BeginDestroy(w, h) /\ UNCHANGED <<rep, stray>>

\* The executor holds the container and uses its properties.
UseProperties(h) ==
  /\ rep = "serving"
  /\ SetProperty(h) \/ RemoveProperty(h)
  /\ UNCHANGED <<rep, stray>>

\* A worker goes on with its call, in whatever phase the process is.
WorkerStep(w) == (CreateStep(w) \/ DestroyStep(w)) /\ UNCHANGED <<rep, stray>>

DestroyReturns(w) ==
  /\ rep = "serving"
  /\ pc[w] \in Results
  /\ Leave(w)
  /\ UNCHANGED <<allocated, containers, props, clusterVars, faults, rep, stray>>
-----------------------------------------------------------------------------
(* The cluster *)

NodeStep(h) ==
  /\ WatchEvent(h) \/ StartPod(h) \/ FailPod(h) \/ RemovePod(h)
  /\ UNCHANGED <<memoryVars, faults, rep, stray>>

\* Somebody else deletes a pod: the kubelet's eviction, an operator.
Evict(h) == ApiDelete(h) /\ Fault /\ UNCHANGED <<memoryVars, rep, stray>>

ProcessStep ==
  \/ Boot \/ Restore \/ Serve \/ CleanupFails \/ Crash
  \/ \E h \in Handles : ReceiveResult(h)

CallStep(w) ==
  \/ WorkerStep(w) \/ SendResult(w) \/ DestroyReturns(w)
  \/ \E h \in Handles : DestroyStray(w, h) \/ StartCreate(w, h)
                        \/ StartDestroy(w, h)

Next == \/ ProcessStep
        \/ \E w \in Workers : CallStep(w)
        \/ \E h \in Handles : NodeStep(h) \/ Evict(h)
        \/ \E h \in Annotated : UseProperties(h)

Spec == Init /\ [][Next]_vars

\* The scheduler runs every goroutine that can run, the process manager
\* restarts the rep, watch events arrive and the kubelet removes the pods it
\* is told to remove.  Nothing says that a pod starts or that a call is made.
Fairness ==
  /\ WF_vars(Boot) /\ WF_vars(Restore) /\ WF_vars(Serve)
  /\ WF_vars(CleanupFails)
  /\ \A h \in Handles : /\ WF_vars(ReceiveResult(h))
                        /\ WF_vars(WatchEvent(h) /\ NodeStep(h))
                        /\ WF_vars(RemovePod(h) /\ NodeStep(h))
  /\ \A w \in Workers : /\ WF_vars(WorkerStep(w))
                        /\ WF_vars(SendResult(w))
                        /\ WF_vars(DestroyReturns(w))
                        /\ WF_vars(\E h \in Handles : DestroyStray(w, h))

FairSpec == Spec /\ Fairness
-----------------------------------------------------------------------------
(* Properties *)

\* The type of every variable.
TypeOK == /\ ClientTypeOK
          /\ ClusterTypeOK
          /\ rep \in RepStates
          /\ stray \in [Handles -> StrayStates]

\* A pod that no delete was accepted for: nobody has told the kubelet to stop it.
Standing(h) == PodExists(h) /\ h \notin terminating

\* No two standing pods that the cache can see use the same host port of the
\* pool, across crashes, restarts with an empty port manager, lost answers,
\* failed and retried calls.  A pod that a Destroy has missed, having trusted a
\* cache that had not seen it yet, is at least on its way out (deletePod).
PortExclusive ==
  \A g, h \in Labelled :
    g # h /\ Standing(g) /\ Standing(h) =>
      Live(g).ports \cap Live(h).ports \cap Pool = {}

\* Once the containers are restored, every standing pod the cache can see has a
\* container in the table, with the pod's ports: a Destroy can find it, and
\* releases what it uses.
AccountedPods ==
  rep \in {"cleanup", "serving"} =>
    \A h \in Labelled :
      Standing(h) => Exists(h) /\ containers[h].ports = Live(h).ports

\* A Destroy releases ports, forgets the container and reports success only
\* when the pod is gone from the API server, although it looks at the cache.
DestroyedMeansGone ==
  \A w \in Workers : pc[w] \in {"release", "keyspace"} => ~PodExists(hdl[w])

\* What the code does guarantee of that: the one pod a Destroy can go past is a
\* pod that is already being deleted and that the cache has not seen at all,
\* whatever answers are lost, reads and deletes fail, and other Destroys of the
\* handle run.
GoneUnlessUnseen ==
  [][\A w \in Workers :
       LET h == hdl[w] IN
       pc[w] \in {"delete", "gone"} /\ pc'[w] = "release" /\ PodExists(h) =>
         h \in terminating /\ Cached(h).uid # Live(h).uid]_vars

\* The ports a Create has collected and not yet put into a container.
Collected(w) ==
  IF pc[w] \in {"netin", "image", "props", "add"} THEN held[w] ELSE {}

\* The ports of a container that no Destroy of it has given back yet.
Kept(h) == {p \in containers[h].ports :
              \A w \in Workers :
                hdl[w] = h /\ pc[w] = "release" => p \in held[w]}

InUse(p) == \/ \E w \in Workers : p \in Collected(w)
            \/ \E h \in Handles : p \in Kept(h)

\* A port that stays allocated when its last user lets go of it was collected
\* by a Create that failed before its container was in the table (no port left,
\* the image, Add); from then on no call strands a port, however Creates and
\* Destroys fail, race and overlap.
OnlyEarlyFailuresStrand ==
  [][\A p \in allocated \cap allocated' :
       InUse(p) /\ ~InUse(p)' =>
         \E w \in Workers : /\ p \in held[w]
                            /\ pc[w] \in {"netin", "image", "add"}
                            /\ pc'[w] = "idle"]_vars

\* What Containers lists as created can be used: its tasks are loaded, and it
\* is no container restored from an earlier process.
ListedIsUsable ==
  \A h \in Containers("created") :
    containers[h].kind = "fresh" /\ containers[h].tasks

\* A handle without a container and without a call has no properties left.
NoStaleProperties ==
  \A h \in Handles : ~Exists(h) /\ Busy(h) = {} => props[h] = {}

\* The rep serves only after every pod of earlier processes that carries the
\* app GUID label has left the API server.
CleanStart ==
  [][rep = "cleanup" /\ rep' = "serving" =>
       \A h \in Labelled : ~PodExists(h)]_vars

\* What the detailed rep means in terms of the contract, for the pods that the
\* cache can see: whether they stand or go, the ports of the pool they use, the
\* table, and the phase.
Garden == INSTANCE GardenSpec WITH
  Handles <- Labelled,
  pods <- [h \in Labelled |->
             [state |-> IF ~PodExists(h) THEN "none"
                        ELSE IF h \in terminating THEN "going" ELSE "standing",
              ports |-> Live(h).ports \cap Pool]],
  known <- Tracked \cap Labelled,
  serving <- rep = "serving"

\* The garden client, with its caches, retries, lost answers, races and crashes,
\* keeps the contract: a pod appears only for a container in the table and with
\* ports no standing pod has, a container is dropped from the table only when
\* its pod has left the API server or is on its way out, a restart finds every
\* pod, and service begins only on a node without any.
KeepsContract == Garden!Spec

\* Next reports "no available ports" only when every port of the pool belongs
\* to a container in the table or to a call that is going on.
ExhaustionIsReal ==
  Free = {} =>
    \A p \in Pool : \/ \E h \in Handles : p \in containers[h].ports
                   \/ \E w \in Workers : p \in held[w]

\* Create goes on to load the tasks of its own pod when it has seen that pod
\* running, not a pod of the same name before it.
WaitsForItsPod ==
  [][\A w \in Workers : pc[w] = "wait" /\ pc'[w] = "tasks" =>
       Cached(hdl[w]).uid = Live(hdl[w]).uid]_vars

\* A rep that is down comes back to serving.
Recovers == rep = "down" ~> rep = "serving"

\* Every garden call returns.
CallsReturn == \A w \in Workers : pc[w] # "idle" ~> pc[w] = "idle"
=============================================================================
