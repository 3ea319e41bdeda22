---------------------------- MODULE GardenClient ----------------------------
(***************************************************************************)
(* The garden client (client.go): Create and Destroy, run by the workers   *)
(* of the rep, over the port manager, the container table, the property    *)
(* manager and the cluster.  An action is the stretch of a call between    *)
(* two points where another goroutine, or the cluster, can be seen or can  *)
(* see it: a lock taken by a component, or a call to the API server.       *)
(***************************************************************************)
EXTENDS PortManager, ContainerMap, Cluster

CONSTANTS Workers,          \* the goroutines that run garden calls
          NoHandle,         \* an idle worker's handle
          AutoPorts,        \* AutoPorts[h]: NetIn entries of h with HostPort 0
          FixedPorts,       \* FixedPorts[h]: the host ports of its other NetIns
          Docker,           \* the handles whose image is a docker: URI
          Annotated,        \* the handles whose properties the executor changes
          Overlap,          \* the operations that may overlap on one handle
          BlindErrors,      \* API calls may take effect and report an error
          MaxFaults,        \* bound on injected faults
          MaxIncarnations   \* bound on the pods made under one handle

ASSUME ClientAssumption ==
  /\ NoHandle \notin Handles
  /\ AutoPorts \in [Handles -> Nat]
  /\ FixedPorts \in [Handles -> SUBSET Nat]
  /\ Docker \subseteq Handles
  /\ Annotated \subseteq Handles
  /\ Overlap \subseteq {"Create", "Destroy"}
  /\ BlindErrors \in BOOLEAN
  /\ MaxFaults \in Nat
  /\ MaxIncarnations \in Nat

VARIABLES props,    \* the property manager: the properties set for a handle
          pc,       \* where a worker is in its call
          hdl,      \* the handle it works on
          need,     \* Create: the host ports still to be allocated
          held,     \* Create: the ports collected before the container is in
                    \* the table; Destroy: the ports still to be released
          faults    \* the faults injected so far

workerVars == <<pc, hdl, need, held>>
memoryVars == <<allocated, containers, props, workerVars>>
clientVars == <<memoryVars, clusterVars, faults>>

CreateSteps == {"netin", "image", "props", "add", "create", "wait", "tasks",
                "state"}
DestroySteps == {"delete", "gone", "release", "keyspace"}
Results == {"destroyed", "failed"}

Operation(l) == CASE l \in CreateSteps -> "Create"
                  [] l \in DestroySteps -> "Destroy"
                  [] OTHER -> "none"

\* The workers that are inside a call for h.
Busy(h) == {w \in Workers : hdl[w] = h /\ Operation(pc[w]) # "none"}

\* The caller's discipline: the rep has one outstanding operation per container
\* (its operation queue, cmd/rep), so calls for one handle do not overlap, but
\* for the operations the run lists in Overlap, which overlap with their kind.
MayBegin(op, h) ==
  \A w \in Busy(h) : op \in Overlap /\ Operation(pc[w]) = op

Fault == faults < MaxFaults /\ faults' = faults + 1

Goto(w, l) == pc' = [pc EXCEPT ![w] = l]

Step(w, from, to) == pc[w] = from /\ Goto(w, to) /\ UNCHANGED hdl

\* A call is over and its worker idle.
Leave(w) == /\ Goto(w, "idle")
            /\ hdl' = [hdl EXCEPT ![w] = NoHandle]
            /\ need' = [need EXCEPT ![w] = 0]
            /\ held' = [held EXCEPT ![w] = {}]

InitMemory == /\ allocated = {}
              /\ containers = [h \in Handles |-> NoContainer]
              /\ props = [h \in Handles |-> {}]
              /\ pc = [w \in Workers |-> "idle"]
              /\ hdl = [w \in Workers |-> NoHandle]
              /\ need = [w \in Workers |-> 0]
              /\ held = [w \in Workers |-> {}]

ClientInit == InitMemory /\ ClusterInit /\ faults = 0
-----------------------------------------------------------------------------
(* Containers: the handles in the table that carry the owner property and, *)
(* unless all states are asked for, the state property.                    *)
Containers(state) ==
  {h \in Tracked : /\ "owner" \in props[h]
                   /\ state # "all" => state \in props[h]}
-----------------------------------------------------------------------------
(* Create *)

\* A handle that is in the table is refused before anything changes.
BeginCreate(w, h) ==
  /\ pc[w] = "idle"
  /\ MayBegin("Create", h)
  /\ Live(h).uid < MaxIncarnations
  /\ ~Exists(h)
  /\ Goto(w, "netin")
  /\ hdl' = [hdl EXCEPT ![w] = h]
  /\ need' = [need EXCEPT ![w] = AutoPorts[h]]
  /\ held' = [held EXCEPT ![w] = FixedPorts[h]]
  /\ UNCHANGED <<allocated, containers, props, clusterVars, faults>>

\* Mutant of AllocatePort: the search loop includes the end of the range.
AllocateToTheEnd(w) ==
  /\ pc[w] = "netin"
  /\ need[w] > 0
  /\ \E p \in (StartPort .. EndPort) \ allocated :
       /\ allocated' = allocated \cup {p}
       /\ held' = [held EXCEPT ![w] = @ \cup {p}]
  /\ need' = [need EXCEPT ![w] = @ - 1]
  /\ UNCHANGED <<containers, props, pc, hdl, clusterVars, faults>>

AllocatePort(w) ==
  /\ pc[w] = "netin"
  /\ need[w] > 0
  /\ \E p \in Pool : /\ NextPort(p)
                     /\ held' = [held EXCEPT ![w] = @ \cup {p}]
  /\ need' = [need EXCEPT ![w] = @ - 1]
  /\ UNCHANGED <<containers, props, pc, hdl, clusterVars, faults>>

\* The ports collected so far stay allocated.
AllocateFails(w) ==
  /\ pc[w] = "netin"
  /\ need[w] > 0
  /\ NoPort
  /\ Leave(w)
  /\ UNCHANGED <<containers, props, clusterVars, faults>>

PortsReady(w) ==
  /\ need[w] = 0
  /\ Step(w, "netin", IF hdl[w] \in Docker THEN "image" ELSE "props")
  /\ UNCHANGED <<allocated, containers, props, need, held, clusterVars, faults>>

ImageReady(w) ==
  /\ Step(w, "image", "props")
  /\ UNCHANGED <<allocated, containers, props, need, held, clusterVars, faults>>

\* The pull fails, the image is larger than the disk limit, or its config
\* cannot be read.  The ports stay allocated.
ImageFails(w) ==
  /\ pc[w] = "image"
  /\ Leave(w)
  /\ UNCHANGED <<allocated, containers, props, clusterVars, faults>>

SetProperties(w) ==
  /\ Step(w, "props", "add")
  /\ props' = [props EXCEPT ![hdl[w]] = @ \cup {"owner"}]
  /\ UNCHANGED <<allocated, containers, need, held, clusterVars, faults>>

\* From here on the container's pod object holds the ports.
AddContainer(w) ==
  /\ Step(w, "add", "create")
  /\ Add(hdl[w], FreshContainer(held[w]))
  /\ held' = [held EXCEPT ![w] = {}]
  /\ UNCHANGED <<allocated, props, need, clusterVars, faults>>

\* Another Create of the handle was faster.  The ports stay allocated.
AddFails(w) ==
  /\ pc[w] = "add"
  /\ AddRefused(hdl[w])
  /\ Leave(w)
  /\ UNCHANGED <<allocated, props, clusterVars, faults>>

CreatePod(w) ==
  /\ Step(w, "create", "wait")
  /\ ApiCreate(hdl[w], containers[hdl[w]].ports)
  /\ UNCHANGED <<allocated, containers, props, need, held, faults>>

\* Mutant of CreatePodFails: the ports are given back, the container is kept.
CreatePodFailsReleasing(w) ==
  /\ pc[w] = "create"
  /\ allocated' = allocated \ containers[hdl[w]].ports
  /\ Leave(w)
  /\ UNCHANGED <<containers, props, clusterVars, faults>>

\* The API server refuses the pod.  The container stays in the table.
CreatePodFails(w) ==
  /\ pc[w] = "create"
  /\ Leave(w)
  /\ UNCHANGED <<allocated, containers, props, clusterVars, faults>>

\* The pod is created and the answer is lost.
CreatePodLost(w) ==
  /\ BlindErrors /\ Fault
  /\ pc[w] = "create"
  /\ ApiCreate(hdl[w], containers[hdl[w]].ports)
  /\ Leave(w)
  /\ UNCHANGED <<allocated, containers, props>>

\* Get reads the cached pod into the pod object of the container.
ReadPod(h) ==
  /\ InCache(h)
  /\ containers' = [containers EXCEPT ![h].ports = Cached(h).ports]

\* A pod that is not running yet is read again later.  A Get that finds
\* nothing leaves the object as it is.
PollPod(w) ==
  /\ pc[w] = "wait"
  /\ Cached(hdl[w]).phase # "Running"
  /\ ReadPod(hdl[w])
  /\ UNCHANGED <<allocated, props, workerVars, clusterVars, faults>>

PodRunning(w) ==
  /\ Step(w, "wait", "tasks")
  /\ Cached(hdl[w]).phase = "Running"
  /\ ReadPod(hdl[w])
  /\ UNCHANGED <<allocated, props, need, held, clusterVars, faults>>

\* Mutant of CreateTimeout: the clock is looked at only after a pod was read.
CreateTimeoutOnceSeen(w) ==
  /\ pc[w] = "wait"
  /\ InCache(hdl[w])
  /\ ApiForceDelete(hdl[w])
  /\ Leave(w)
  /\ UNCHANGED <<allocated, containers, props, faults>>

\* Two minutes have passed: the pod is deleted by force and the call fails.
CreateTimeout(w) ==
  /\ pc[w] = "wait"
  /\ ApiForceDelete(hdl[w])
  /\ Leave(w)
  /\ UNCHANGED <<allocated, containers, props, faults>>

\* The cached read fails, or the forced delete does, whose error is dropped:
\* the pod stays.
WaitFails(w) ==
  /\ Fault
  /\ pc[w] = "wait"
  /\ Leave(w)
  /\ UNCHANGED <<allocated, containers, props, clusterVars>>

LoadTasks(w) ==
  /\ Step(w, "tasks", "state")
  /\ containers' = [containers EXCEPT ![hdl[w]].tasks = TRUE]
  /\ UNCHANGED <<allocated, props, need, held, clusterVars, faults>>

\* Mutant of LoadTasksFails: the error is logged and Create goes on.
LoadTasksFailsSilently(w) ==
  /\ Step(w, "tasks", "state")
  /\ UNCHANGED <<allocated, containers, props, need, held, clusterVars, faults>>

\* containerd has no task for a container of the pod.
LoadTasksFails(w) ==
  /\ pc[w] = "tasks"
  /\ Leave(w)
  /\ UNCHANGED <<allocated, containers, props, clusterVars, faults>>

SetState(w) ==
  /\ pc[w] = "state"
  /\ props' = [props EXCEPT ![hdl[w]] = @ \cup {"created"}]
  /\ Leave(w)
  /\ UNCHANGED <<allocated, containers, clusterVars, faults>>

CreateStep(w) ==
  \/ AllocatePort(w) \/ AllocateFails(w) \/ PortsReady(w)
  \/ ImageReady(w) \/ ImageFails(w)
  \/ SetProperties(w) \/ AddContainer(w) \/ AddFails(w)
  \/ CreatePod(w) \/ CreatePodFails(w) \/ CreatePodLost(w)
  \/ PollPod(w) \/ PodRunning(w) \/ CreateTimeout(w) \/ WaitFails(w)
  \/ LoadTasks(w) \/ LoadTasksFails(w) \/ SetState(w)
-----------------------------------------------------------------------------
(* Destroy *)

\* A handle that is not in the table is refused.  The call keeps a pointer to
\* the container, whose ports do not change while no Create works on it.
BeginDestroy(w, h) ==
  /\ pc[w] = "idle"
  /\ MayBegin("Destroy", h)
  /\ Exists(h)
  /\ Goto(w, "delete")
  /\ hdl' = [hdl EXCEPT ![w] = h]
  /\ held' = [held EXCEPT ![w] = containers[h].ports]
  /\ UNCHANGED <<allocated, containers, props, need, clusterVars, faults>>

DeleteAccepted(w) ==
  /\ Step(w, "delete", "gone")
  /\ ApiDelete(hdl[w])
  /\ UNCHANGED <<allocated, containers, props, need, held, faults>>

\* Mutant of DeleteNotFound: a pod that is being deleted counts as deleted.
DeleteNotFoundOrTerminating(w) ==
  /\ Step(w, "delete", "release")
  /\ PodExists(hdl[w]) => hdl[w] \in terminating
  /\ UNCHANGED <<allocated, containers, props, need, held, clusterVars, faults>>

DeleteNotFound(w) ==
  /\ Step(w, "delete", "release")
  /\ ~PodExists(hdl[w])
  /\ UNCHANGED <<allocated, containers, props, need, held, clusterVars, faults>>

\* The call fails and keeps the container.
DestroyFails(w) == /\ Goto(w, "failed")
                   /\ held' = [held EXCEPT ![w] = {}]
                   /\ UNCHANGED <<allocated, containers, props, hdl, need>>

\* The API server may have accepted a delete it reports an error for.
DeleteFails(w) ==
  /\ pc[w] = "delete"
  /\ Fault
  /\ ApiDelete(hdl[w]) \/ UNCHANGED clusterVars
  /\ DestroyFails(w)

\* Mutant of PodGone: an accepted delete is taken for a finished one.
PodGoneAtOnce(w) ==
  /\ Step(w, "gone", "release")
  /\ UNCHANGED <<allocated, containers, props, need, held, clusterVars, faults>>

\* The cached read finds no pod any more.
PodGone(w) ==
  /\ Step(w, "gone", "release")
  /\ ~InCache(hdl[w])
  /\ UNCHANGED <<allocated, containers, props, need, held, clusterVars, faults>>

\* Ten seconds have passed, or a read of the pod failed.
DeleteTimeout(w) ==
  /\ pc[w] = "gone"
  /\ DestroyFails(w)
  /\ UNCHANGED <<clusterVars, faults>>

ReleasePort(w) ==
  /\ pc[w] = "release"
  /\ \E p \in held[w] : /\ Release(p)
                        /\ held' = [held EXCEPT ![w] = @ \ {p}]
  /\ UNCHANGED <<containers, props, pc, hdl, need, clusterVars, faults>>

\* Mutant of RemoveContainer: the loop over the ports ends too early.
RemoveContainerEarly(w) ==
  /\ Step(w, "release", "keyspace")
  /\ Remove(hdl[w])
  /\ UNCHANGED <<allocated, props, need, held, clusterVars, faults>>

RemoveContainer(w) ==
  /\ Step(w, "release", "keyspace")
  /\ held[w] = {}
  /\ Remove(hdl[w])
  /\ UNCHANGED <<allocated, props, need, held, clusterVars, faults>>

\* Mutant of DestroyKeySpace: the properties stay.
DestroyKeySpaceSkipped(w) ==
  /\ Step(w, "keyspace", "destroyed")
  /\ UNCHANGED <<allocated, containers, props, need, held, clusterVars, faults>>

DestroyKeySpace(w) ==
  /\ Step(w, "keyspace", "destroyed")
  /\ props' = [props EXCEPT ![hdl[w]] = {}]
  /\ UNCHANGED <<allocated, containers, need, held, clusterVars, faults>>

DestroyStep(w) ==
  \/ DeleteAccepted(w) \/ DeleteNotFound(w) \/ DeleteFails(w)
  \/ PodGone(w) \/ DeleteTimeout(w)
  \/ ReleasePort(w) \/ RemoveContainer(w) \/ DestroyKeySpace(w)

-----------------------------------------------------------------------------
(* The properties of a container, which its methods pass on to the property *)
(* manager under the container's handle.                                    *)

\* SetProperty and SetGraceTime: a key space that is not there is made.
SetProperty(h) ==
  /\ Exists(h)
  /\ MayBegin("Property", h)
  /\ props' = [props EXCEPT ![h] = @ \cup {"user"}]
  /\ UNCHANGED <<allocated, containers, workerVars, clusterVars, faults>>

\* RemoveProperty drops the error of the property manager: a property that is
\* not set is no failure.
RemoveProperty(h) ==
  /\ Exists(h)
  /\ MayBegin("Property", h)
  /\ props' = [props EXCEPT ![h] = @ \ {"user"}]
  /\ UNCHANGED <<allocated, containers, workerVars, clusterVars, faults>>

ClientTypeOK ==
  /\ allocated \subseteq Pool
  /\ containers \in [Handles -> Container]
  /\ props \in [Handles -> SUBSET {"owner", "created", "user"}]
  /\ pc \in [Workers -> {"idle"} \cup CreateSteps \cup DestroySteps \cup Results]
  /\ hdl \in [Workers -> Handles \cup {NoHandle}]
  /\ \A w \in Workers : (hdl[w] = NoHandle) <=> (pc[w] = "idle")
  /\ need \in [Workers -> Nat]
  /\ held \in [Workers -> SUBSET Nat]
  /\ faults \in 0 .. MaxFaults
=============================================================================
