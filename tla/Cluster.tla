------------------------------ MODULE Cluster ------------------------------
(***************************************************************************)
(* What the garden client sees of Kubernetes: the pods of its namespace in *)
(* the API server, the kubelet that starts and removes them, and the watch *)
(* cache that the controller manager's client reads from (init.go,         *)
(* newControllerManager).  Writes (Create, Delete) go to the API server,   *)
(* reads (Get, List) to the cache, which lags behind.                      *)
(*                                                                         *)
(* view[h] is the tail of the history of the pod named h: its first        *)
(* version is the cached one, its last the API server's, those in between  *)
(* are watch events that are still to be delivered.  A pod without the     *)
(* app GUID label is outside the cache's selector: the cache never has it. *)
(***************************************************************************)
EXTENDS Naturals, Sequences

CONSTANTS Handles,      \* pod names, which are container handles
          Labelled      \* the handles whose pods carry the app GUID label

ASSUME LabelledAssumption == Labelled \subseteq Handles

VARIABLES view,         \* view[h]: the versions of pod h from the cached one on
          terminating   \* the pods a graceful delete was accepted for

clusterVars == <<view, terminating>>

Phases == {"Absent", "Pending", "Running", "Failed"}

\* uid counts the pods of one name; an Absent version keeps the last one's.
Version == [uid : Nat, phase : Phases, ports : SUBSET Nat]

Gone(uid) == [uid |-> uid, phase |-> "Absent", ports |-> {}]

LatestOf(versions) == versions[Len(versions)]

\* The pod in the API server.
Live(h) == LatestOf(view[h])

PodExists(h) == Live(h).phase # "Absent"

\* The pod that a Get or List of the manager's client returns.
Cached(h) == IF h \in Labelled THEN Head(view[h]) ELSE Gone(0)

InCache(h) == Cached(h).phase # "Absent"
----------------------------------------------------------------------------
\* A write to the API server.  A labelled pod's new version is queued for the
\* cache; nobody is told of another pod's.
Publish(h, v) ==
  view' = [view EXCEPT ![h] = IF h \in Labelled THEN Append(@, v) ELSE <<v>>]

\* POST of a pod whose name is free.
ApiCreate(h, ports) ==
  /\ ~PodExists(h)
  /\ Publish(h, [uid |-> Live(h).uid + 1, phase |-> "Pending", ports |-> ports])
  /\ UNCHANGED terminating

\* DELETE with the pod's own grace period: the kubelet will remove the pod.
ApiDelete(h) ==
  /\ PodExists(h)
  /\ terminating' = terminating \cup {h}
  /\ UNCHANGED view

\* DELETE with grace period 0: the pod is gone at once, if there is one.
ApiForceDelete(h) ==
  /\ IF PodExists(h) THEN Publish(h, Gone(Live(h).uid)) ELSE UNCHANGED view
  /\ terminating' = terminating \ {h}
----------------------------------------------------------------------------
\* The cache learns of the next version of a pod.
WatchEvent(h) ==
  /\ Len(view[h]) > 1
  /\ view' = [view EXCEPT ![h] = Tail(@)]
  /\ UNCHANGED terminating

\* The kubelet reports the pod's containers as running.
StartPod(h) ==
  /\ Live(h).phase = "Pending"
  /\ Publish(h, [Live(h) EXCEPT !.phase = "Running"])
  /\ UNCHANGED terminating

\* The pod's containers end or cannot be started (RestartPolicy Never).
FailPod(h) ==
  /\ Live(h).phase \in {"Pending", "Running"}
  /\ Publish(h, [Live(h) EXCEPT !.phase = "Failed"])
  /\ UNCHANGED terminating

\* The kubelet has stopped a deleted pod and removes it from the API server.
RemovePod(h) ==
  /\ h \in terminating
  /\ Publish(h, Gone(Live(h).uid))
  /\ terminating' = terminating \ {h}

\* The cache of a process that starts lists the API server once and is in
\* sync before anything reads it (WaitForCacheSync).
CacheSync == /\ view' = [h \in Handles |-> <<Live(h)>>]
             /\ UNCHANGED terminating

ClusterInit == /\ view = [h \in Handles |-> <<Gone(0)>>]
               /\ terminating = {}

ClusterTypeOK == /\ view \in [Handles -> Seq(Version) \ {<<>>}]
                 /\ terminating \subseteq Handles
=============================================================================
