------------------------------ MODULE Watcher ------------------------------
(***************************************************************************)
(* The node watcher that runs beside the rep (cmd/watch): an informer on   *)
(* the node calls a handler, the handler asks the rep to evacuate when the *)
(* node is cordoned and sends a stop message, main receives it and pings   *)
(* the rep until the rep is gone.  The stop channel is unbuffered, and the *)
(* informer's own goroutines receive from it too.                          *)
(***************************************************************************)
EXTENDS Naturals, Sequences

CONSTANTS MaxPending,   \* bound on notifications that wait for the handler
          MaxCordons,   \* bound on how often the node is cordoned
          MaxRestarts   \* bound on how often the watcher is restarted

ASSUME WatcherAssumption == /\ MaxPending \in Nat \ {0}
                            /\ MaxCordons \in Nat
                            /\ MaxRestarts \in Nat

VARIABLES node,         \* Spec.Unschedulable of the node
          cordons,      \* how often it was cordoned
          repState,     \* the rep: "up", "evacuating" or "gone"
          pending,      \* the node objects notified and not yet handled
          informer,     \* whether the informer still delivers
          handler,      \* UpdateFunc: "idle", "evacuate", "send"
          pingPath,     \* the variable that the handler writes and main reads
          askedAt,      \* cordons at the last POST /evacuate of this process,
                        \* 0 when there was none
          main,         \* "wait", "remove", "ping", "exited"
          target,       \* the argument of pingForever
          restarts

watcherVars == <<pending, informer, handler, pingPath, askedAt, main, target>>
vars == <<node, cordons, repState, watcherVars, restarts>>

Paths == {"none", "ping_path"}

Init == /\ node = FALSE
        /\ cordons = 0
        /\ repState = "up"
        /\ pending = <<>>
        /\ informer = TRUE
        /\ handler = "idle"
        /\ pingPath = "none"
        /\ askedAt = 0
        /\ main = "wait"
        /\ target = "none"
        /\ restarts = 0
-----------------------------------------------------------------------------
(* The node and the rep *)

Cordon == /\ ~node
          /\ cordons < MaxCordons
          /\ node' = TRUE
          /\ cordons' = cordons + 1
          /\ UNCHANGED <<repState, watcherVars, restarts>>

Uncordon == /\ node
            /\ node' = FALSE
            /\ UNCHANGED <<cordons, repState, watcherVars, restarts>>

\* A rep that was told to evacuate ends when its containers have left, and
\* its pod starts another.
RepLeaves == /\ repState = "evacuating"
             /\ repState' = "gone"
             /\ UNCHANGED <<node, cordons, watcherVars, restarts>>

RepStarts == /\ repState = "gone"
             /\ repState' = "up"
             /\ UNCHANGED <<node, cordons, watcherVars, restarts>>
-----------------------------------------------------------------------------
(* The informer and the handler *)

\* A change of the node, or the resynchronisation every ten seconds.
Notify == /\ informer
          /\ main \in {"wait", "remove"}
          /\ Len(pending) < MaxPending
          /\ pending' = Append(pending, node)
          /\ UNCHANGED <<node, cordons, repState, informer, handler, pingPath,
                         askedAt, main, target, restarts>>

\* Mutant of Handle: the rep is asked only once in the life of the process.
HandleOnce == /\ main # "exited"
              /\ handler = "idle"
              /\ pending # <<>>
              /\ pending' = Tail(pending)
              /\ handler' = IF Head(pending) /\ askedAt = 0
                          THEN "evacuate" ELSE "idle"
              /\ UNCHANGED <<node, cordons, repState, informer, pingPath,
                             askedAt, main, target, restarts>>

\* UpdateFunc is called for one notification after the other.
Handle == /\ main # "exited"
          /\ handler = "idle"
          /\ pending # <<>>
          /\ pending' = Tail(pending)
          /\ handler' = IF Head(pending) THEN "evacuate" ELSE "idle"
          /\ UNCHANGED <<node, cordons, repState, informer, pingPath, askedAt,
                         main, target, restarts>>

\* Mutant of Evacuate: the request is made in a goroutine of its own.
EvacuateLater == /\ main # "exited"
                 /\ handler = "evacuate"
                 /\ handler' = "send"
                 /\ UNCHANGED <<node, cordons, repState, pending, informer,
                                pingPath, askedAt, main, target, restarts>>

\* Mutant of Evacuate: the body is used whatever the status.
EvacuateAnyStatus == /\ main # "exited"
                     /\ handler = "evacuate"
                     /\ handler' = "send"
                     /\ askedAt' = cordons
                     /\ pingPath' \in Paths \cup {"error page"}
                     /\ UNCHANGED <<node, cordons, repState, pending, informer,
                                    main, target, restarts>>

\* The POST is answered, refused, or fails with or without an effect; there
\* is a ping path only in a good answer.
Evacuate == /\ main # "exited"
            /\ handler = "evacuate"
            /\ handler' = "send"
            /\ askedAt' = cordons
            /\ \/ /\ repState \in {"up", "evacuating"}
                  /\ repState' = "evacuating"
                  /\ pingPath' \in Paths
               \/ /\ pingPath' = "none"
                  /\ UNCHANGED repState
            /\ UNCHANGED <<node, cordons, pending, informer, main, target,
                           restarts>>

\* The stop message meets main.
StopMain == /\ handler = "send"
            /\ main = "wait"
            /\ handler' = "idle"
            /\ main' = "remove"
            /\ UNCHANGED <<node, cordons, repState, pending, informer, pingPath,
                           askedAt, target, restarts>>

\* The stop message meets a goroutine of the informer, which may be the one
\* that the delivery of events depends on.
StopInformer == /\ handler = "send"
                /\ main # "exited"
                /\ informer
                /\ handler' = "idle"
                /\ informer' \in BOOLEAN
                /\ UNCHANGED <<node, cordons, repState, pending, pingPath, askedAt,
                               main, target, restarts>>
-----------------------------------------------------------------------------
(* main *)

\* RemoveEventHandler drops what is pending; pingPath is read after it.
RemoveHandler == /\ main = "remove"
                 /\ main' = "ping"
                 /\ pending' = <<>>
                 /\ target' = pingPath
                 /\ UNCHANGED <<node, cordons, repState, informer, handler,
                                pingPath, askedAt, restarts>>

\* A GET without an answer ends the loop, and the process; an answer of any
\* status goes on to the next GET.
PingFails == /\ main = "ping"
             /\ main' = "exited"
             /\ UNCHANGED <<node, cordons, repState, pending, informer, handler,
                            pingPath, askedAt, target, restarts>>

\* The kubelet restarts the watcher.
Restart == /\ main = "exited"
           /\ restarts < MaxRestarts
           /\ restarts' = restarts + 1
           /\ pending' = <<>>
           /\ informer' = TRUE
           /\ handler' = "idle"
           /\ pingPath' = "none"
           /\ askedAt' = 0
           /\ main' = "wait"
           /\ target' = "none"
           /\ UNCHANGED <<node, cordons, repState>>

Next == \/ Cordon \/ Uncordon \/ RepLeaves \/ RepStarts
        \/ Notify \/ Handle \/ Evacuate \/ StopMain \/ StopInformer
        \/ RemoveHandler \/ PingFails \/ Restart

Spec == Init /\ [][Next]_vars

\* Goroutines that can run do, the resynchronisation goes on while the
\* informer runs, and an HTTP request ends by its timeout.
FairSpec == /\ Spec
            /\ WF_vars(Notify) /\ WF_vars(Handle) /\ WF_vars(Evacuate)
            /\ WF_vars(StopMain \/ StopInformer)
            /\ WF_vars(RemoveHandler)
-----------------------------------------------------------------------------
(* Properties *)

\* The type of every variable.
TypeOK == /\ node \in BOOLEAN
          /\ cordons \in 0 .. MaxCordons
          /\ repState \in {"up", "evacuating", "gone"}
          /\ pending \in Seq(BOOLEAN) /\ Len(pending) <= MaxPending
          /\ informer \in BOOLEAN
          /\ handler \in {"idle", "evacuate", "send"}
          /\ pingPath \in Paths
          /\ askedAt \in 0 .. MaxCordons
          /\ main \in {"wait", "remove", "ping", "exited"}
          /\ target \in Paths
          /\ restarts \in 0 .. MaxRestarts

\* The watch ends, because main leaves it or because the informer has taken a
\* stop message, only after the node was cordoned and the rep asked to evacuate.
AskedBeforePing == main # "wait" \/ ~informer => askedAt > 0

\* A cordon that lasts, be it the first or a later one, is noticed: while this
\* process is watching and its informer runs, the rep is asked to evacuate again
\* after the node was cordoned again.
NoticesCordon ==
  <>[](node /\ main = "wait" /\ informer) => <>[](askedAt = cordons)
=============================================================================
