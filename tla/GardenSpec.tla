----------------------------- MODULE GardenSpec -----------------------------
(***************************************************************************)
(* What the garden client promises the executor and the node: a container  *)
(* is known before its pod exists and at least until its pod is being      *)
(* deleted, standing pods share no host port, and the process serves only  *)
(* on a node without leftovers.                                            *)
(* There are no calls, caches or results here; Rep implements this.        *)
(***************************************************************************)
EXTENDS Naturals

CONSTANT Handles

VARIABLES pods,     \* pods[h]: the state of h's pod, and its allocated ports
          known,    \* the containers the process can destroy
          serving   \* whether the executor can use the client

specVars == <<pods, known, serving>>

\* state is "none", "standing", or "going" once a delete was accepted.
NoPod == [state |-> "none", ports |-> {}]

SpecInit == /\ pods = [h \in Handles |-> NoPod]
            /\ known = {}
            /\ ~serving

\* A container becomes known.
Learn(h) == /\ serving
            /\ h \notin known
            /\ known' = known \cup {h}
            /\ UNCHANGED <<pods, serving>>

\* A known container gets a pod, with ports that no other standing pod has.
Appear(h) == /\ serving
             /\ h \in known
             /\ pods[h].state = "none"
             /\ pods'[h].state = "standing"
             /\ pods' = [pods EXCEPT ![h] = pods'[h]]
             /\ \A g \in Handles \ {h} :
                  pods[g].state = "standing" =>
                    pods[g].ports \cap pods'[h].ports = {}
             /\ UNCHANGED <<known, serving>>

\* A delete of a pod is accepted, whoever asked for it.
Condemn(h) == /\ pods[h].state = "standing"
              /\ pods' = [pods EXCEPT ![h].state = "going"]
              /\ UNCHANGED <<known, serving>>

\* A pod goes, removed by the kubelet or by force.
Disappear(h) == /\ pods[h].state # "none"
                /\ pods' = [pods EXCEPT ![h] = NoPod]
                /\ UNCHANGED <<known, serving>>

\* A container is not forgotten while its pod stands.
Forget(h) == /\ h \in known
             /\ pods[h].state # "standing"
             /\ known' = known \ {h}
             /\ UNCHANGED <<pods, serving>>

\* A new process finds every pod of the processes before it, and perhaps some
\* that have just gone.
Recover == /\ ~serving
           /\ known = {}
           /\ {h \in Handles : pods[h].state # "none"} \subseteq known'
           /\ known' \subseteq Handles
           /\ UNCHANGED <<pods, serving>>

\* Service begins on a node without pods.
BeginService == /\ ~serving
                /\ known = {}
                /\ \A h \in Handles : pods[h].state = "none"
                /\ serving'
                /\ UNCHANGED <<pods, known>>

\* The process ends, and everything it knew is lost.
EndProcess == ~serving' /\ known' = {} /\ UNCHANGED pods

SpecNext == \/ Recover \/ BeginService \/ EndProcess
            \/ \E h \in Handles : \/ Learn(h) \/ Appear(h) \/ Condemn(h)
                                  \/ Disappear(h) \/ Forget(h)

Spec == SpecInit /\ [][SpecNext]_specVars
=============================================================================
