------------------------------- MODULE MCRep -------------------------------
(* Instances of Rep for TLC. *)
EXTENDS Rep, TLC

\* Every container asks for one host port and has no other.
OnePort == [h \in Handles |-> 1]
NoFixed == [h \in Handles |-> {}]

\* Containers with a docker image ask for two ports: an allocation can fail
\* half way.
TwoForDocker == [h \in Handles |-> IF h \in Docker THEN 2 ELSE 1]

Symmetry == Permutations(Workers)
FullSymmetry == Permutations(Workers) \cup Permutations(Handles)
=============================================================================
