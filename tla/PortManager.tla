---------------------------- MODULE PortManager ----------------------------
(***************************************************************************)
(* The host port allocator of the garden client (port_manager.go).  Every  *)
(* action is one critical section under the manager's mutex.               *)
(***************************************************************************)
EXTENDS Naturals

CONSTANTS StartPort,    \* startPort, 62000 in the code
          EndPort       \* math.MaxUint16: the loop stops before it

ASSUME PortAssumption == StartPort \in Nat /\ EndPort \in Nat

VARIABLE allocated      \* the ports handed out and not yet released

\* The ports the loop of Next walks over: StartPort <= port < EndPort.
Pool == {p \in StartPort .. EndPort : p < EndPort}

Free == Pool \ allocated
----------------------------------------------------------------------------
\* Next hands out the lowest port that is not allocated.
NextPort(p) ==
  /\ p \in Free
  /\ \A q \in Free : p <= q
  /\ allocated' = allocated \cup {p}

\* Next fails with "no available ports".
NoPort == Free = {} /\ UNCHANGED allocated

\* Release forgets a port, whether or not it was allocated.
Release(p) == allocated' = allocated \ {p}
=============================================================================
