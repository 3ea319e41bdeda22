--------------------------- MODULE ProcessProofs ---------------------------
(***************************************************************************)
(* For every set of processes in a container: an exit code that Wait       *)
(* returns is final.                                                       *)
(***************************************************************************)
EXTENDS Process, TLAPS

\* Wait deletes a process only when its output is closed, and has the status
\* of a process only when that has ended.
WaitKnows(p) ==
  /\ wait[p] = "delete" => output[p] = "closed"
  /\ status[p] = "exited" => /\ exec[p] \in {"exited", "deleted"}
                             /\ wait[p] \in {"io", "delete", "returned"}
  /\ result[p] = "exit code" =>
       status[p] = "exited" /\ exec[p] = "deleted" /\ output[p] = "closed"

ProcessInv == TypeOK /\ \A p \in Processes : WaitKnows(p)

\* Nothing has been run yet.
LEMMA ProcessInit == Init => ProcessInv
BY DEF Init, ProcessInv, TypeOK, WaitKnows, WaitSteps, ExecStates

\* Every step of a Wait, a Signal or a process keeps the types.
LEMMA ProcessTypes ==
  ASSUME TypeOK, NEW p \in Processes,
         \/ Run(p) \/ WaitStep(p) \/ StatusLost(p) \/ Kill(p)
         \/ SignalTooEarly(p) \/ Exit(p) \/ Detach(p) \/ DaemonEnds(p)
  PROVE  TypeOK'
<1> USE DEF TypeOK, WaitSteps, ExecStates, Move, Return
<1>1. CASE Run(p) \/ Exec(p) \/ ExecFails(p)
  BY <1>1 DEF Run, Exec, ExecFails
<1>2. CASE Start(p) \/ StartFails(p)
  BY <1>2 DEF Start, StartFails
<1>3. CASE WaitCall(p) \/ WaitCallFails(p)
  BY <1>3 DEF WaitCall, WaitCallFails
<1>4. CASE ExitStatus(p) \/ StatusLost(p) \/ DrainOutput(p)
  BY <1>4 DEF ExitStatus, StatusLost, DrainOutput
<1>5. CASE Delete(p)
  BY <1>5 DEF Delete
<1>6. CASE Kill(p) \/ SignalTooEarly(p)
  BY <1>6 DEF Kill, SignalTooEarly, processVars
<1>7. CASE Exit(p)
  <2>1. PICK o \in {"closed", "daemon"} : output' = [output EXCEPT ![p] = o]
    BY <1>7 DEF Exit
  <2> QED BY <1>7, <2>1 DEF Exit
<1>8. CASE Detach(p) \/ DaemonEnds(p)
  BY <1>8 DEF Detach, DaemonEnds
<1> QED BY <1>1, <1>2, <1>3, <1>4, <1>5, <1>6, <1>7, <1>8 DEF WaitStep

\* A step for process p keeps what is known of every process q.
LEMMA ProcessKnows ==
  ASSUME ProcessInv, NEW p \in Processes, NEW q \in Processes,
         \/ Run(p) \/ WaitStep(p) \/ StatusLost(p) \/ Kill(p)
         \/ SignalTooEarly(p) \/ Exit(p) \/ Detach(p) \/ DaemonEnds(p)
  PROVE  WaitKnows(q)'
<1> TypeOK /\ WaitKnows(p) /\ WaitKnows(q)
  BY DEF ProcessInv
<1> USE DEF TypeOK, WaitKnows, Move, Return
<1>1. CASE Run(p)
  BY <1>1 DEF Run
<1>2. CASE Exec(p)
  BY <1>2 DEF Exec
<1>3. CASE ExecFails(p)
  BY <1>3 DEF ExecFails
<1>4. CASE Start(p)
  BY <1>4 DEF Start
<1>5. CASE StartFails(p)
  BY <1>5 DEF StartFails
<1>6. CASE WaitCall(p) \/ WaitCallFails(p)
  BY <1>6 DEF WaitCall, WaitCallFails
<1>7. CASE ExitStatus(p) \/ StatusLost(p) \/ DrainOutput(p)
  BY <1>7 DEF ExitStatus, StatusLost, DrainOutput
<1>8. CASE Delete(p)
  <2>1. CASE p = q
    BY <1>8, <2>1 DEF Delete
  <2>2. CASE p # q
    BY <1>8, <2>2 DEF Delete
  <2> QED BY <2>1, <2>2
<1>9. CASE Kill(p) \/ SignalTooEarly(p)
  BY <1>9 DEF Kill, SignalTooEarly, processVars
<1>10. CASE Exit(p)
  BY <1>10 DEF Exit
<1>11. CASE Detach(p) \/ DaemonEnds(p)
  BY <1>11 DEF Detach, DaemonEnds
<1> QED BY <1>1, <1>2, <1>3, <1>4, <1>5, <1>6, <1>7, <1>8, <1>9,
           <1>10, <1>11 DEF WaitStep

\* The invariant holds throughout.
LEMMA ProcessInvariant == Spec => []ProcessInv
<1>1. ProcessInv /\ [Next]_vars => ProcessInv'
  <2> SUFFICES ASSUME ProcessInv, [Next]_vars PROVE ProcessInv'
    OBVIOUS
  <2>1. CASE Next
    BY <2>1, ProcessTypes, ProcessKnows DEF Next, ProcessInv
  <2>2. CASE UNCHANGED vars
    BY <2>2 DEF vars, processVars, ProcessInv, TypeOK, WaitKnows
  <2> QED BY <2>1, <2>2
<1> QED BY <1>1, ProcessInit, PTL DEF Spec

\* A Wait that returns an exit code has seen the process end, its output
\* closed by everybody, and its record deleted in containerd.
THEOREM ExitCodeFinal == Spec => []ExitCodeIsFinal
<1>1. ProcessInv => ExitCodeIsFinal
  BY DEF ProcessInv, WaitKnows, ExitCodeIsFinal
<1> QED BY <1>1, ProcessInvariant, PTL

\* Wait, Signal and the processes keep the types of the model: Wait's local
\* state is one of the source's points, an exec is in one state of containerd.
THEOREM ProcessTypeCorrect == Spec => []TypeOK
<1>1. ProcessInv => TypeOK
  BY DEF ProcessInv
<1> QED BY <1>1, ProcessInvariant, PTL
=============================================================================
