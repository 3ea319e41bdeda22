------------------------------ MODULE Process ------------------------------
(***************************************************************************)
(* Processes in a container (container.go Run, process.go): Run only       *)
(* builds the process object, Wait makes containerd execute it, collects   *)
(* its exit and its output and deletes it, and Signal may come from        *)
(* another goroutine at any time after Run.                                *)
(***************************************************************************)
EXTENDS Naturals

CONSTANT Processes      \* the processes that are run in one container

VARIABLES wait,     \* where the Wait of a process is
          object,   \* whether p.process was assigned: Signal dereferences it
          exec,     \* containerd's record of the process
          output,   \* who holds its output: "none", "main", "daemon", "closed"
          killed,   \* a SIGKILL has been delivered
          status,   \* what came from statusChan
          result,   \* what Wait returned
          panicked  \* a nil dereference has ended the rep

processVars == <<wait, object, exec, output, killed, status, result>>
vars == <<processVars, panicked>>

WaitSteps == {"new", "ready", "started", "waiting", "status", "io", "delete",
              "returned"}
ExecStates == {"none", "created", "running", "exited", "deleted"}

Init == /\ wait = [p \in Processes |-> "new"]
        /\ object = [p \in Processes |-> FALSE]
        /\ exec = [p \in Processes |-> "none"]
        /\ output = [p \in Processes |-> "none"]
        /\ killed = [p \in Processes |-> FALSE]
        /\ status = [p \in Processes |-> "none"]
        /\ result = [p \in Processes |-> "none"]
        /\ panicked = FALSE
-----------------------------------------------------------------------------
(* Run and Wait *)

Move(p, from, to) == /\ ~panicked
                     /\ wait[p] = from
                     /\ wait' = [wait EXCEPT ![p] = to]
                     /\ UNCHANGED panicked

Return(p, from, r) == /\ Move(p, from, "returned")
                      /\ result' = [result EXCEPT ![p] = r]

\* Run finds the task and the user; nothing is executed yet.  A Run that does
\* not find the user fails and changes nothing.
Run(p) == /\ Move(p, "new", "ready")
          /\ UNCHANGED <<object, exec, output, killed, status, result>>

Exec(p) == /\ Move(p, "ready", "started")
           /\ object' = [object EXCEPT ![p] = TRUE]
           /\ exec' = [exec EXCEPT ![p] = "created"]
           /\ UNCHANGED <<output, killed, status, result>>

\* p.process is assigned the nil process that comes with the error.
ExecFails(p) == /\ Return(p, "ready", "error")
                /\ UNCHANGED <<object, exec, output, killed, status>>

Start(p) == /\ Move(p, "started", "waiting")
            /\ exec[p] = "created"
            /\ exec' = [exec EXCEPT ![p] = "running"]
            /\ output' = [output EXCEPT ![p] = "main"]
            /\ UNCHANGED <<object, killed, status, result>>

\* The exec stays behind in containerd.
StartFails(p) == /\ Return(p, "started", "error")
                 /\ UNCHANGED <<object, exec, output, killed, status>>

WaitCall(p) == /\ Move(p, "waiting", "status")
               /\ UNCHANGED <<object, exec, output, killed, status, result>>

\* The process goes on without anybody waiting for it.
WaitCallFails(p) == /\ Return(p, "waiting", "error")
                    /\ UNCHANGED <<object, exec, output, killed, status>>

ExitStatus(p) == /\ Move(p, "status", "io")
                 /\ exec[p] = "exited"
                 /\ status' = [status EXCEPT ![p] = "exited"]
                 /\ UNCHANGED <<object, exec, output, killed, result>>

\* When the connection to containerd is lost, an error arrives in the place
\* of the exit status; Wait goes on alike.
StatusLost(p) == /\ Move(p, "status", "io")
                 /\ status' = [status EXCEPT ![p] = "error"]
                 /\ UNCHANGED <<object, exec, output, killed, result>>

\* Mutant of DrainOutput: the output is closed without waiting for it.
CloseOutput(p) == /\ Move(p, "io", "delete")
                  /\ UNCHANGED <<object, exec, output, killed, status, result>>

\* Mutant of DrainOutput: it waits for an end of the pipe that only the Close
\* after it would close.
DrainOwnEnd(p) == /\ Move(p, "io", "delete")
                  /\ output[p] = "none"
                  /\ UNCHANGED <<object, exec, output, killed, status, result>>

\* io.Wait returns when nobody holds the output any more.
DrainOutput(p) == /\ Move(p, "io", "delete")
                  /\ output[p] = "closed"
                  /\ UNCHANGED <<object, exec, output, killed, status, result>>

\* Mutant of Delete: a failed delete returns without a result.
DeleteSilent(p) ==
  \/ /\ Return(p, "delete", IF status[p] = "exited" THEN "exit code" ELSE "error")
     /\ exec[p] = "exited"
     /\ exec' = [exec EXCEPT ![p] = "deleted"]
     /\ UNCHANGED <<object, output, killed, status>>
  \/ /\ Move(p, "delete", "returned")
     /\ UNCHANGED <<object, exec, output, killed, status, result>>

\* containerd deletes a process that has exited, or fails; the exit code comes
\* with the errors of the status and of the delete.
Delete(p) ==
  \/ /\ Return(p, "delete", IF status[p] = "exited" THEN "exit code" ELSE "error")
     /\ exec[p] = "exited"
     /\ exec' = [exec EXCEPT ![p] = "deleted"]
     /\ UNCHANGED <<object, output, killed, status>>
  \/ /\ Return(p, "delete", "error")
     /\ UNCHANGED <<object, exec, output, killed, status>>

WaitStep(p) == \/ Exec(p) \/ ExecFails(p) \/ Start(p) \/ StartFails(p)
               \/ WaitCall(p) \/ WaitCallFails(p) \/ ExitStatus(p)
               \/ DrainOutput(p) \/ Delete(p)
-----------------------------------------------------------------------------
(* Signal *)

\* SIGKILL for a process that runs; one that does not is an error of
\* containerd's and changes nothing.  SIGTERM may be ignored: Exit covers it.
Kill(p) == /\ ~panicked
           /\ wait[p] # "new"
           /\ object[p]
           /\ exec[p] = "running"
           /\ killed' = [killed EXCEPT ![p] = TRUE]
           /\ UNCHANGED <<wait, object, exec, output, status, result, panicked>>

\* Signal dereferences p.process before Wait has assigned it.
SignalTooEarly(p) == /\ ~panicked
                     /\ wait[p] # "new"
                     /\ ~object[p]
                     /\ panicked' = TRUE
                     /\ UNCHANGED processVars
-----------------------------------------------------------------------------
(* The process itself *)

\* It ends, and leaves its output to nobody or to a daemon it has started.
Exit(p) == /\ exec[p] = "running"
           /\ exec' = [exec EXCEPT ![p] = "exited"]
           /\ \E o \in {"closed", "daemon"} :
                /\ output[p] = "closed" => o = "closed"
                /\ output' = [output EXCEPT ![p] = o]
           /\ UNCHANGED <<wait, object, killed, status, result, panicked>>

\* It closes its output and goes on.
Detach(p) == /\ exec[p] = "running"
             /\ output[p] = "main"
             /\ output' = [output EXCEPT ![p] = "closed"]
             /\ UNCHANGED <<wait, object, exec, killed, status, result, panicked>>

DaemonEnds(p) == /\ output[p] = "daemon"
                 /\ output' = [output EXCEPT ![p] = "closed"]
                 /\ UNCHANGED <<wait, object, exec, killed, status, result, panicked>>

Next == \E p \in Processes :
          \/ Run(p) \/ WaitStep(p) \/ StatusLost(p)
          \/ Kill(p) \/ SignalTooEarly(p)
          \/ Exit(p) \/ Detach(p) \/ DaemonEnds(p)

Spec == Init /\ [][Next]_vars

\* The goroutine of Wait goes on and a killed process ends; a daemon that
\* holds the output may run for ever.
FairSpec == /\ Spec
            /\ \A p \in Processes : /\ WF_vars(WaitStep(p))
                                    /\ WF_vars(Exit(p) /\ killed[p])
-----------------------------------------------------------------------------
(* Properties *)

\* The type of every variable; exactly the Waits that returned have a result.
TypeOK == /\ wait \in [Processes -> WaitSteps]
          /\ object \in [Processes -> BOOLEAN]
          /\ exec \in [Processes -> ExecStates]
          /\ output \in [Processes -> {"none", "main", "daemon", "closed"}]
          /\ killed \in [Processes -> BOOLEAN]
          /\ status \in [Processes -> {"none", "exited", "error"}]
          /\ result \in [Processes -> {"none", "exit code", "error"}]
          /\ \A p \in Processes : wait[p] = "returned" <=> result[p] # "none"
          /\ panicked \in BOOLEAN

\* A Wait that returns an exit code has seen everything: the process and the
\* daemons it left are over, all output is there, and containerd has let go.
ExitCodeIsFinal ==
  \A p \in Processes :
    result[p] = "exit code" =>
      status[p] = "exited" /\ exec[p] = "deleted" /\ output[p] = "closed"

\* The Wait of a killed process returns, unless a daemon of the process keeps
\* the output open for ever, or a Signal of another process, sent before its
\* Wait, has taken the rep down.
KillEndsWait ==
  \A p \in Processes :
    <>killed[p] /\ []<>(output[p] # "daemon") =>
      <>(wait[p] = "returned" \/ panicked)
=============================================================================
