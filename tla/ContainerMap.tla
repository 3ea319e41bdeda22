---------------------------- MODULE ContainerMap ----------------------------
(***************************************************************************)
(* The handle -> container table of the garden client (container_map.go)   *)
(* and the part of a container object (container.go) that outlives a call: *)
(* how it came to be, the host ports of its pod and whether its containerd *)
(* tasks are loaded.  Every action is one critical section under the lock. *)
(***************************************************************************)
EXTENDS Naturals

VARIABLE containers

NoContainer == [kind |-> "none", ports |-> {}, tasks |-> FALSE]

\* NewContainer as Create calls it: a logger and runners, no tasks yet.
FreshContainer(ports) == [kind |-> "fresh", ports |-> ports, tasks |-> FALSE]

\* NewContainer as containerRestoreInfo calls it: nil logger, nil runners, no
\* tasks; such a container can be destroyed but not used.
RestoredContainer(ports) ==
  [kind |-> "restored", ports |-> ports, tasks |-> FALSE]

Container == [kind : {"none", "fresh", "restored"}, ports : SUBSET Nat,
              tasks : BOOLEAN]

Exists(h) == containers[h].kind # "none"

Tracked == {h \in DOMAIN containers : Exists(h)}
----------------------------------------------------------------------------
\* Mutant of Add: the handle is not looked up before it is written.
AddUnchecked(h, c) == containers' = [containers EXCEPT ![h] = c]

\* Add refuses a handle that is already in the table.
Add(h, c) == ~Exists(h) /\ containers' = [containers EXCEPT ![h] = c]

AddRefused(h) == Exists(h) /\ UNCHANGED containers

\* Remove deletes the entry, if there is one.
Remove(h) == containers' = [containers EXCEPT ![h] = NoContainer]
=============================================================================
