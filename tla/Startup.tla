------------------------------ MODULE Startup ------------------------------
(***************************************************************************)
(* The rep process from its first line to its exit (cmd/rep/main.go and    *)
(* Initialize in init.go): the steps of start-up in their order, each with *)
(* the error that ends the process, waitForGarden among them, then the     *)
(* ordered group of long-running members, signals, and the way out.        *)
(***************************************************************************)
EXTENDS GardenPing, Sequences, FiniteSets

CONSTANTS Stacks,       \* the names of root file systems
          Archives      \* the stacks of the archives in ExtraRootfsDir, in the
                        \* order of the walk

ASSUME StartupAssumption == Archives \in Seq(Stacks)

VARIABLES phase,        \* the step the process is at, or "exited"
          cfg,          \* what the configuration says of root file systems
          rootfs,       \* rootFSMap, preloadedRootFSes, extraRootFSes, sidecar
          walked,       \* archives the walk has visited
          tls,          \* the TLS key and certificate the downloader got
          pools,        \* the work pools that exist
          manager,      \* the controller manager's goroutine runs
          members,      \* members[i]: a member of the group
          stopping,     \* the group stops its members
          failed,       \* a member ended with an error
          status        \* how the process ends

initVars == <<cfg, rootfs, walked, tls, pools, manager>>
groupVars == <<members, stopping, failed>>
outVars == <<groupVars, status>>
vars == <<pingVars, phase, initVars, outVars>>

Steps == <<"configure", "sidecar", "walk", "namedSidecar", "environment",
           "manager", "cache", "clients", "waitForGarden", "pools", "destroy",
           "assets", "workdir", "capacity", "credentials", "presence",
           "servers", "group">>

\* The phases that follow the steps of start-up; Cleanup is the deferred call.
Ends == {"group", "cleanup", "leaving", "exited"}

PhaseNumber(p) == CHOOSE i \in DOMAIN Steps : Steps[i] = p

Proceed(p) == phase = p /\ phase' = Steps[PhaseNumber(p) + 1]

\* The members, in the order of the group; debug-server is there only if the
\* configuration has an address for it.
ExecutorMembers == <<"volman-driver-syncer", "metrics-reporter", "hub-closer",
                     "container-metrics-reporter", "registry-pruner",
                     "container-reaper">>
RepMembers == <<"presence", "http_server", "https_server", "evacuation-cleanup",
                "bulker", "event-consumer", "evacuator",
                "request-metrics-notifier">>

\* Mutant of Members: the executor's members come last.
MembersReversed == <<"debug-server">> \o RepMembers \o ExecutorMembers

Members == <<"debug-server">> \o ExecutorMembers \o RepMembers

NoMembers == [i \in DOMAIN Members |-> "off"]

Running == {Members[i] : i \in {j \in DOMAIN Members : members[j] = "running"}}

NoPath == <<>>
ConfiguredPath == <<"configured">>
PreloadedPath(s) == <<s, 0>>
NoRootFS == [map |-> [s \in Stacks |-> NoPath],
             preloaded |-> [s \in Stacks |-> NoPath],
             extra |-> [s \in Stacks |-> NoPath], sidecar |-> NoPath]

\* The sidecar's root file system is given by its path, by its stack, or not.
SidecarConfigs == {"path", "none"} \cup Stacks

Init ==
  /\ PingInit
  /\ cfg \in [preloaded : SUBSET Stacks, sidecar : SidecarConfigs]
  /\ phase = "configure"
  /\ rootfs = NoRootFS
  /\ walked = 0
  /\ tls = {}
  /\ pools = {}
  /\ manager = FALSE
  /\ members = NoMembers
  /\ stopping = FALSE
  /\ failed = FALSE
  /\ status = "none"
-----------------------------------------------------------------------------
(* The ends of the process *)

\* os.Exit, or the end of main: nothing that is deferred runs any more, and
\* the memory of the process is gone.
Exit(s) == /\ phase' = "exited"
           /\ status' = s
           /\ loop' = "select" /\ elapsed' = 0 /\ beats' = 0 /\ metric' = Off
           /\ pingRequest' = 0 /\ heartbeat' = StalledMetricHeartbeatInterval
           /\ asking' = 0 /\ answers' = [r \in Responses |-> 0]
           /\ rootfs' = NoRootFS /\ walked' = 0 /\ tls' = {} /\ pools' = {}
           /\ manager' = FALSE
           /\ members' = NoMembers /\ stopping' = FALSE /\ failed' = FALSE
           /\ UNCHANGED <<serving, cfg>>

\* A step before the group returns an error, or calls os.Exit.
StepFails ==
  /\ phase \notin {"sidecar", "walk", "presence", "servers"} \cup Ends
  /\ phase = "waitForGarden" => loop = "UnrecoverableError"
  /\ phase = "namedSidecar" => /\ cfg.sidecar \in Stacks
                                /\ rootfs.map[cfg.sidecar] = NoPath
  /\ Exit("failure")

\* logger.Fatal panics, and the deferred Cleanup runs.
StepPanics ==
  /\ phase \in {"presence", "servers"}
  /\ phase' = "cleanup"
  /\ status' = "panic"
  /\ UNCHANGED <<pingVars, initVars, groupVars>>

\* The controller manager's goroutine ends the process whenever it fails.
ManagerFails == manager /\ Exit("failure")

\* No handler is installed before the group runs: a signal ends the process.
SignalEarly == phase \notin Ends /\ Exit("signal")
-----------------------------------------------------------------------------
(* main: configuration and root file systems *)

Configure ==
  /\ Proceed("configure")
  /\ rootfs' = LET stacks == [s \in Stacks |-> IF s \in cfg.preloaded
                                               THEN PreloadedPath(s) ELSE NoPath]
               IN  [NoRootFS EXCEPT !.map = stacks, !.preloaded = stacks]
  /\ UNCHANGED <<pingVars, cfg, walked, tls, pools, manager, outVars>>

\* With neither a path nor a stack, the path of whichever stack the iteration
\* over the map comes to first, before the archives are known.
ChooseSidecar ==
  /\ Proceed("sidecar")
  /\ \E p \in CASE cfg.sidecar = "path" -> {ConfiguredPath}
                [] cfg.sidecar = "none" /\ cfg.preloaded # {} ->
                     {PreloadedPath(s) : s \in cfg.preloaded}
                [] OTHER -> {NoPath} :
       rootfs' = [rootfs EXCEPT !.sidecar = p]
  /\ UNCHANGED <<pingVars, cfg, walked, tls, pools, manager, outVars>>

\* Mutant of WalkArchive: the stack stays among the preloaded ones.
WalkArchiveKeeping ==
  /\ phase = "walk"
  /\ walked < Len(Archives)
  /\ walked' = walked + 1
  /\ rootfs' = LET key == Archives[walked'] path == <<key, walked'>>
               IN  [rootfs EXCEPT !.map[key] = path, !.extra[key] = path]
  /\ UNCHANGED <<pingVars, phase, cfg, tls, pools, manager, outVars>>

\* An archive overrides the stack it is named after, and an earlier archive.
WalkArchive ==
  /\ phase = "walk"
  /\ walked < Len(Archives)
  /\ walked' = walked + 1
  /\ rootfs' = LET key == Archives[walked'] path == <<key, walked'>>
               IN  [rootfs EXCEPT !.map[key] = path, !.extra[key] = path,
                                  !.preloaded[key] = NoPath]
  /\ UNCHANGED <<pingVars, phase, cfg, tls, pools, manager, outVars>>

\* The walk ends, early if a directory cannot be read.
WalkEnds == Proceed("walk") /\ UNCHANGED <<pingVars, initVars, outVars>>

\* A stack that is not in the map is an error (StepFails).
FindSidecar ==
  /\ Proceed("namedSidecar")
  /\ IF cfg.sidecar \in Stacks
     THEN /\ rootfs.map[cfg.sidecar] # NoPath
          /\ rootfs' = [rootfs EXCEPT !.sidecar = rootfs.map[cfg.sidecar]]
     ELSE UNCHANGED rootfs
  /\ UNCHANGED <<pingVars, cfg, walked, tls, pools, manager, outVars>>
-----------------------------------------------------------------------------
(* Initialize *)

Quietly(p) == Proceed(p) /\ UNCHANGED <<pingVars, initVars, outVars>>

\* The post-setup hook and WORKLOADS_NAMESPACE are read.
ReadEnvironment == Quietly("environment")

\* The manager runs in a goroutine of its own from here on.
StartManager ==
  /\ Proceed("manager")
  /\ manager' = TRUE
  /\ UNCHANGED <<pingVars, cfg, rootfs, walked, tls, pools, outVars>>

SyncCache == Quietly("cache")

\* The kubelet, containerd and garden clients are made.
MakeClients == Quietly("clients")

PingStep ==
  /\ phase = "waitForGarden"
  /\ PingNext
  /\ UNCHANGED <<phase, initVars, outVars>>

\* waitForGarden has returned, and its timers and clock are forgotten.
GardenAnswers ==
  /\ loop = "nil"
  /\ Proceed("waitForGarden")
  /\ elapsed' = 0 /\ beats' = 0 /\ heartbeat' = 0
  /\ UNCHANGED <<serving, loop, pingRequest, asking, answers, metric, initVars,
                 outVars>>

\* The pools that the executor's client gets.
ClientPools == {"creation", "deletion", "read", "metrics"}

MakePools ==
  /\ Proceed("pools")
  /\ pools' = ClientPools
  /\ UNCHANGED <<pingVars, cfg, rootfs, walked, tls, manager, outVars>>

\* destroyContainers, in the deletion pool; module Rep has its steps, and what
\* becomes of the containers.
DestroyStrays == "deletion" \in pools /\ Quietly("destroy")

\* Mutant of TLSConfigFromConfig: a certificate without its key will do.
TLSConfigLoose(key, cert) == key => cert

\* A key without its certificate, or the reverse, is refused.
TLSConfigFromConfig(key, cert) == key = cert

\* The health-check pool, the TLS configuration and the downloader with the
\* state of its cache.
MakeAssets ==
  /\ Proceed("assets")
  /\ \E key, cert \in BOOLEAN :
       /\ TLSConfigFromConfig(key, cert)
       /\ tls' = {x \in {"key", "cert"} : IF x = "key" THEN key ELSE cert}
  /\ pools' = pools \cup {"healthcheck"}
  /\ UNCHANGED <<pingVars, cfg, rootfs, walked, manager, outVars>>

SetupWorkDir == Quietly("workdir")

FetchCapacity == Quietly("capacity")

\* The credential manager, the container store and the executor's client.
MakeCredManager == Quietly("credentials")

\* main again, with Cleanup deferred: BBS client, address, cell presence.
MakePresence == Quietly("presence")

\* The first certificate has to name 127.0.0.1; without a debug address there
\* is no debug server.
MakeServers ==
  /\ Proceed("servers")
  /\ \E debug \in BOOLEAN :
       members' = [members EXCEPT ![1] = IF debug THEN "off" ELSE "absent"]
  /\ UNCHANGED <<pingVars, initVars, stopping, failed, status>>
-----------------------------------------------------------------------------
(* The ordered group, and the way out *)

\* A member runs when all those before it do.
StartMember(i) ==
  /\ phase = "group"
  /\ ~stopping
  /\ members[i] = "off"
  /\ \A j \in 1 .. i - 1 : members[j] \in {"running", "absent"}
  /\ members' = [members EXCEPT ![i] = "running"]
  /\ UNCHANGED <<pingVars, phase, initVars, stopping, failed,
                 status>>

\* The members that end by a signal alone.
OnSignalOnly == {"hub-closer", "http_server", "https_server"}

\* A member cannot start (a server cannot listen), or ends by itself.
MemberEnds(i) ==
  /\ phase = "group"
  /\ ~stopping
  /\ \/ members[i] = "running" /\ Members[i] \notin OnSignalOnly
     \/ /\ members[i] = "off" /\ Members[i] # "hub-closer"
        /\ \A j \in 1 .. i - 1 : members[j] \in {"running", "absent"}
  /\ members' = [members EXCEPT ![i] = IF @ = "off" THEN "failed" ELSE "ended"]
  /\ stopping' = TRUE
  /\ failed' \in (IF members[i] = "off" THEN {TRUE} ELSE BOOLEAN)
  /\ UNCHANGED <<pingVars, phase, initVars, status>>

Signal ==
  /\ phase = "group"
  /\ ~stopping
  /\ stopping' = TRUE
  /\ UNCHANGED <<pingVars, phase, initVars, members, failed, status>>

\* The members are told to stop one after the other, the last one first.
StopMember(i) ==
  /\ phase = "group"
  /\ stopping
  /\ members[i] = "running"
  /\ \A j \in i + 1 .. Len(Members) : members[j] # "running"
  /\ members' = [members EXCEPT ![i] = "ended"]
  /\ failed' \in {failed, TRUE}
  /\ UNCHANGED <<pingVars, phase, initVars, stopping, status>>

\* Mutant of GroupEnded: every member is waited for, those that never ran too.
GroupAllEnded == /\ phase = "group" /\ stopping
                 /\ \A i \in DOMAIN Members : members[i] = "ended"

GroupEnded == phase = "group" /\ stopping /\ Running = {}

\* The group has ended with an error: main calls os.Exit.
MainFails == GroupEnded /\ failed /\ Exit("failure")

\* Mutant of MainReturns: main does not wait for the members to stop.
MainReturnsEarly ==
  /\ phase = "group" /\ stopping /\ ~failed
  /\ phase' = "cleanup"
  /\ status' = "success"
  /\ UNCHANGED <<pingVars, initVars, groupVars>>

\* The group has ended without one: main returns, and Cleanup runs.
MainReturns ==
  /\ GroupEnded /\ ~failed
  /\ phase' = "cleanup"
  /\ status' = "success"
  /\ UNCHANGED <<pingVars, initVars, groupVars>>

\* The executor's client stops its pools.
Cleanup ==
  /\ phase = "cleanup"
  /\ phase' = "leaving"
  /\ pools' = pools \ ClientPools
  /\ UNCHANGED <<pingVars, cfg, rootfs, walked, tls, manager, outVars>>

MainEnds == phase = "leaving" /\ Exit(status)

InitializeStep ==
  \/ Configure \/ ChooseSidecar \/ WalkArchive \/ WalkEnds \/ FindSidecar
  \/ ReadEnvironment \/ StartManager \/ SyncCache \/ MakeClients
  \/ GardenAnswers \/ MakePools \/ DestroyStrays \/ MakeAssets \/ SetupWorkDir
  \/ FetchCapacity \/ MakeCredManager \/ MakePresence \/ MakeServers

StopStep == \/ \E i \in DOMAIN Members : StopMember(i)
            \/ MainFails \/ MainReturns \/ Cleanup \/ MainEnds

Next == \/ InitializeStep \/ PingStep \/ StopStep
        \/ StepFails \/ StepPanics \/ ManagerFails \/ SignalEarly
        \/ Signal
        \/ \E i \in DOMAIN Members : StartMember(i) \/ MemberEnds(i)

Spec == Init /\ [][Next]_vars

\* In waitForGarden time passes, a case of the select that is ready is chosen
\* at last, and containerd answers while it serves; a ping of a containerd that
\* is down may hang for ever.  Members stop when they are told to.
FairSpec ==
  /\ Spec
  /\ WF_vars(PingStep /\ Tick) /\ WF_vars(PingStep /\ RequestPing)
  /\ WF_vars(PingStep /\ Heartbeat) /\ WF_vars(PingStep /\ Answer("ok"))
  /\ \A r \in Responses : WF_vars(PingStep /\ Respond(r))
  /\ WF_vars(GardenAnswers) /\ WF_vars(StopStep)
-----------------------------------------------------------------------------
(* Properties *)

\* The type of every variable.
TypeOK ==
  /\ PingTypeOK
  /\ phase \in {Steps[i] : i \in DOMAIN Steps} \cup Ends
  /\ cfg \in [preloaded : SUBSET Stacks, sidecar : SidecarConfigs]
  /\ DOMAIN rootfs = DOMAIN NoRootFS
  /\ walked \in 0 .. Len(Archives)
  /\ tls \subseteq {"key", "cert"}
  /\ pools \subseteq ClientPools \cup {"healthcheck"}
  /\ members \in [DOMAIN Members -> {"absent", "off", "running", "ended",
                                    "failed"}]
  /\ {manager, stopping, failed} \subseteq BOOLEAN
  /\ status \in {"none", "success", "failure", "panic", "signal"}
  /\ phase = "exited" => status # "none"

\* What the cell tells the auctioneer agrees with what it runs: a stack is
\* either preloaded or extra, and the path it is run from is that one, however
\* many archives have its name and wherever the walk stops.
RootFSPartition ==
  \A s \in Stacks :
    /\ rootfs.preloaded[s] = NoPath \/ rootfs.extra[s] = NoPath
    /\ rootfs.map[s] = IF rootfs.extra[s] # NoPath THEN rootfs.extra[s]
                       ELSE rootfs.preloaded[s]

\* A server of the rep runs only when containerd has answered, TLS has both
\* halves of its identity or none, and a sidecar named by its stack has the
\* path that stack is run from, an archive's if there is one.
ServesAsConfigured ==
  Running \cap {"http_server", "https_server"} # {} =>
    /\ loop = "nil"
    /\ tls \in {{}, {"key", "cert"}}
    /\ cfg.sidecar \in Stacks => /\ rootfs.sidecar # NoPath
                                /\ rootfs.sidecar = rootfs.map[cfg.sidecar]

\* The event hub is not closed while the event consumer reads from it.
HubOpenWhileUsed ==
  "event-consumer" \in Running =>
    \A i \in DOMAIN Members : Members[i] = "hub-closer" => members[i] # "ended"

\* The pools are there as long as a member may use one: on every way out that
\* runs Cleanup, the last member has stopped before it.
PoolsOutliveMembers == Running # {} => pools = ClientPools \cup {"healthcheck"}

Waiting == phase = "waitForGarden"

\* "periodically emit metrics": as long as the wait goes on, heartbeats do, a
\* ping that hangs included.
KeepsBeating == <>[]Waiting => []<>(beats = 0) /\ []<>(beats = 1)

\* Once containerd serves for good, every wait ends.
WaitEnds == <>[]serving => (Waiting ~> ~Waiting)

\* A group that is told to stop, or loses a member, ends the process.
StopsOnSignal == stopping ~> phase = "exited"
=============================================================================
