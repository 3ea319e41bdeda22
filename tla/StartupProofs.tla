--------------------------- MODULE StartupProofs ---------------------------
(***************************************************************************)
(* The life of the rep process, for every set of stacks, every list of     *)
(* archives and every ping and heartbeat interval.                         *)
(***************************************************************************)
EXTENDS Startup, TLAPS
-----------------------------------------------------------------------------
(* waitForGarden *)

\* No UnrecoverableError is ever on its way: Ping wraps what it gets.
Wrapped == answers["UnrecoverableError"] = 0

\* The clock has advanced by what is gone from the heartbeat timer, so that a
\* heartbeat never reports zero.
ClockKeepsUp == loop = "select" =>
                  elapsed + heartbeat >= StalledMetricHeartbeatInterval

PingInv == /\ PingTypeOK
           /\ OnePingAtATime
           /\ OnlySuccessReturns
           /\ Wrapped
           /\ ClockKeepsUp

\* The initial state: the ping timer is armed, nothing else has happened.
LEMMA PingStarts == PingInit => PingInv
BY PingAssumption
   DEF PingInit, PingInv, PingTypeOK, OnePingAtATime, OnlySuccessReturns, Wrapped,
       ClockKeepsUp, Responses

\* Every step of the loop, of a ping's goroutine, of the clock and of
\* containerd keeps the invariant.
LEMMA PingStepKeeps == PingInv /\ [PingNext]_pingVars => PingInv'
<1> SUFFICES ASSUME PingInv, [PingNext]_pingVars PROVE PingInv'
  OBVIOUS
<1> USE PingAssumption
    DEF PingInv, PingTypeOK, OnePingAtATime, OnlySuccessReturns, Wrapped,
        ClockKeepsUp, Responses
<1>1. CASE Tick
  BY <1>1 DEF Tick, Less
<1>2. CASE Containerd
  BY <1>2 DEF Containerd
<1>3. CASE RequestPing
  BY <1>3 DEF RequestPing
<1>4. CASE Heartbeat
  BY <1>4 DEF Heartbeat
<1>5. ASSUME NEW o \in Outcomes, Answer(o) PROVE PingInv'
  <2>1. Ping(o) \in {"nil", "plain"}
    BY DEF Ping
  <2>2. CASE Ping(o) = "nil"
    BY <1>5, <2>2 DEF Answer
  <2>3. CASE Ping(o) = "plain"
    BY <1>5, <2>3 DEF Answer
  <2> QED BY <2>1, <2>2, <2>3
<1>6. ASSUME NEW r \in Responses, Respond(r) PROVE PingInv'
  <2>1. CASE r = "nil"
    BY <1>6, <2>1 DEF Respond
  <2>2. CASE r = "plain"
    BY <1>6, <2>2 DEF Respond
  <2>3. CASE r = "UnrecoverableError"
    BY <1>6, <2>3 DEF Respond
  <2> QED BY <2>1, <2>2, <2>3
<1>7. CASE UNCHANGED pingVars
  BY <1>7 DEF pingVars
<1> QED BY <1>1, <1>2, <1>3, <1>4, <1>5, <1>6, <1>7 DEF PingNext

\* The invariant holds throughout.
LEMMA PingInvariant == PingSpec => []PingInv
BY PingStarts, PingStepKeeps, PTL DEF PingSpec

\* Pings never overlap, and none is left at the channel when waitForGarden
\* has returned.
THEOREM OnePing == PingSpec => []OnePingAtATime
<1>1. PingInv => OnePingAtATime
  BY DEF PingInv
<1> QED BY <1>1, PingInvariant, PTL

\* waitForGarden retries until a ping succeeds, and reports a stalled
\* duration of zero from then on only.
THEOREM SuccessOnly == PingSpec => []OnlySuccessReturns
<1>1. PingInv => OnlySuccessReturns
  BY DEF PingInv
<1> QED BY <1>1, PingInvariant, PTL
-----------------------------------------------------------------------------
(* The order of the steps and of the members *)

\* The names of the steps of start-up, without the group they lead to.
StepNames == {"configure", "sidecar", "walk", "namedSidecar", "environment",
              "manager", "cache", "clients", "waitForGarden", "pools",
              "destroy", "assets", "workdir", "capacity", "credentials",
              "presence", "servers"}

\* The steps are eighteen, the group the last of them.
LEMMA StepList ==
  /\ DOMAIN Steps = 1 .. 18
  /\ Len(Steps) = 18
  /\ Steps[1] = "configure" /\ Steps[2] = "sidecar" /\ Steps[3] = "walk"
  /\ Steps[4] = "namedSidecar" /\ Steps[5] = "environment"
  /\ Steps[6] = "manager" /\ Steps[7] = "cache" /\ Steps[8] = "clients"
  /\ Steps[9] = "waitForGarden" /\ Steps[10] = "pools"
  /\ Steps[11] = "destroy" /\ Steps[12] = "assets" /\ Steps[13] = "workdir"
  /\ Steps[14] = "capacity" /\ Steps[15] = "credentials"
  /\ Steps[16] = "presence" /\ Steps[17] = "servers" /\ Steps[18] = "group"
BY DEF Steps

\* A name that is at one place only has that place for its number.
LEMMA StepNumber ==
  ASSUME NEW p, NEW n \in 1 .. 18, \A i \in 1 .. 18 : Steps[i] = p <=> i = n
  PROVE  /\ PhaseNumber(p) = n
         /\ Proceed(p) => phase = p /\ phase' = Steps[n + 1]
<1>1. /\ PhaseNumber(p) \in 1 .. 18
      /\ Steps[PhaseNumber(p)] = p
  BY StepList DEF PhaseNumber
<1> QED BY <1>1 DEF Proceed

\* No step is there twice: each one leads to the one after it.
LEMMA ProceedTo ==
  /\ Proceed("configure") => phase = "configure" /\ phase' = "sidecar"
  /\ Proceed("sidecar") => phase = "sidecar" /\ phase' = "walk"
  /\ Proceed("walk") => phase = "walk" /\ phase' = "namedSidecar"
  /\ Proceed("namedSidecar") => phase = "namedSidecar" /\ phase' = "environment"
  /\ Proceed("environment") => phase = "environment" /\ phase' = "manager"
  /\ Proceed("manager") => phase = "manager" /\ phase' = "cache"
  /\ Proceed("cache") => phase = "cache" /\ phase' = "clients"
  /\ Proceed("clients") => phase = "clients" /\ phase' = "waitForGarden"
  /\ Proceed("waitForGarden") => phase = "waitForGarden" /\ phase' = "pools"
  /\ Proceed("pools") => phase = "pools" /\ phase' = "destroy"
  /\ Proceed("destroy") => phase = "destroy" /\ phase' = "assets"
  /\ Proceed("assets") => phase = "assets" /\ phase' = "workdir"
  /\ Proceed("workdir") => phase = "workdir" /\ phase' = "capacity"
  /\ Proceed("capacity") => phase = "capacity" /\ phase' = "credentials"
  /\ Proceed("credentials") => phase = "credentials" /\ phase' = "presence"
  /\ Proceed("presence") => phase = "presence" /\ phase' = "servers"
  /\ Proceed("servers") => phase = "servers" /\ phase' = "group"
<1>0. \A i \in 1 .. 18 : \/ i = 1 \/ i = 2 \/ i = 3 \/ i = 4 \/ i = 5 \/ i = 6
                        \/ i = 7 \/ i = 8 \/ i = 9 \/ i = 10 \/ i = 11
                        \/ i = 12 \/ i = 13 \/ i = 14 \/ i = 15 \/ i = 16
                        \/ i = 17 \/ i = 18
  OBVIOUS
<1>1. \A i \in 1 .. 18 : Steps[i] = "configure" <=> i = 1
  BY <1>0, StepList
<1>2. \A i \in 1 .. 18 : Steps[i] = "sidecar" <=> i = 2
  BY <1>0, StepList
<1>3. \A i \in 1 .. 18 : Steps[i] = "walk" <=> i = 3
  BY <1>0, StepList
<1>4. \A i \in 1 .. 18 : Steps[i] = "namedSidecar" <=> i = 4
  BY <1>0, StepList
<1>5. \A i \in 1 .. 18 : Steps[i] = "environment" <=> i = 5
  BY <1>0, StepList
<1>6. \A i \in 1 .. 18 : Steps[i] = "manager" <=> i = 6
  BY <1>0, StepList
<1>7. \A i \in 1 .. 18 : Steps[i] = "cache" <=> i = 7
  BY <1>0, StepList
<1>8. \A i \in 1 .. 18 : Steps[i] = "clients" <=> i = 8
  BY <1>0, StepList
<1>9. \A i \in 1 .. 18 : Steps[i] = "waitForGarden" <=> i = 9
  BY <1>0, StepList
<1>10. \A i \in 1 .. 18 : Steps[i] = "pools" <=> i = 10
  BY <1>0, StepList
<1>11. \A i \in 1 .. 18 : Steps[i] = "destroy" <=> i = 11
  BY <1>0, StepList
<1>12. \A i \in 1 .. 18 : Steps[i] = "assets" <=> i = 12
  BY <1>0, StepList
<1>13. \A i \in 1 .. 18 : Steps[i] = "workdir" <=> i = 13
  BY <1>0, StepList
<1>14. \A i \in 1 .. 18 : Steps[i] = "capacity" <=> i = 14
  BY <1>0, StepList
<1>15. \A i \in 1 .. 18 : Steps[i] = "credentials" <=> i = 15
  BY <1>0, StepList
<1>16. \A i \in 1 .. 18 : Steps[i] = "presence" <=> i = 16
  BY <1>0, StepList
<1>17. \A i \in 1 .. 18 : Steps[i] = "servers" <=> i = 17
  BY <1>0, StepList
<1>18. Proceed("configure") => phase = "configure" /\ phase' = Steps[2]
  BY <1>1, StepNumber
<1>19. Proceed("sidecar") => phase = "sidecar" /\ phase' = Steps[3]
  BY <1>2, StepNumber
<1>20. Proceed("walk") => phase = "walk" /\ phase' = Steps[4]
  BY <1>3, StepNumber
<1>21. Proceed("namedSidecar") => phase = "namedSidecar" /\ phase' = Steps[5]
  BY <1>4, StepNumber
<1>22. Proceed("environment") => phase = "environment" /\ phase' = Steps[6]
  BY <1>5, StepNumber
<1>23. Proceed("manager") => phase = "manager" /\ phase' = Steps[7]
  BY <1>6, StepNumber
<1>24. Proceed("cache") => phase = "cache" /\ phase' = Steps[8]
  BY <1>7, StepNumber
<1>25. Proceed("clients") => phase = "clients" /\ phase' = Steps[9]
  BY <1>8, StepNumber
<1>26. Proceed("waitForGarden") => phase = "waitForGarden" /\ phase' = Steps[10]
  BY <1>9, StepNumber
<1>27. Proceed("pools") => phase = "pools" /\ phase' = Steps[11]
  BY <1>10, StepNumber
<1>28. Proceed("destroy") => phase = "destroy" /\ phase' = Steps[12]
  BY <1>11, StepNumber
<1>29. Proceed("assets") => phase = "assets" /\ phase' = Steps[13]
  BY <1>12, StepNumber
<1>30. Proceed("workdir") => phase = "workdir" /\ phase' = Steps[14]
  BY <1>13, StepNumber
<1>31. Proceed("capacity") => phase = "capacity" /\ phase' = Steps[15]
  BY <1>14, StepNumber
<1>32. Proceed("credentials") => phase = "credentials" /\ phase' = Steps[16]
  BY <1>15, StepNumber
<1>33. Proceed("presence") => phase = "presence" /\ phase' = Steps[17]
  BY <1>16, StepNumber
<1>34. Proceed("servers") => phase = "servers" /\ phase' = Steps[18]
  BY <1>17, StepNumber
<1> QED BY StepList, <1>18, <1>19, <1>20, <1>21, <1>22, <1>23, <1>24, <1>25,
           <1>26, <1>27, <1>28, <1>29, <1>30, <1>31, <1>32, <1>33, <1>34

\* The members, by their place in the group.
LEMMA MemberList ==
  /\ DOMAIN Members = 1 .. 15
  /\ Len(Members) = 15
  /\ Members[1] = "debug-server"
  /\ Members[2] = "volman-driver-syncer"
  /\ Members[3] = "metrics-reporter"
  /\ Members[4] = "hub-closer"
  /\ Members[5] = "container-metrics-reporter"
  /\ Members[6] = "registry-pruner"
  /\ Members[7] = "container-reaper"
  /\ Members[8] = "presence"
  /\ Members[9] = "http_server"
  /\ Members[10] = "https_server"
  /\ Members[11] = "evacuation-cleanup"
  /\ Members[12] = "bulker"
  /\ Members[13] = "event-consumer"
  /\ Members[14] = "evacuator"
  /\ Members[15] = "request-metrics-notifier"
BY DEF Members, ExecutorMembers, RepMembers

\* The members the properties speak of have one place each.
LEMMA MemberPlaces ==
  \A i \in DOMAIN Members : /\ Members[i] = "hub-closer" <=> i = 4
                            /\ Members[i] = "http_server" <=> i = 9
                            /\ Members[i] = "https_server" <=> i = 10
                            /\ Members[i] = "event-consumer" <=> i = 13
<1>1. \A i \in 1 .. 15 : \/ i = 1 \/ i = 2 \/ i = 3 \/ i = 4 \/ i = 5 \/ i = 6
                        \/ i = 7 \/ i = 8 \/ i = 9 \/ i = 10 \/ i = 11
                        \/ i = 12 \/ i = 13 \/ i = 14 \/ i = 15
  OBVIOUS
<1> QED BY <1>1, MemberList

-----------------------------------------------------------------------------
(* The inductive invariant *)

\* A path is none, the configured one, or that of a stack: preloaded, or the
\* n-th archive's.
Paths == {NoPath, ConfiguredPath} \cup {<<s, n>> : s \in Stacks, n \in Nat}

RootFSOK == rootfs \in [map : [Stacks -> Paths], preloaded : [Stacks -> Paths],
                        extra : [Stacks -> Paths], sidecar : Paths]

\* The phases from one on to the end, a step's own place left out.
AfterDestroy == {"assets", "workdir", "capacity", "credentials", "presence",
                 "servers", "group"}
AfterWait == AfterDestroy \cup {"pools", "destroy", "cleanup", "leaving"}
AfterSidecar == AfterWait \cup {"environment", "manager", "cache", "clients",
                                "waitForGarden"}

\* No member is started before the group, nor after the process has ended, and
\* none runs when the group has.
MembersInGroup ==
  /\ phase \in StepNames \cup {"exited"} => members = NoMembers
  /\ phase # "group" => \A i \in DOMAIN Members : members[i] # "running"

\* A process that is leaving has a status to leave with.
LeavesWithStatus == phase \in {"cleanup", "leaving", "exited"} => status # "none"

\* The wait has ended with an answer.
Answered == phase \in AfterWait => loop = "nil"

\* A sidecar that is named by its stack has that stack's path.
SidecarFound ==
  phase \in AfterSidecar /\ cfg.sidecar \in Stacks =>
    /\ rootfs.sidecar # NoPath
    /\ rootfs.sidecar = rootfs.map[cfg.sidecar]

\* The downloader's identity has both halves or none.
WholeIdentity == tls \in {{}, {"key", "cert"}}

\* The pools are made in two steps, and are there until Cleanup.
PoolsMade ==
  /\ phase \in {"destroy", "assets"} => pools = ClientPools
  /\ phase \in (AfterDestroy \ {"assets"}) \cup {"cleanup"} =>
       pools = ClientPools \cup {"healthcheck"}

\* The hub is open for its reader.
HubOpen == members[13] = "running" => members[4] # "ended"

StartupInv == /\ TypeOK /\ PingInv /\ RootFSOK /\ RootFSPartition
              /\ MembersInGroup /\ LeavesWithStatus /\ Answered
              /\ SidecarFound /\ WholeIdentity /\ PoolsMade
              /\ HubOpen

\* A process starts with nothing.
LEMMA StartupStarts == Init => StartupInv
<1> SUFFICES ASSUME Init PROVE StartupInv
  OBVIOUS
<1>1. PingInv
  BY PingStarts DEF Init
<1>2. RootFSOK
  BY DEF Init, RootFSOK, NoRootFS, Paths
<1>3. TypeOK
  <2>1. {manager, stopping, failed} \subseteq BOOLEAN
    BY DEF Init
  <2>2. DOMAIN rootfs = DOMAIN NoRootFS
    BY DEF Init
  <2>3. /\ phase \in {Steps[i] : i \in DOMAIN Steps} \cup Ends
        /\ phase = "exited" => status # "none"
    BY StepList DEF Init
  <2>4. walked \in 0 .. Len(Archives)
    BY StartupAssumption DEF Init
  <2> QED BY <1>1, <2>1, <2>2, <2>3, <2>4 DEF Init, TypeOK, PingInv, NoMembers
<1>4. RootFSPartition
  BY DEF Init, NoRootFS, RootFSPartition
<1>5. MembersInGroup /\ HubOpen
  BY MemberList
     DEF Init, MembersInGroup, NoMembers, HubOpen
<1> QED
  BY <1>1, <1>2, <1>3, <1>4, <1>5
     DEF Init, StartupInv, LeavesWithStatus, Answered, SidecarFound,
         WholeIdentity, PoolsMade, AfterDestroy, AfterWait, AfterSidecar

\* The end of the process leaves the invariant of a process that is gone.
LEMMA ExitKeeps ==
  ASSUME StartupInv, NEW s \in {"success", "failure", "panic", "signal"}, Exit(s)
  PROVE  StartupInv'
<1>1. PingInv'
  BY PingAssumption
     DEF StartupInv, Exit, PingInv, PingTypeOK, OnePingAtATime, OnlySuccessReturns,
         Wrapped, ClockKeepsUp, Responses
<1>2. RootFSOK'
  BY DEF Exit, RootFSOK, NoRootFS, Paths
<1>3. TypeOK'
  <2>1. ({manager, stopping, failed} \subseteq BOOLEAN)'
    BY DEF Exit, StartupInv, TypeOK
  <2>2. (DOMAIN rootfs = DOMAIN NoRootFS)'
    BY DEF Exit, NoRootFS
  <2>3. (walked \in 0 .. Len(Archives))'
    BY StartupAssumption DEF Exit
  <2> QED BY <1>1, <2>1, <2>2, <2>3
      DEF Exit, StartupInv, TypeOK, PingInv, NoMembers, Ends
<1>4. RootFSPartition'
  BY DEF Exit, NoRootFS, RootFSPartition
<1>5. (MembersInGroup /\ HubOpen)'
  BY MemberList
     DEF Exit, MembersInGroup, NoMembers, HubOpen
<1> QED
  BY <1>1, <1>2, <1>3, <1>4, <1>5
     DEF Exit, StartupInv, LeavesWithStatus, Answered, SidecarFound,
         WholeIdentity, PoolsMade, AfterDestroy, AfterWait, AfterSidecar

\* A step that fails, panics or is interrupted.
LEMMA FailureKeeps ==
  ASSUME StartupInv, StepFails \/ StepPanics \/ ManagerFails \/ SignalEarly
  PROVE  StartupInv'
<1>1. CASE StepFails
  BY <1>1, ExitKeeps DEF StepFails
<1>2. CASE StepPanics
  <2>1. PingInv' /\ RootFSOK' /\ RootFSPartition' /\ HubOpen' /\ WholeIdentity'
    BY <1>2 DEF StepPanics, StartupInv, PingInv, pingVars, initVars, groupVars,
         PingTypeOK, OnePingAtATime, OnlySuccessReturns, Wrapped, ClockKeepsUp,
         RootFSOK, RootFSPartition, HubOpen, WholeIdentity
  <2>2. TypeOK'
    BY <1>2 DEF StepPanics, StartupInv, TypeOK, pingVars, initVars, groupVars,
         PingTypeOK, Ends
  <2>3. MembersInGroup'
    BY <1>2 DEF StepPanics, StartupInv, MembersInGroup, groupVars, StepNames
  <2> QED
    BY <1>2, <2>1, <2>2, <2>3
       DEF StepPanics, StartupInv, pingVars, initVars, groupVars,
           LeavesWithStatus, Answered, SidecarFound, PoolsMade, AfterDestroy, AfterWait, AfterSidecar
<1>3. CASE ManagerFails
  BY <1>3, ExitKeeps DEF ManagerFails
<1>4. CASE SignalEarly
  BY <1>4, ExitKeeps DEF SignalEarly
<1> QED BY <1>1, <1>2, <1>3, <1>4

\* The steps that leave every variable but the phase alone.
LEMMA QuietStepKeeps ==
  ASSUME StartupInv,
         \/ WalkEnds \/ ReadEnvironment \/ SyncCache \/ MakeClients
         \/ SetupWorkDir \/ FetchCapacity \/ MakeCredManager \/ MakePresence
  PROVE  StartupInv'
<1> USE DEF StepNames, AfterDestroy, AfterWait, AfterSidecar
<1>1. /\ UNCHANGED <<pingVars, initVars, outVars>>
      /\ \/ phase = "walk" /\ phase' = "namedSidecar"
         \/ phase = "environment" /\ phase' = "manager"
         \/ phase = "cache" /\ phase' = "clients"
         \/ phase = "clients" /\ phase' = "waitForGarden"
         \/ phase = "workdir" /\ phase' = "capacity"
         \/ phase = "capacity" /\ phase' = "credentials"
         \/ phase = "credentials" /\ phase' = "presence"
         \/ phase = "presence" /\ phase' = "servers"
  BY ProceedTo
     DEF WalkEnds, Quietly, ReadEnvironment, SyncCache, MakeClients,
         SetupWorkDir, FetchCapacity, MakeCredManager, MakePresence
<1>2. PingInv' /\ RootFSOK' /\ RootFSPartition' /\ HubOpen' /\ WholeIdentity'
  BY <1>1 DEF StartupInv, PingInv, pingVars, initVars, outVars, groupVars,
       PingTypeOK, OnePingAtATime, OnlySuccessReturns, Wrapped, ClockKeepsUp,
       RootFSOK, RootFSPartition, HubOpen, WholeIdentity
<1>3. TypeOK'
  <2>1. phase' \in {Steps[i] : i \in DOMAIN Steps}
    BY <1>1, StepList
  <2> QED BY <1>1, <2>1 DEF StartupInv, TypeOK, pingVars, initVars, outVars,
          groupVars, PingTypeOK
<1>4. MembersInGroup'
  BY <1>1 DEF StartupInv, MembersInGroup, outVars, groupVars
<1> QED
  BY <1>1, <1>2, <1>3, <1>4
     DEF StartupInv, pingVars, initVars, outVars, groupVars,
         LeavesWithStatus, Answered, SidecarFound, PoolsMade

\* The steps of main that make the table of root file systems.
LEMMA RootFSStepKeeps ==
  ASSUME StartupInv, Configure \/ ChooseSidecar \/ WalkArchive \/ FindSidecar
  PROVE  StartupInv'
<1> USE DEF StepNames, AfterDestroy, AfterWait, AfterSidecar
<1>1. /\ UNCHANGED <<pingVars, cfg, tls, pools, manager, outVars>>
      /\ \/ Configure /\ phase = "configure" /\ phase' = "sidecar"
         \/ ChooseSidecar /\ phase = "sidecar" /\ phase' = "walk"
         \/ WalkArchive /\ phase = "walk" /\ phase' = "walk"
         \/ FindSidecar /\ phase = "namedSidecar" /\ phase' = "environment"
  BY ProceedTo DEF Configure, ChooseSidecar, WalkArchive, FindSidecar
<1>2. PingInv' /\ HubOpen' /\ WholeIdentity'
  BY <1>1 DEF StartupInv, PingInv, pingVars, outVars, groupVars,
       PingTypeOK, OnePingAtATime, OnlySuccessReturns, Wrapped, ClockKeepsUp,
       HubOpen, WholeIdentity
<1>3. RootFSOK' /\ RootFSPartition' /\ (walked \in 0 .. Len(Archives))'
  <2> USE DEF RootFSOK, RootFSPartition, Paths
  <2>0. RootFSOK /\ RootFSPartition /\ walked \in 0 .. Len(Archives)
    BY DEF StartupInv, TypeOK
  <2>1. CASE Configure
    <3> DEFINE stacks == [s \in Stacks |-> IF s \in cfg.preloaded
                                          THEN PreloadedPath(s) ELSE NoPath]
    <3>1. stacks \in [Stacks -> Paths]
      BY DEF PreloadedPath
    <3> HIDE DEF stacks
    <3>2. rootfs' = [map |-> stacks, preloaded |-> stacks,
                     extra |-> [s \in Stacks |-> NoPath], sidecar |-> NoPath]
      BY <2>1 DEF Configure, NoRootFS, stacks
    <3>3. RootFSOK'
      <4> HIDE DEF Paths
      <4>1. NoPath \in Paths
        BY DEF Paths
      <4> QED BY <3>1, <3>2, <4>1
    <3>4. RootFSPartition'
      BY <3>1, <3>2
    <3>5. walked' = walked
      BY <2>1 DEF Configure
    <3> QED BY <2>0, <3>3, <3>4, <3>5
  <2>2. CASE ChooseSidecar
    <3>1. PICK p \in Paths : rootfs' = [rootfs EXCEPT !.sidecar = p]
      <4> DEFINE choice == CASE cfg.sidecar = "path" -> {ConfiguredPath}
                             [] cfg.sidecar = "none" /\ cfg.preloaded # {} ->
                                  {PreloadedPath(s) : s \in cfg.preloaded}
                             [] OTHER -> {NoPath}
      <4>1. \/ choice = {ConfiguredPath}
            \/ choice = {PreloadedPath(s) : s \in cfg.preloaded}
            \/ choice = {NoPath}
        BY Zenon
      <4>2. PICK p \in choice : rootfs' = [rootfs EXCEPT !.sidecar = p]
        BY <2>2, Zenon DEF ChooseSidecar
      <4> HIDE DEF choice
      <4>3. cfg.preloaded \subseteq Stacks
        BY DEF StartupInv, TypeOK
      <4>4. p \in Paths
        BY <4>1, <4>2, <4>3 DEF PreloadedPath
      <4> QED BY <4>2, <4>4
    <3> QED BY <2>0, <2>2, <3>1 DEF ChooseSidecar
  <2>3. CASE WalkArchive
    <3> DEFINE key == Archives[walked']
    <3>1. walked' \in Nat /\ walked' \in 0 .. Len(Archives) /\ key \in Stacks
      BY <2>0, <2>3, StartupAssumption DEF WalkArchive
    <3>2. <<key, walked'>> \in Paths /\ <<key, walked'>> # NoPath
      BY <3>1 DEF NoPath
    <3>3. rootfs' = [rootfs EXCEPT !.map[key] = <<key, walked'>>,
                                   !.extra[key] = <<key, walked'>>,
                                   !.preloaded[key] = NoPath]
      BY <2>3 DEF WalkArchive
    <3> HIDE DEF key
    <3>4. /\ rootfs'.map = [rootfs.map EXCEPT ![key] = <<key, walked'>>]
          /\ rootfs'.extra = [rootfs.extra EXCEPT ![key] = <<key, walked'>>]
          /\ rootfs'.preloaded = [rootfs.preloaded EXCEPT ![key] = NoPath]
          /\ rootfs'.sidecar = rootfs.sidecar
      BY <2>0, <3>3
    <3>5. RootFSOK'
      <4> HIDE DEF Paths
      <4>1. NoPath \in Paths
        BY DEF Paths
      <4> QED BY <2>0, <3>1, <3>2, <3>3, <4>1
    <3>6. RootFSPartition'
      BY <2>0, <3>1, <3>2, <3>4
    <3> QED BY <3>1, <3>5, <3>6
  <2>4. CASE FindSidecar
    BY <2>0, <2>4 DEF FindSidecar, StartupInv, TypeOK
  <2> QED BY <1>1, <2>1, <2>2, <2>3, <2>4
<1>4. TypeOK'
  <2>1. phase' \in {Steps[i] : i \in DOMAIN Steps}
    BY <1>1, StepList
  <2>2. (DOMAIN rootfs = DOMAIN NoRootFS)'
    BY <1>3 DEF RootFSOK, NoRootFS
  <2> QED BY <1>1, <1>3, <2>1, <2>2 DEF StartupInv, TypeOK, pingVars, outVars,
          groupVars, PingTypeOK
<1>5. MembersInGroup'
  BY <1>1 DEF StartupInv, MembersInGroup, outVars, groupVars
<1>6. SidecarFound'
  <2>1. CASE FindSidecar
    BY <1>1, <2>1 DEF FindSidecar, SidecarFound, StartupInv, RootFSOK
  <2> QED BY <1>1, <2>1 DEF SidecarFound
<1> QED
  BY <1>1, <1>2, <1>3, <1>4, <1>5, <1>6
     DEF StartupInv, pingVars, outVars, groupVars,
         LeavesWithStatus, Answered, PoolsMade

\* A step of the wait, and its return.
LEMMA WaitStepKeeps ==
  ASSUME StartupInv, PingStep \/ GardenAnswers
  PROVE  StartupInv'
<1> USE DEF StepNames, AfterDestroy, AfterWait, AfterSidecar
<1>1. /\ UNCHANGED <<initVars, outVars>>
      /\ phase = "waitForGarden"
      /\ \/ phase' = "waitForGarden"
         \/ phase' = "pools" /\ loop' = "nil"
  BY ProceedTo DEF PingStep, GardenAnswers
<1>2. PingInv'
  <2>1. CASE PingStep
    BY <2>1, PingStepKeeps DEF PingStep, StartupInv
  <2>2. CASE GardenAnswers
    BY <2>2, PingAssumption
       DEF GardenAnswers, StartupInv, PingInv, PingTypeOK, OnePingAtATime,
           OnlySuccessReturns, Wrapped, ClockKeepsUp
  <2> QED BY <2>1, <2>2
<1>3. RootFSOK' /\ RootFSPartition' /\ HubOpen' /\ WholeIdentity'
  BY <1>1 DEF StartupInv, initVars, outVars, groupVars, RootFSOK,
       RootFSPartition, HubOpen, WholeIdentity
<1>4. TypeOK'
  <2>1. phase' \in {Steps[i] : i \in DOMAIN Steps}
    BY <1>1, StepList
  <2> QED BY <1>1, <1>2, <2>1 DEF StartupInv, TypeOK, initVars, outVars,
          groupVars, PingInv
<1>5. MembersInGroup'
  BY <1>1 DEF StartupInv, MembersInGroup, outVars, groupVars
<1> QED
  BY <1>1, <1>2, <1>3, <1>4, <1>5
     DEF StartupInv, initVars, outVars, groupVars, LeavesWithStatus, Answered,
         SidecarFound, PoolsMade

\* The steps of Initialize that make something.
LEMMA InitializeStepKeeps ==
  ASSUME StartupInv,
         StartManager \/ MakePools \/ DestroyStrays \/ MakeAssets
  PROVE  StartupInv'
<1> USE DEF StepNames, AfterDestroy, AfterWait, AfterSidecar
<1>1. /\ UNCHANGED <<pingVars, cfg, rootfs, walked, groupVars, status>>
      /\ \/ /\ phase = "manager" /\ phase' = "cache"
            /\ manager' = TRUE /\ UNCHANGED <<tls, pools>>
         \/ /\ phase = "pools" /\ phase' = "destroy" /\ pools' = ClientPools
            /\ UNCHANGED <<tls, manager>>
         \/ /\ phase = "destroy" /\ phase' = "assets"
            /\ UNCHANGED <<tls, manager, pools>>
         \/ /\ phase = "assets" /\ phase' = "workdir"
            /\ pools' = pools \cup {"healthcheck"}
            /\ UNCHANGED manager
  BY ProceedTo
     DEF StartManager, MakePools, DestroyStrays, Quietly, MakeAssets, initVars,
         outVars
<1>2. WholeIdentity'
  <2>1. CASE MakeAssets
    <3>1. PICK key, cert \in BOOLEAN :
            /\ key = cert
            /\ tls' = {x \in {"key", "cert"} : IF x = "key" THEN key ELSE cert}
      BY <2>1, Zenon DEF MakeAssets, TLSConfigFromConfig
    <3>2. CASE key = TRUE
      BY <3>1, <3>2 DEF WholeIdentity
    <3>3. CASE key = FALSE
      BY <3>1, <3>3 DEF WholeIdentity
    <3> QED BY <3>2, <3>3
  <2>2. tls' = tls => WholeIdentity'
    BY DEF WholeIdentity, StartupInv
  <2> QED BY <2>1, <2>2
      DEF StartManager, MakePools, DestroyStrays, Quietly, initVars
<1>3. PingInv' /\ RootFSOK' /\ RootFSPartition' /\ HubOpen'
  BY <1>1 DEF StartupInv, PingInv, pingVars, groupVars,
       PingTypeOK, OnePingAtATime, OnlySuccessReturns, Wrapped, ClockKeepsUp,
       RootFSOK, RootFSPartition, HubOpen
<1>4. TypeOK'
  <2>1. phase' \in {Steps[i] : i \in DOMAIN Steps} /\ phase' # "exited"
    BY <1>1, StepList
  <2>2. ({manager, stopping, failed} \subseteq BOOLEAN)'
    BY <1>1 DEF StartupInv, TypeOK, groupVars
  <2>3. (pools \subseteq ClientPools \cup {"healthcheck"})'
    BY <1>1 DEF StartupInv, TypeOK
  <2>4. (tls \subseteq {"key", "cert"})'
    BY <1>2 DEF WholeIdentity
  <2> QED BY <1>1, <2>1, <2>2, <2>3, <2>4
      DEF StartupInv, TypeOK, pingVars, groupVars, PingTypeOK
<1>5. MembersInGroup'
  BY <1>1 DEF StartupInv, MembersInGroup, groupVars
<1>6. PoolsMade'
  BY <1>1 DEF StartupInv, PoolsMade
<1> QED
  BY <1>1, <1>2, <1>3, <1>4, <1>5, <1>6
     DEF StartupInv, pingVars, groupVars, LeavesWithStatus, Answered,
         SidecarFound

\* The last step before the group.
LEMMA MakeServersKeeps ==
  ASSUME StartupInv, MakeServers
  PROVE  StartupInv'
<1> USE DEF StepNames, AfterDestroy, AfterWait, AfterSidecar
<1>1. /\ UNCHANGED <<pingVars, initVars, stopping, failed, status>>
      /\ phase = "servers" /\ phase' = "group"
      /\ members = NoMembers
  BY ProceedTo DEF MakeServers, StartupInv, MembersInGroup
<1>2. PICK m \in {"off", "absent"} : members' = [members EXCEPT ![1] = m]
  BY DEF MakeServers
<1>3. /\ members' \in [DOMAIN Members -> {"absent", "off"}]
      /\ members'[10] = "off"
  BY <1>1, <1>2, MemberList DEF NoMembers
<1>4. PingInv' /\ RootFSOK' /\ RootFSPartition' /\ WholeIdentity'
  BY <1>1 DEF StartupInv, PingInv, pingVars, initVars,
       PingTypeOK, OnePingAtATime, OnlySuccessReturns, Wrapped, ClockKeepsUp,
       RootFSOK, RootFSPartition, WholeIdentity
<1>5. TypeOK'
  BY <1>1, <1>3 DEF StartupInv, TypeOK, Ends, pingVars, initVars, PingTypeOK
<1>6. MembersInGroup' /\ HubOpen'
  BY <1>1, <1>3, MemberList DEF MembersInGroup, HubOpen
<1> QED
  BY <1>1, <1>4, <1>5, <1>6
     DEF StartupInv, pingVars, initVars, LeavesWithStatus, Answered,
         SidecarFound, PoolsMade

\* The members of the group start, end and are stopped, one by one.
LEMMA GroupStepKeeps ==
  ASSUME StartupInv,
         \/ Signal
         \/ \E i \in DOMAIN Members : StartMember(i) \/ MemberEnds(i)
                                     \/ StopMember(i)
  PROVE  StartupInv'
<1> USE DEF StepNames, AfterDestroy, AfterWait, AfterSidecar
<1>1. /\ UNCHANGED <<pingVars, initVars, status>>
      /\ phase' = phase
      /\ phase = "group"
  BY DEF Signal, StartMember, MemberEnds, StopMember, Ends
<1>2. /\ ({manager, stopping, failed} \subseteq BOOLEAN)'
      /\ members' \in [DOMAIN Members -> {"absent", "off", "running", "ended",
                                          "failed"}]
  BY <1>1
     DEF StartupInv, TypeOK, Signal, StartMember, MemberEnds, StopMember,
         groupVars, initVars
<1>3. PingInv' /\ RootFSOK' /\ RootFSPartition' /\ WholeIdentity'
  BY <1>1 DEF StartupInv, PingInv, pingVars, initVars,
       PingTypeOK, OnePingAtATime, OnlySuccessReturns, Wrapped, ClockKeepsUp,
       RootFSOK, RootFSPartition, WholeIdentity
<1>4. TypeOK'
  BY <1>1, <1>2 DEF StartupInv, TypeOK, pingVars, initVars, PingTypeOK
<1>5. MembersInGroup'
  BY <1>1
     DEF StartupInv, MembersInGroup, Signal, StartMember, MemberEnds,
         StopMember, groupVars
<1>6. HubOpen'
  <2> USE DEF StartupInv, TypeOK, HubOpen
  <2>1. ASSUME NEW i \in DOMAIN Members, StartMember(i) PROVE HubOpen'
    BY <2>1, MemberList DEF StartMember
  <2>2. ASSUME NEW i \in DOMAIN Members, MemberEnds(i) PROVE HubOpen'
    BY <2>2, MemberList DEF MemberEnds, OnSignalOnly
  <2>3. ASSUME NEW i \in DOMAIN Members, StopMember(i) PROVE HubOpen'
    BY <2>3, MemberList DEF StopMember
  <2> QED BY <2>1, <2>2, <2>3 DEF Signal, groupVars
<1> QED
  BY <1>1, <1>3, <1>4, <1>5, <1>6
     DEF StartupInv, pingVars, initVars, LeavesWithStatus, Answered,
         SidecarFound, PoolsMade

\* main returns only when no member runs any more; Cleanup stops the pools.
LEMMA WayOutKeeps ==
  ASSUME StartupInv, MainFails \/ MainReturns \/ Cleanup \/ MainEnds
  PROVE  StartupInv'
<1> USE DEF StepNames, AfterDestroy, AfterWait, AfterSidecar
<1>1. CASE MainFails
  BY <1>1, ExitKeeps DEF MainFails
<1>2. CASE MainEnds
  BY <1>2, ExitKeeps DEF MainEnds, StartupInv, LeavesWithStatus, TypeOK
<1>3. CASE MainReturns \/ Cleanup
  <2>1. /\ UNCHANGED <<pingVars, cfg, rootfs, walked, tls, manager, groupVars>>
        /\ \/ /\ phase = "group" /\ phase' = "cleanup" /\ pools' = pools
              /\ status' = "success"
           \/ /\ phase = "cleanup" /\ phase' = "leaving"
              /\ pools' = pools \ ClientPools /\ status' = status
    BY <1>3 DEF MainReturns, GroupEnded, Cleanup, initVars, outVars
  <2>2. PingInv' /\ RootFSOK' /\ RootFSPartition' /\ HubOpen' /\ WholeIdentity'
    BY <2>1 DEF StartupInv, PingInv, pingVars, groupVars,
         PingTypeOK, OnePingAtATime, OnlySuccessReturns, Wrapped, ClockKeepsUp,
         RootFSOK, RootFSPartition, HubOpen, WholeIdentity
  <2>3. TypeOK'
    BY <2>1 DEF StartupInv, TypeOK, pingVars, groupVars, PingTypeOK, Ends
  <2>4. MembersInGroup'
    <3>1. CASE MainReturns
      <4>1. \A i \in DOMAIN Members : members[i] # "running"
        BY <3>1 DEF MainReturns, GroupEnded, Running
      <4> QED BY <2>1, <3>1, <4>1 DEF MainReturns, MembersInGroup, groupVars
    <3>2. CASE Cleanup
      BY <2>1, <3>2 DEF Cleanup, StartupInv, MembersInGroup, groupVars
    <3> QED BY <1>3, <3>1, <3>2
  <2> QED
    BY <2>1, <2>2, <2>3, <2>4
       DEF StartupInv, pingVars, groupVars, LeavesWithStatus, Answered,
           SidecarFound, PoolsMade
<1> QED BY <1>1, <1>2, <1>3

\* Every step of the process keeps the invariant.
LEMMA StartupStepKeeps == StartupInv /\ [Next]_vars => StartupInv'
<1> SUFFICES ASSUME StartupInv, [Next]_vars PROVE StartupInv'
  OBVIOUS
<1>1. CASE InitializeStep
  BY <1>1, RootFSStepKeeps, QuietStepKeeps, WaitStepKeeps, InitializeStepKeeps,
     MakeServersKeeps
     DEF InitializeStep
<1>2. CASE PingStep
  BY <1>2, WaitStepKeeps
<1>3. CASE StopStep
  BY <1>3, GroupStepKeeps, WayOutKeeps DEF StopStep
<1>4. CASE StepFails \/ StepPanics \/ ManagerFails \/ SignalEarly
  BY <1>4, FailureKeeps
<1>5. CASE \/ Signal
           \/ \E i \in DOMAIN Members : StartMember(i) \/ MemberEnds(i)
  BY <1>5, GroupStepKeeps
<1>6. CASE UNCHANGED vars
  <2> USE <1>6 DEF vars, pingVars, initVars, outVars, groupVars
  <2>1. PingInv' /\ RootFSOK' /\ RootFSPartition'
    BY DEF StartupInv, PingInv, PingTypeOK, OnePingAtATime, OnlySuccessReturns,
         Wrapped, ClockKeepsUp, RootFSOK, RootFSPartition
  <2>2. TypeOK'
    BY DEF StartupInv, TypeOK, PingTypeOK
  <2>3. MembersInGroup'
    BY DEF StartupInv, MembersInGroup
  <2> QED BY <2>1, <2>2, <2>3
      DEF StartupInv, LeavesWithStatus, Answered, SidecarFound, WholeIdentity,
          PoolsMade, HubOpen
<1> QED BY <1>1, <1>2, <1>3, <1>4, <1>5, <1>6 DEF Next

\* The invariant holds throughout.
LEMMA StartupInvariant == Spec => []StartupInv
BY StartupStarts, StartupStepKeeps, PTL DEF Spec
-----------------------------------------------------------------------------
(* What the invariant says of the process *)

\* Types, for every list of archives and every interval: in particular a
\* process that is gone has a status.
THEOREM StartupTypes == Spec => []TypeOK
<1>1. StartupInv => TypeOK
  BY DEF StartupInv
<1> QED BY <1>1, StartupInvariant, PTL

\* A stack is preloaded or extra, and run from the path that says so, for every
\* list of archives and wherever the walk stops.
THEOREM RootFSPartitioned == Spec => []RootFSPartition
<1>1. StartupInv => RootFSPartition
  BY DEF StartupInv
<1> QED BY <1>1, StartupInvariant, PTL

\* Pings do not overlap in a process that starts, waits and ends, and none is
\* left when it goes on.
THEOREM OnePingInProcess == Spec => []OnePingAtATime
<1>1. StartupInv => OnePingAtATime
  BY DEF StartupInv, PingInv
<1> QED BY <1>1, StartupInvariant, PTL

\* Start-up goes past waitForGarden only after a ping that succeeded.
THEOREM SuccessOnlyInProcess == Spec => []OnlySuccessReturns
<1>1. StartupInv => OnlySuccessReturns
  BY DEF StartupInv, PingInv
<1> QED BY <1>1, StartupInvariant, PTL

\* A server runs only in a rep that is configured: members run in the group
\* alone, and the group comes after the wait, the sidecar and the identity.
THEOREM ServesConfigured == Spec => []ServesAsConfigured
<1>1. StartupInv => ServesAsConfigured
  <2> SUFFICES ASSUME StartupInv, Running # {} PROVE ServesAsConfigured
    BY DEF ServesAsConfigured
  <2>1. phase = "group"
    BY DEF StartupInv, MembersInGroup, Running
  <2> QED BY <2>1
      DEF StartupInv, Answered, AfterWait, AfterDestroy, SidecarFound,
          AfterSidecar, WholeIdentity, ServesAsConfigured
<1> QED BY <1>1, StartupInvariant, PTL

\* The event hub outlives the member that reads from it: the group stops its
\* members last first, and the hub closer ends by a signal alone.
THEOREM HubOutlivesReader == Spec => []HubOpenWhileUsed
<1>1. StartupInv => HubOpenWhileUsed
  BY MemberPlaces DEF StartupInv, HubOpen, HubOpenWhileUsed, Running
<1> QED BY <1>1, StartupInvariant, PTL

\* The work pools outlive the members that use them.
THEOREM PoolsOutlive == Spec => []PoolsOutliveMembers
<1>1. StartupInv => PoolsOutliveMembers
  <2> SUFFICES ASSUME StartupInv, Running # {} PROVE PoolsOutliveMembers
    BY DEF PoolsOutliveMembers
  <2>1. phase = "group"
    BY DEF StartupInv, MembersInGroup, Running
  <2> QED BY <2>1 DEF StartupInv, PoolsMade, AfterDestroy, PoolsOutliveMembers
<1> QED BY <1>1, StartupInvariant, PTL
=============================================================================
