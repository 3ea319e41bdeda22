# Verification of k8s-garden-client

k8s-garden-client lets the Cloud Foundry *rep* run its containers as Kubernetes
pods. A rep process embeds a garden client that turns `Create`, `Destroy`,
`Run`, `BulkMetrics`, ... into calls of the API server, the kubelet and
containerd; a second process, `watch`, runs beside it and evacuates it when its
node is cordoned. This directory holds TLA+ models of those parts, TLC runs on
small instances of them, and TLAPS proofs of what holds for every instance.

Paths below are relative to `src/`.

## 1. Inventory

| component | state | operations | module |
|---|---|---|---|
| port manager (`pkg/k8sgarden/port_manager.go`) | set of allocated host ports, a mutex | `Next`, `Release` | PortManager |
| container table (`container_map.go`, `container.go`) | handle -> container, a RW mutex; a container holds its pod object, tasks, env | `Add`, `Remove`, `Get`, `Exists`, `List` | ContainerMap |
| pods, kubelet, watch cache (external; used through `executor/init.go` `newControllerManager`) | pods in the API server, their cached copies | create, delete, cached get and list | Cluster |
| garden client (`client.go`, properties in `container.go`) | port manager, table, property manager | `Create`, `Destroy`, `Containers`, `deletePod`, `SetProperty`, `SetGraceTime`, `RemoveProperty` | GardenClient; its contract is GardenSpec |
| recovery of the rep (`executor/init.go`) | result channel of the clean-up | `NewClient`, `containerRestoreInfo`, `destroyContainers` | Rep |
| rep process (`cmd/rep/main.go`, `Initialize` in `executor/init.go`) | root file system maps, work pools, TLS configuration, the group of members | the steps of `main` and `Initialize`, signals, `Cleanup`, exit | Startup |
| `waitForGarden` (`executor/init.go`), `Ping` | two timers, one unbuffered channel | select loop, ping goroutine | GardenPing |
| process execution (`process.go`, `Run` in `container.go`) | the containerd process of a Wait | `Run`, `Wait`, `Signal` | Process |
| images (`containerd/client.go`, image part of `Create`) | containerd's image store, temporary views | `Pull`, `Delete`, `Spec` | Images |
| metrics (`kubelet/client.go`, `BulkMetrics`) | none; reads the table | `GetMetrics`, `toContainerMetrics`, `BulkMetrics` | Metrics |
| node watcher (`cmd/watch/main.go`) | stop channel, ping path | informer handler, `evacuate`, `pingForever` | Watcher |
| generated fakes (`containerdfakes`, `kubeletfakes`) | per method: mutex, recorded calls, stub and answers; per fake: map of invocations | each method with its `Calls`, `CallCount`, `ArgsForCall`, `Returns`, `ReturnsOnCall` | Fakes |
| not modelled | - | streaming, log sink, client factory, helm chart | - |

How they interact. The executor's workers call `Create` and `Destroy` from
several goroutines. A `Create` allocates ports one lock at a time, pulls an
image, sets properties, adds the container to the table, creates the pod, polls
the cached pod until it runs, loads its containerd tasks, and sets
`garden.state`. A `Destroy` deletes the pod, polls the cache until the pod is
gone, releases the ports one at a time, removes the table entry and the
properties. Writes go to the API server, reads to a cache that lags behind and
never shows a pod without the app GUID label. When the rep dies, everything but
the cluster is lost; the next process restores a container for every cached pod,
destroys them all, and serves only then. That is one step of a longer start-up:
`main` chooses root file systems, `Initialize` starts the controller manager in a
goroutine that may end the process at any time, waits for containerd, makes
pools, destroys strays, builds the executor; `main` then runs an ordered group of
members that stop in the reverse order, and leaves through `os.Exit` or through
the deferred `Cleanup`. The fakes stand for containerd and the kubelet in the
tests, which call them from several goroutines.

What is hard here: two steps of two calls in an unforeseen order (ports,
table, properties, images), decisions taken on stale cached reads, calls that
fail half way, answers that are lost, crashes at any step with an empty port
manager afterwards, timeouts racing late events, handshakes over unbuffered
channels, and things that must eventually happen although nothing forces a pod
to start. `PROJECT.json` lists these hazards line by line with the properties
that would catch them.

What makes each component correct:

- *ports*: no two pods that stand (exist, and nobody has deleted) share a host port
  of the pool; a port is stranded by a Create that fails early, and in no other way;
- *table and properties*: every standing pod can be found by a Destroy, with its ports;
  what is listed as created can be used; nothing is inherited by a later
  container of the same handle;
- *Destroy*: success means that the pod is gone. The code falls short of that
  (finding 1): what it guarantees is that a pod which is still there is being
  deleted, and that the cache has not seen it;
- *start-up*: the rep serves only when the labelled pods of earlier processes are
  gone, and does come to serve;
- *rep process*: what it announces is what it runs, it serves only fully
  configured, no member outlives what it uses, and it ends when told to;
- *waitForGarden*: one ping at a time, heartbeats while it waits, success only;
- *processes*: an exit code is final, a kill ends the Wait;
- *images*: nobody's image is deleted by mistake, views are temporary;
- *metrics*: complete and right, or an error with a reason;
- *watcher*: a cordon is noticed, a later one too, as long as the watch goes on, and
  the watch does not end before the rep was asked;
- *fakes*: their books agree, an answer set for one call goes to that call, and calls
  return.

## 2. Modules

`GardenClient` EXTENDS `PortManager`, `ContainerMap` and `Cluster`; `Rep` EXTENDS
`GardenClient` and implements `GardenSpec`; `MCRep` instantiates `Rep`. `Startup`
EXTENDS `GardenPing`; in it `Rep`'s clean-up is one step (DestroyStrays), and in
`Rep` the other steps of start-up are one that may fail (Boot, Crash). `Process`,
`Images`, `Metrics`, `Watcher` and `Fakes` stand alone: they share with the core
only operations that are one step there. `*Proofs` hold the theorems
(`RepSafetyProofs` EXTENDS `RepProofs`). Definitions marked "Mutant of X" are
faulty variants of X: with one in place of X a stated property fails, which shows
that the property depends on that code.

**PortManager, ContainerMap.** Each action is one critical section. `Pool` is
`startPort <= p < math.MaxUint16`; `NextPort` takes the lowest free port. A
container keeps how it came to be (fresh or restored), the ports of its pod
object, and whether its tasks are loaded.

**Cluster.** `view[h]` is the history of pod `h` from the cached version (first)
to the API server's (last). A write appends a version, a watch event drops the
first, so the cache shows every version in order, arbitrarily late.
`terminating` are the pods whose deletion was accepted: the kubelet removes them
later. An unlabelled pod is never cached. `uid` counts the pods of one name.

**GardenClient.** A worker runs one call; `pc` names the point in the source.
An action is the stretch between two points where others can interfere (a
component's lock, an API call):

| pc | code (`client.go`) | actions |
|---|---|---|
| `netin` | 202-218 | AllocatePort, AllocateFails, PortsReady |
| `image` | 226-244 | ImageReady, ImageFails |
| `props`, `add` | 246-379 | SetProperties, AddContainer, AddFails |
| `create` | 381-387 | CreatePod, CreatePodFails, CreatePodLost |
| `wait` | 388-407 | PollPod, PodRunning, CreateTimeout, WaitFails |
| `tasks`, `state` | 409-418 | LoadTasks, LoadTasksFails, SetState |
| `delete`, `gone` | 461-492 | DeleteAccepted, DeleteNotFound, DeleteFails, PodGone, DeleteTimeout |
| `release`, `keyspace` | 431-439 | ReleasePort, RemoveContainer, DestroyKeySpace |

`held` are the ports that only the call knows of: those a Create has collected
before `Add`, those a Destroy has still to release. Timeouts may fire at any
time, since no clock is shared with the kubelet. Parameters describe the callers:
`Overlap` says which operations may overlap on one handle (the rep keeps "only one
outstanding operation per container", `cmd/rep/main.go:145`, so it is empty in the
basic runs but for racing Creates), `BlindErrors` whether an API call may take
effect and report an error (a call that fails without effect may fail in every run
that has faults: CreatePodFails, WaitFails, DeleteFails), `MaxIncarnations`
whether a handle is used again, `Annotated` for which handles the executor uses
properties (SetProperty, RemoveProperty; a property set by the caller is told
apart from those Create sets).

**Rep.** `Boot` (cache synchronised), `Restore` (`NewClient` with a container for
every cached pod, an empty port manager), `DestroyStray`/`SendResult`/
`ReceiveResult` (`destroyContainers` with its work pool and result channel),
`Serve`, `CleanupFails` (the first error ends the process), `Crash`, and the calls
while serving. `Evict` is a deletion by somebody else.

**GardenSpec.** What the client promises, without calls, caches, workers or
results: of each handle whether it has a pod, standing or going, and with which
ports; which containers the process knows; whether it serves. A container is known
before its pod appears (Learn, Appear) and is not forgotten while its pod stands
(Forget); a pod appears with ports no other standing pod has; a deleted pod goes on
to exist for a while (Condemn, Disappear); a new process learns of every pod there
is (Recover); service begins on a node without pods. `Rep!KeepsContract` is
`GardenSpec!Spec` for the labelled handles, under the mapping pods <- the API
server's last versions (going when the deletion was accepted, ports within the
pool), known <- the table, serving <- the phase. The steps that map to a stutter are
the interesting ones: everything a call does between the table and the API server,
and every watch event.

**Startup.** `phase` is the step of `main` or `Initialize` the process is at; each
step has its action and, where the code has one, its error (`StepFails`: return or
`os.Exit`; `StepPanics`: `logger.Fatal` after `Cleanup` was deferred, so Cleanup
runs). `ManagerFails` is the manager's goroutine, from its start to the end.
`WalkArchive` is one round of `WalkDir`: the archive overrides the stack of its
name. The group starts a member when those before it run, and stops the last
first (ifrit, external); a member may fail to start or end by itself, except those
that end by a signal alone. The clean-up of strays is a step that may fail; what becomes of the
containers is `Rep`'s subject. `Exit` forgets everything.

**Fakes.** The code of all methods is generated from one template, so the steps of
a call (lock and look up the answer by the number of calls so far, record the
arguments, lock the shared map, write it, answer) are written once and every method
is an action that says whether it has arguments. Which fake and which of its
methods a test uses is chosen initially from `Uses`. A stub runs without the
method's mutex and may use the fake again.

**GardenPing.** Timers count down, `Tick` moves all of them; the loop is free to be
late. `Ping` maps what containerd answers to what the caller sees: errors are
wrapped, so `waitForGarden` never meets a `garden.UnrecoverableError`.

**Process.** Each statement of `Wait` is an action with its failure. The exit
status can be an error while the process still runs; the output can be held by a
daemon or closed early. `SignalTooEarly` is the nil dereference of a `Signal`
before `Wait`'s `Exec`.

**Images.** A tag can move in the registry; `Delete` removes a tag only if it still
has the digest that was measured (`images.DeleteTarget`); containerd collects
what no tag refers to; views are named after the clock.

**Metrics.** `toContainerMetrics` is one round of the loop over the pods of a
summary, which the call takes pod by pod (`visited` counts them). The summary
covers all namespaces and pods are matched by name alone, so two pods in it may have
one name: the later one wins, as in the code. Ages pass through an unsigned and back
to a signed number of `Bits` bits; `BulkMetrics`
joins the result with the table, entry by entry, while containers come and go.
The entitlement is computed from the unsigned age, as in the code.

**Watcher.** The informer queues notifications, the handler posts `/evacuate` and
sends a stop message on an unbuffered channel, which main or one of the
informer's goroutines receives (`nodeInformer.Run(stopCh)` listens on it too, and
may end the delivery of events by that); main then drops the handler, reads the ping path and pings until a request fails.
`askedAt` is the number of cordons at the last request.

## 3. Runs

| run | bounds | shows |
|---|---|---|
| rep_calls | 2 labelled handles, 2 workers, 2 ports, 2 faults (a fault is a crash, an eviction, or a call that fails with or without effect); two Creates of one handle may race | PortExclusive, AccountedPods, GoneUnlessUnseen, ListedIsUsable, CleanStart, KeepsContract |
| rep_overlap | two Creates or two Destroys of one handle overlap; one handle needs both ports, an image that may fail, and has properties, the other is unlabelled; 2 faults as above | OnlyEarlyFailuresStrand, GoneUnlessUnseen, NoStaleProperties |
| rep_live | one labelled and one unlabelled handle, 1 fault as above, fair | Recovers, CallsReturn |
| startup | 1 stack with 2 archives, every configuration of the sidecar, 15 members, ping interval 1, heartbeat 3, waits told apart up to 4 | OnePingAtATime, OnlySuccessReturns, RootFSPartition, ServesAsConfigured, HubOpenWhileUsed, PoolsOutliveMembers, KeepsBeating, WaitEnds, StopsOnSignal |
| fakes | 2 goroutines, 2 calls, 1 change of the answers; every method of every fake together with one other method of it | BooksAgree, OwnAnswer, CallsReturn |
| process | 2 processes | ExitCodeIsFinal, KillEndsWait |
| images | 2 Creates of one tag, 2 digests, 2 retags, 1 failed removal | DeletesOnlyTooLarge, ViewsAreTemporary |
| metrics | 2 containers and a foreign pod, summaries of up to 2 pods (of one name, too), 4-bit ages | AnswerIsWhole, FailsOnlyForTheGone |
| watcher | 3 cordons, 2 pending notifications, 1 restart | AskedBeforePing, NoticesCordon |
| rep_failed_wait, rep_leak, rep_reuse | as rep_calls without overlapping calls; one failed call, one image that may fail, one handle used twice | *violations*: see Findings |

Type invariants are checked in one run per specification. OnlyEarlyFailuresStrand
is asked where ports do leak (finding 2): Creates that collect two ports, fail on
their image and race for a handle; it says that nothing else strands a port.

*Why the bounds are enough to see the cases.* Two workers give every pair of
overlapping calls, and two handles every pair of containers that compete for a
port; the pool is as small as the demand (or one larger), so ports are reused and
run out. Two faults allow a crash during the recovery from a crash or an error
during the recovery. `MaxIncarnations` is 1 where handles are process GUIDs that
are not reused, 2 where reuse is the question. Histories are not bounded: they
are finite because every pod has finitely many phases. In `startup` one stack is
enough, since the maps are independent per stack, and two archives let one
override the other and the walk stop before, between and after them; the ratio of
the ping intervals does not matter to the properties, a heartbeat that falls
between pings does. In `fakes` two calls are a pair on one method or on two.

*Symmetry* is over workers and (where all handles are alike) handles, and over
the keys of views; it is not used where liveness is checked.

*Deadlock* is not checked for `Rep`, `Process`, `Startup`, `Fakes` and `Watcher`: a
rep whose handles are used up, processes that all ended, a rep that has exited, a
test that is over and a watcher that has exited or hangs may stop. `Images` and `Metrics` never do.

*Fairness*, in the specifications named `FairSpec`:

- goroutines that can run do (Go's scheduler), a ready case of a `select` is
  taken in the end;
- the process manager restarts the rep (the daemon set's restart policy);
- watch events arrive and the kubelet removes a pod it was told to remove
  (Kubernetes' own promises); *not* assumed: that a pod ever starts, that calls
  are made, that faults stop by themselves (they are bounded by `MaxFaults`);
- `Process`: a killed process ends; a daemon that holds the output may run for
  ever, and KillEndsWait says so;
- `Startup`: in waitForGarden time passes, a ready case is taken, a serving
  containerd answers; a ping of another may hang. Members stop when told to and
  main goes on to its end; *not* assumed: that a step of start-up succeeds;
- `Fakes`: a goroutine in a call runs when it can; nobody has to call;
- `Watcher`: the resynchronisation every ten seconds goes on while the informer
  runs, HTTP requests end by the client's timeout of 30 seconds.

## 4. Findings

1. **Destroy can succeed while its pod exists** (run rep_failed_wait). The pod is
   created; the read in the wait loop fails (`client.go:389`), or the two minutes pass
   while the watch is stalled and the forced Delete fails, an error that is dropped
   (`client.go:401`). Create returns an error while the pod stands, and the caller
   destroys the container: `deletePod` deletes the pod and then reads it through the
   cache, which has not seen it yet, and NotFound is taken for gone
   (`client.go:476`). Ports are released and the entry is removed while the pod
   terminates. A lost answer to the creation (`client.go:381`) leads to the same.
   GoneUnlessUnseen says that this is the only way.
2. **Ports leak when Create fails before `Add`** (run rep_leak). A failed pull, an
   image over the limit, an unreadable image config or a lost race for the handle
   return without releasing (`client.go:229`), until `Next` finds no port
   although nobody uses any.
3. **A reused handle can be mistaken for its predecessor** (run rep_reuse). The
   loop "wait until the pod is running" reads by name from the cache and does not
   compare UIDs (`client.go:393`).

## 5. Proofs

Every invariant, action property and refinement that a passing run checks is also
stated by a theorem, for every value of the constants, from the named assumptions
of the modules (`PortAssumption`, `LabelledAssumption`, `ClientAssumption`,
`PingAssumption`, `StartupAssumption`, `ImagesAssumption`, `MetricsAssumption`,
`WatcherAssumption`, `FakesAssumption`) and, for four theorems about `Rep`, from
the hypotheses below. Each inductive invariant was checked by TLC first.

**The rep and its client** (`RepProofs`, `RepSafetyProofs`).

- `TypeCorrect`: `Spec => []TypeOK`. Lemmas about histories (append, tail, last),
  then one lemma per group of actions.
- `CleanStartHolds`: CleanStart, for every discipline of the callers and every
  pattern of errors. It is not inductive: that a stray's Destroy has succeeded says
  nothing of the pod unless no pod can come to life during start-up and a cached
  absence is final. The invariant `CleanInv` says just that: while the rep starts,
  no worker is in a Create; in every labelled history an absent version is followed
  by absent ones only; and a labelled pod that is still there is queued, being
  destroyed, or has failed. Cluster steps and the writes of Destroy are "quiet"
  (they create no pod), which is proved once and used for all of them.
- `ListedUsable`, `PropertiesNotStale`: without any hypothesis. `TableInv` says who
  may work on a handle together (`Discipline`), that a Create past `Add` has its
  container in the table and no other Create of the handle is there with it, and
  that the properties of a handle without a container are those of a Create before
  `Add` or of a Destroy that is about to drop them.
- `OnlyUnseenPodsMissed`: GoneUnlessUnseen, without any hypothesis. It needs to know
  why a pod that the cache has seen cannot be missed. `PodInv` says that a
  terminating pod exists, that the UIDs in a history do not go down and an absent
  version before a pod is of an earlier one (so a cached absence is either final or
  older than the pod), that a standing labelled pod has a container in the table,
  and that a Destroy which is past its delete has no standing pod.
- `PodsAccounted`: `HistoryInv` adds that a handle used once has one life, in which
  the ports do not change, and that they are those of its container.
- `PortsExclusive`: `StrayInv` says that the memory is empty while the rep is down,
  that each stray is destroyed by one worker, and that what is not in the table has
  no ports; `PortInv` says that, while the rep serves, what is collected by the
  Creates and owned by the containers is disjoint and allocated, and that a Destroy
  releases only what its container still owns. A pod that a Destroy has missed no
  longer stands, which is where the statement stops.
- `ContractKept`: `Rep` implements `GardenSpec`. Initial states map to initial
  states; each step maps to one of the contract or to a stutter, from the invariants
  above: that a new pod's container is known and its ports are nobody's, that
  `Remove` does not precede the delete of the pod, and that service begins on an
  empty node.
- `OnlyEarlyStranding`: OnlyEarlyFailuresStrand. `DestroyHolds` says that a Destroy
  which has not begun to release holds all ports of its container, so that `Remove`
  follows the release of the last one; a Create hands its ports to its container in
  `Add`.

| theorem | hypotheses |
|---|---|
| CleanStartHolds, ListedUsable, PropertiesNotStale, OnlyUnseenPodsMissed | none |
| PodsAccounted, OnlyEarlyStranding | HandlesAreFresh |
| PortsExclusive, ContractKept | HandlesAreFresh, OneDestroy, FixedOutsidePool |

No hypothesis is about errors: any call of the API server may fail in any of these
theorems, with or without effect. *HandlesAreFresh*: a handle is used for one pod;
the rep's handles are instance and task GUIDs. Run rep_reuse shows what happens
otherwise. *OneDestroy*: two Destroys of one handle do not overlap (the rep's operation queue); otherwise a port can be released
twice, the second time from under its next owner. Creates of one handle may race.
*FixedOutsidePool*: a host port that the caller chooses is not one the port manager
may choose; the code does not compare them. PodsAccounted, PortsExclusive,
ContractKept and CleanStartHolds are about labelled pods: the cache never shows the others, and a Destroy sees them gone at
once (the label is the property `network.app_id`, `client.go:506`; whether a pod has
it depends on the caller).

**The process** (`StartupProofs`, about `Startup` and, in it, `GardenPing`).
`StartupTypes`, `RootFSPartitioned`, `OnePingInProcess`, `SuccessOnlyInProcess`,
`ServesConfigured`, `HubOutlivesReader` and `PoolsOutlive`
share one invariant, `StartupInv`. Its parts: no UnrecoverableError is on its way
(Ping wraps) and the clock has advanced by what is gone from the heartbeat timer;
the walk of the archives, wherever it is, leaves each stack in one of the two maps;
members run only in the group, and a process that is gone has a status; from each
phase on, what the phases before it established (an answer of containerd, the
sidecar's stack, a whole TLS identity, the pools) still holds; and the
group stops a member only after those behind it. Lemmas about the lists of steps and
members (StepNumber, ProceedTo, MemberPlaces) turn their order into numbers.

**The other components.**

- `ProcessProofs!ExitCodeFinal`: the invariant adds that Wait deletes only when
  the output is closed, and knows a status only of a process that has ended.
  `!ProcessTypeCorrect` is its type invariant.
- `ImagesProofs!DeletesTooLarge`: the invariant relates the step
  of a Create to the size of the image it got. `!ViewsTemporary`: the views are the
  keys of the Creates that measure, which differ, and those left by failed removals;
  so the counts follow.
- `MetricsProofs!AnswerWhole`, `!FailsForTheGone`: `Converted` says what the loop has
  made of the pods visited so far, `Joined` what the join has made of the handles
  asked for so far. What counts for a name is the last
  pod of it. Lemma AgeSurvives is the arithmetic: an age in range comes back
  from the detour through an unsigned number of any width.
- `WatcherProofs!AsksFirst`: the invariant adds that nobody has seen the node
  cordoned before it was, and that a handler that sends has asked.
  `!WatcherTypeCorrect` is its type invariant.
- `FakesProofs!FakesTypes`, `!BooksOfAFake`, `!AnswersAreOwn`: every method of every
  fake takes the template's steps (lemma AllAlike). The invariant says who holds
  which mutex (a method's mutex belongs to the call between the look-up and the write
  to the map, and whoever writes holds the map's mutex) and that the number a call
  has looked up is the one its arguments are recorded under.

*Only model-checked*: liveness (Recovers, CallsReturn of Rep and of Fakes,
KeepsBeating, WaitEnds, StopsOnSignal, KillEndsWait, NoticesCordon). It depends on
fairness, and so on ENABLED, which the prover does not handle. No module that is
proved about uses recursion, and no theorem needs induction over data.

## 6. Not modelled

- A Create and a Destroy of one handle at the same time: excluded by the rep's
  operation queue. Two Creates, or two Destroys, may overlap. Two Destroys of one
  handle can release a port twice, the second time when it already belongs to
  another container: PortExclusive is therefore claimed for the callers' discipline
  (and for racing Creates) only.
- A pod without the app GUID label left behind by a crash: it is outside the
  cache, so no process finds it. It is in the model; no property claims otherwise.
- A request of a dead process that reaches the API server after the next process
  has listed the pods.
- The values of pod specs, environment, properties and log records; streaming
  (`StreamIn`, `StreamOut` hand a tar stream to nstar); the objects that the
  libraries build from certificates, credentials and limits (a step of Startup that
  succeeds or fails); the client factory (it returns the one client it was given);
  the helm chart.
- What the members of the group do inside (they are library code), but for the pools
  that Cleanup stops, as the executor's client is built with them. Requests on
  connections that outlive a closed listener are left out.
- The panic of `BulkInfo` and of other unimplemented garden methods.

## 7. Plan

Done: PortManager, ContainerMap, Cluster, GardenClient, Rep, GardenSpec with the
refinement, GardenPing, Startup, Process, Images, Metrics, Watcher and Fakes, with
the runs and proofs above. Next, in this order:

1. Create and Destroy of one handle at once, with the container object as an
   identity of its own, to say exactly what the operation queue protects from.
2. Late API requests of a dead process; unlabelled leftovers and their ports.
3. PortExclusive for unlabelled pods, and for fixed ports inside the pool.
