------------------------------- MODULE Fakes -------------------------------
(***************************************************************************)
(* The generated test doubles of the containerd and kubelet interfaces     *)
(* (containerdfakes, kubeletfakes).  A fake records calls and answers them *)
(* as the test told it to, while the code under test calls it from several *)
(* goroutines.  Each method has its own mutex, argument list and answers;  *)
(* the methods of one fake share the map of invocations and its mutex.     *)
(***************************************************************************)
EXTENDS Naturals, Sequences

CONSTANTS Goroutines,   \* the goroutines of the code under test
          NoOne,        \* no goroutine: the holder of a free mutex
          Uses,         \* the methods of one fake that a test may use
          MaxCalls,     \* bound on the calls made
          MaxConfigs    \* bound on the changes of the answers

VARIABLES fake,         \* which of the fakes the test uses
          used,         \* the methods of it that the test uses
          config,       \* config[m]: stub, answer, answers by call index
          argsForCall,  \* argsForCall[m]: the arguments of each call
          invocations,  \* invocations[m]: the same, in the shared map
          mutex,        \* mutex[m]: the goroutine that holds m's mutex
          invocationsMutex,
          pc,           \* where a goroutine is in its call
          call,         \* the call a goroutine is in, its local variables
          calls,        \* calls made so far
          configs       \* changes of the answers so far

test == <<fake, used>>
locks == <<mutex, invocationsMutex>>
books == <<argsForCall, invocations, locks, calls>>
vars == <<test, config, books, pc, call, configs>>

Methods ==
  [Client |-> {"Delete", "IsServing", "LoadTasks", "Pull"},
   Kubelet |-> {"GetMetrics"},
   Image |-> {"Config", "ContentStore", "IsUnpacked", "Labels", "Metadata",
              "Name", "Platform", "RootFS", "Size", "Spec", "Target", "Unpack",
              "Usage"},
   Process |-> {"CloseIO", "Delete", "ID", "IO", "Kill", "Pid", "Resize",
                "Start", "Status", "Wait"},
   Task |-> {"Checkpoint", "CloseIO", "Delete", "Exec", "ID", "IO", "Kill",
             "LoadProcess", "Metrics", "Pause", "Pid", "Pids", "Resize",
             "Resume", "Spec", "Start", "Status", "Update", "Wait"}]

ASSUME FakesAssumption ==
  /\ NoOne \notin Goroutines
  /\ MaxCalls \in Nat /\ MaxConfigs \in Nat
  /\ \A u \in Uses : u.fake \in DOMAIN Methods /\ u.methods \subseteq Methods[u.fake]

\* What a call is answered with: the zero value, what Returns was given, what
\* ReturnsOnCall was given, or what the stub returns.
Answers == {"zero", "default", "specific", "stub"}
None == "none"

\* Whether a method has arguments; without, there is no ArgsForCall.
Signatures == {"no args", "args"}

\* arg stands for the arguments of a call, and tells them from another call's;
\* ret is the index of the answer found by ReturnsOnCall, if there is one.
NoCall == [method |-> None, arg |-> 0, ret |-> {}, stub |-> FALSE,
           answer |-> "zero"]

CallCount(m) == Len(argsForCall[m])

Init ==
  /\ \E u \in Uses : fake = u.fake /\ used = u.methods
  /\ config = [m \in used |-> [stub |-> FALSE, answer |-> "zero",
                              onCall |-> {}]]
  /\ argsForCall = [m \in used |-> <<>>]
  /\ invocations = [m \in used |-> <<>>]
  /\ mutex = [m \in used |-> NoOne]
  /\ invocationsMutex = NoOne
  /\ pc = [g \in Goroutines |-> "idle"]
  /\ call = [g \in Goroutines |-> NoCall]
  /\ calls = 0
  /\ configs = 0
-----------------------------------------------------------------------------
(* A call *)

Begin(g, m, signature) ==
  /\ pc[g] = "idle"
  /\ calls < MaxCalls
  /\ calls' = calls + 1
  /\ pc' = [pc EXCEPT ![g] = "lock"]
  /\ call' = [call EXCEPT
                ![g] = [NoCall EXCEPT
                          !.method = m,
                          !.arg = IF signature = "args" THEN calls + 1 ELSE 0]]
  /\ UNCHANGED <<test, config, argsForCall, invocations, locks, configs>>

\* Mutant of LookUpReturn: no mutex around the book-keeping.
LookUpUnlocked(g, m) ==
  /\ pc[g] = "lock" /\ call[g].method = m
  /\ call' = [call EXCEPT ![g].ret = {CallCount(m)} \cap config[m].onCall]
  /\ pc' = [pc EXCEPT ![g] = "append"]
  /\ UNCHANGED <<test, config, books, configs>>

\* With the method's mutex: the answer for this very call is looked up by the
\* number of the calls recorded so far.
LookUpReturn(g, m) ==
  /\ pc[g] = "lock" /\ call[g].method = m
  /\ mutex[m] = NoOne
  /\ mutex' = [mutex EXCEPT ![m] = g]
  /\ call' = [call EXCEPT ![g].ret = {CallCount(m)} \cap config[m].onCall]
  /\ pc' = [pc EXCEPT ![g] = "append"]
  /\ UNCHANGED <<test, config, argsForCall, invocations, invocationsMutex, calls,
                 configs>>

\* Mutant of RecordArgs: the mutex is released before the map is written.
RecordArgsUnlocking(g, m) ==
  /\ pc[g] = "append" /\ call[g].method = m
  /\ argsForCall' = [argsForCall EXCEPT ![m] = Append(@, call[g].arg)]
  /\ call' = [call EXCEPT ![g].stub = config[m].stub,
                          ![g].answer = config[m].answer]
  /\ mutex' = [mutex EXCEPT ![m] = NoOne]
  /\ pc' = [pc EXCEPT ![g] = "record"]
  /\ UNCHANGED <<test, config, invocations, invocationsMutex, calls, configs>>

\* The arguments are recorded, the stub and the answer of Returns read.
RecordArgs(g, m) ==
  /\ pc[g] = "append" /\ call[g].method = m
  /\ argsForCall' = [argsForCall EXCEPT ![m] = Append(@, call[g].arg)]
  /\ call' = [call EXCEPT ![g].stub = config[m].stub,
                          ![g].answer = config[m].answer]
  /\ pc' = [pc EXCEPT ![g] = "record"]
  /\ UNCHANGED <<test, config, invocations, locks, calls, configs>>

LockInvocations(g, m) ==
  /\ pc[g] = "record" /\ call[g].method = m
  /\ invocationsMutex = NoOne
  /\ invocationsMutex' = g
  /\ pc' = [pc EXCEPT ![g] = "write"]
  /\ UNCHANGED <<test, config, argsForCall, invocations, mutex, call, calls,
                 configs>>

\* Mutant of recordInvocation: the method's mutex is kept while a stub runs.
recordInvocationLocked(g, m) ==
  /\ pc[g] = "write" /\ call[g].method = m
  /\ invocations' = [invocations EXCEPT ![m] = Append(@, call[g].arg)]
  /\ invocationsMutex' = NoOne
  /\ mutex' = [mutex EXCEPT ![m] = IF call[g].stub THEN @ ELSE NoOne]
  /\ pc' = [pc EXCEPT ![g] = "answer"]
  /\ UNCHANGED <<test, config, argsForCall, call, calls, configs>>

\* The map is written, and both mutexes are released.
recordInvocation(g, m) ==
  /\ pc[g] = "write" /\ call[g].method = m
  /\ invocations' = [invocations EXCEPT ![m] = Append(@, call[g].arg)]
  /\ invocationsMutex' = NoOne
  /\ mutex' = [mutex EXCEPT ![m] = NoOne]
  /\ pc' = [pc EXCEPT ![g] = "answer"]
  /\ UNCHANGED <<test, config, argsForCall, call, calls, configs>>

\* The stub runs without the mutex; it may ask the fake for the count of calls,
\* or change the answers, and waits for the mutex as anybody else does.
RunStub(g, m) ==
  /\ pc[g] = "answer" /\ call[g].method = m
  /\ call[g].stub
  /\ mutex[m] = NoOne
  /\ pc' = [pc EXCEPT ![g] = "returned"]
  /\ call' = [call EXCEPT ![g].answer = "stub"]
  /\ UNCHANGED <<test, config, books, configs>>

\* Without a stub the answer for this call goes before that of Returns.
AnswerReturned(g, m) ==
  /\ pc[g] = "answer" /\ call[g].method = m
  /\ ~call[g].stub
  /\ pc' = [pc EXCEPT ![g] = "returned"]
  /\ call' = [call EXCEPT ![g].answer = IF call[g].ret # {} THEN "specific" ELSE @]
  /\ UNCHANGED <<test, config, books, configs>>

\* The caller has its answer and goes on.
Resume(g, m) ==
  /\ pc[g] = "returned" /\ call[g].method = m
  /\ pc' = [pc EXCEPT ![g] = "idle"]
  /\ call' = [call EXCEPT ![g] = NoCall]
  /\ UNCHANGED <<test, config, books, configs>>
-----------------------------------------------------------------------------
(* The test sets the answers, each time under the method's mutex. *)

Configure(m, c) ==
  /\ mutex[m] = NoOne
  /\ configs < MaxConfigs
  /\ configs' = configs + 1
  /\ config' = [config EXCEPT ![m] = c]
  /\ UNCHANGED <<test, books, pc, call>>

Calls(m) == Configure(m, [config[m] EXCEPT !.stub = TRUE])

Returns(m) == Configure(m, [config[m] EXCEPT !.stub = FALSE,
                                             !.answer = "default"])

\* Mutant of ReturnsOnCall: the answer for one call is kept as that for all.
ReturnsOnEveryCall(m, i) ==
  Configure(m, [config[m] EXCEPT !.stub = FALSE, !.answer = "specific"])

ReturnsOnCall(m, i) ==
  Configure(m, [config[m] EXCEPT !.stub = FALSE, !.onCall = @ \cup {i}])

\* The functions generated for one method.
Method(g, m, signature) ==
  /\ m \in used
  /\ \/ Begin(g, m, signature)
     \/ LookUpReturn(g, m) \/ RecordArgs(g, m) \/ LockInvocations(g, m)
     \/ recordInvocation(g, m)
     \/ RunStub(g, m) \/ AnswerReturned(g, m) \/ Resume(g, m)
     \/ Calls(m) \/ Returns(m)
     \/ \E i \in 0 .. MaxCalls - 1 : ReturnsOnCall(m, i)
-----------------------------------------------------------------------------
(* The methods of the fakes *)

ClientDelete(g) == Method(g, "Delete", "args")
ClientIsServing(g) == Method(g, "IsServing", "args")
ClientLoadTasks(g) == Method(g, "LoadTasks", "args")
ClientPull(g) == Method(g, "Pull", "args")

FakeClientStep(g) ==
  /\ fake = "Client"
  /\ \/ ClientDelete(g) \/ ClientIsServing(g) \/ ClientLoadTasks(g)
     \/ ClientPull(g)

KubeletGetMetrics(g) == Method(g, "GetMetrics", "args")

FakeKubeletStep(g) ==
  /\ fake = "Kubelet"
  /\ KubeletGetMetrics(g)

ImageConfig(g) == Method(g, "Config", "args")
ImageContentStore(g) == Method(g, "ContentStore", "no args")
ImageIsUnpacked(g) == Method(g, "IsUnpacked", "args")
ImageLabels(g) == Method(g, "Labels", "no args")
ImageMetadata(g) == Method(g, "Metadata", "no args")
ImageName(g) == Method(g, "Name", "no args")
ImagePlatform(g) == Method(g, "Platform", "no args")
ImageRootFS(g) == Method(g, "RootFS", "args")
ImageSize(g) == Method(g, "Size", "args")
ImageSpec(g) == Method(g, "Spec", "args")
ImageTarget(g) == Method(g, "Target", "no args")
ImageUnpack(g) == Method(g, "Unpack", "args")
ImageUsage(g) == Method(g, "Usage", "args")

FakeImageStep(g) ==
  /\ fake = "Image"
  /\ \/ ImageConfig(g) \/ ImageContentStore(g) \/ ImageIsUnpacked(g)
     \/ ImageLabels(g) \/ ImageMetadata(g) \/ ImageName(g)
     \/ ImagePlatform(g) \/ ImageRootFS(g) \/ ImageSize(g) \/ ImageSpec(g)
     \/ ImageTarget(g) \/ ImageUnpack(g) \/ ImageUsage(g)

ProcessCloseIO(g) == Method(g, "CloseIO", "args")
ProcessDelete(g) == Method(g, "Delete", "args")
ProcessID(g) == Method(g, "ID", "no args")
ProcessIO(g) == Method(g, "IO", "no args")
ProcessKill(g) == Method(g, "Kill", "args")
ProcessPid(g) == Method(g, "Pid", "no args")
ProcessResize(g) == Method(g, "Resize", "args")
ProcessStart(g) == Method(g, "Start", "args")
ProcessStatus(g) == Method(g, "Status", "args")
ProcessWait(g) == Method(g, "Wait", "args")

FakeProcessStep(g) ==
  /\ fake = "Process"
  /\ \/ ProcessCloseIO(g) \/ ProcessDelete(g) \/ ProcessID(g) \/ ProcessIO(g)
     \/ ProcessKill(g) \/ ProcessPid(g) \/ ProcessResize(g)
     \/ ProcessStart(g) \/ ProcessStatus(g) \/ ProcessWait(g)

TaskCheckpoint(g) == Method(g, "Checkpoint", "args")
TaskCloseIO(g) == Method(g, "CloseIO", "args")
TaskDelete(g) == Method(g, "Delete", "args")
TaskExec(g) == Method(g, "Exec", "args")
TaskID(g) == Method(g, "ID", "no args")
TaskIO(g) == Method(g, "IO", "no args")
TaskKill(g) == Method(g, "Kill", "args")
TaskLoadProcess(g) == Method(g, "LoadProcess", "args")
TaskMetrics(g) == Method(g, "Metrics", "args")
TaskPause(g) == Method(g, "Pause", "args")
TaskPid(g) == Method(g, "Pid", "no args")
TaskPids(g) == Method(g, "Pids", "args")
TaskResize(g) == Method(g, "Resize", "args")
TaskResume(g) == Method(g, "Resume", "args")
TaskSpec(g) == Method(g, "Spec", "args")
TaskStart(g) == Method(g, "Start", "args")
TaskStatus(g) == Method(g, "Status", "args")
TaskUpdate(g) == Method(g, "Update", "args")
TaskWait(g) == Method(g, "Wait", "args")

FakeTaskStep(g) ==
  /\ fake = "Task"
  /\ \/ TaskCheckpoint(g) \/ TaskCloseIO(g) \/ TaskDelete(g) \/ TaskExec(g)
     \/ TaskID(g) \/ TaskIO(g) \/ TaskKill(g) \/ TaskLoadProcess(g)
     \/ TaskMetrics(g) \/ TaskPause(g) \/ TaskPid(g) \/ TaskPids(g)
     \/ TaskResize(g) \/ TaskResume(g) \/ TaskSpec(g) \/ TaskStart(g)
     \/ TaskStatus(g) \/ TaskUpdate(g) \/ TaskWait(g)

FakeStep(g) == FakeClientStep(g) \/ FakeKubeletStep(g) \/ FakeImageStep(g)
               \/ FakeProcessStep(g) \/ FakeTaskStep(g)

Next == \E g \in Goroutines : FakeStep(g)

Spec == Init /\ [][Next]_vars

\* The scheduler runs every goroutine that is in a call; nobody has to call, or
\* to set an answer.
FairSpec == Spec /\ \A g \in Goroutines :
                      WF_vars(pc[g] # "idle" /\ UNCHANGED configs /\ FakeStep(g))
-----------------------------------------------------------------------------
(* Properties *)

CallSteps == {"idle", "lock", "append", "record", "write", "answer", "returned"}

\* The type of every variable.
TypeOK ==
  /\ fake \in DOMAIN Methods /\ used \subseteq Methods[fake]
  /\ config \in [used -> [stub : BOOLEAN, answer : {"zero", "default"},
                          onCall : SUBSET (0 .. MaxCalls - 1)]]
  /\ DOMAIN argsForCall = used /\ DOMAIN invocations = used
  /\ mutex \in [used -> Goroutines \cup {NoOne}]
  /\ invocationsMutex \in Goroutines \cup {NoOne}
  /\ pc \in [Goroutines -> CallSteps]
  /\ \A g \in Goroutines : /\ (call[g].method = None) <=> (pc[g] = "idle")
                           /\ call[g].answer \in Answers
  /\ calls \in 0 .. MaxCalls
  /\ configs \in 0 .. MaxConfigs

\* The two books of a fake agree, in the order of concurrent calls too:
\* Invocations never shows a call that CallCount and ArgsForCall do not, and
\* lacks at most the one that holds the method's mutex.
BooksAgree ==
  \A m \in used :
    LET g == mutex[m]
    IN  argsForCall[m] = IF g # NoOne /\ pc[g] \in {"record", "write"}
                         THEN Append(invocations[m], call[g].arg)
                         ELSE invocations[m]

\* A call has been answered with what ReturnsOnCall holds for one index.
Specific(g) == pc[g] = "returned" /\ call[g].answer = "specific"

\* An answer that ReturnsOnCall holds for index i goes to the call that
\* ArgsForCall shows at i, and to that one alone, however many goroutines call
\* the method.
OwnAnswer ==
  \A g \in Goroutines : Specific(g) =>
    LET m == call[g].method
    IN  /\ \E i \in call[g].ret :
             /\ i < CallCount(m)
             /\ call[g].arg # 0 => argsForCall[m][i + 1] = call[g].arg
        /\ \A h \in Goroutines \ {g} :
             Specific(h) /\ call[h].method = m =>
               call[h].ret \cap call[g].ret = {}

\* Every call of a fake returns, also when a stub uses the fake it belongs to.
CallsReturn == \A g \in Goroutines : pc[g] # "idle" ~> pc[g] = "idle"
=============================================================================
