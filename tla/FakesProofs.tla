---------------------------- MODULE FakesProofs ----------------------------
(***************************************************************************)
(* For any number of goroutines, any choice of methods and any number of   *)
(* calls: the books of a fake agree, and the answer for a call's index     *)
(* goes to the call that is recorded at that index, and to no other.       *)
(***************************************************************************)
EXTENDS Fakes, TLAPS

Call == [method : used \cup {None}, arg : Nat, ret : SUBSET Nat,
         stub : BOOLEAN, answer : Answers]

\* The types the proofs need.
Types == /\ config \in [used -> [stub : BOOLEAN, answer : {"zero", "default"},
                                 onCall : SUBSET (0 .. MaxCalls - 1)]]
         /\ argsForCall \in [used -> Seq(Nat)]
         /\ invocations \in [used -> Seq(Nat)]
         /\ mutex \in [used -> Goroutines \cup {NoOne}]
         /\ pc \in [Goroutines -> CallSteps]
         /\ call \in [Goroutines -> Call]
         /\ calls \in 0 .. MaxCalls

\* A call is of a method that is used.
InUse == \A g \in Goroutines : pc[g] # "idle" => call[g].method \in used

Holding == {"append", "record", "write"}

\* A method's mutex is held from the look-up of the answer to the map's write.
Holders == \A g \in Goroutines, m \in used :
             (mutex[m] = g) <=> pc[g] \in Holding /\ call[g].method = m

Recorded == {"record", "write", "answer", "returned"}

\* The index of the answer is that of the next call to be recorded while the
\* call holds the mutex for it, and the call's own afterwards.
Own(g) ==
  /\ pc[g] = "append" => call[g].ret \subseteq {CallCount(call[g].method)}
  /\ pc[g] \in Recorded => \A i \in call[g].ret :
       /\ i < CallCount(call[g].method)
       /\ call[g].arg # 0 => argsForCall[call[g].method][i + 1] = call[g].arg

\* No two calls of one method found an answer at the same index.
Apart(g, h) ==
  /\ pc[g] \in Recorded \cup {"append"} /\ pc[h] \in Recorded \cup {"append"}
  /\ call[g].method = call[h].method
  => call[g].ret \cap call[h].ret = {}

Indexed == /\ \A g \in Goroutines : Own(g)
           /\ \A g, h \in Goroutines : g # h => Apart(g, h)

\* A call has an answer of ReturnsOnCall only when it found one for its index.
Found == \A g \in Goroutines :
           /\ pc[g] # "returned" => call[g].answer # "specific"
           /\ call[g].answer = "specific" => call[g].ret # {}

FakesInv == Types /\ InUse /\ Holders /\ BooksAgree /\ Indexed /\ Found

\* One step of the functions generated for a method.
MethodStep(g, m, s) ==
  \/ Begin(g, m, s)
  \/ LookUpReturn(g, m) \/ RecordArgs(g, m) \/ LockInvocations(g, m)
  \/ recordInvocation(g, m)
  \/ RunStub(g, m) \/ AnswerReturned(g, m) \/ Resume(g, m)
  \/ Calls(m) \/ Returns(m)
  \/ \E i \in 0 .. MaxCalls - 1 : ReturnsOnCall(m, i)

\* Every method of every fake goes through the same steps.
LEMMA AllAlike ==
  ASSUME NEW g \in Goroutines, FakeStep(g)
  PROVE  \E m \in used, s \in Signatures : MethodStep(g, m, s)
<1>1. \E m : \E s \in {"no args", "args"} : Method(g, m, s)
  <2>1. CASE FakeClientStep(g) \/ FakeKubeletStep(g)
    BY <2>1, Zenon
       DEF FakeClientStep, ClientDelete, ClientIsServing, ClientLoadTasks,
           ClientPull, FakeKubeletStep, KubeletGetMetrics
  <2>2. CASE FakeImageStep(g)
    BY <2>2, Zenon
       DEF FakeImageStep, ImageConfig, ImageContentStore, ImageIsUnpacked,
           ImageLabels, ImageMetadata, ImageName, ImagePlatform, ImageRootFS,
           ImageSize, ImageSpec, ImageTarget, ImageUnpack, ImageUsage
  <2>3. CASE FakeProcessStep(g)
    BY <2>3, Zenon
       DEF FakeProcessStep, ProcessCloseIO, ProcessDelete, ProcessID,
           ProcessIO, ProcessKill, ProcessPid, ProcessResize, ProcessStart,
           ProcessStatus, ProcessWait
  <2>4. CASE FakeTaskStep(g)
    BY <2>4, Zenon
       DEF FakeTaskStep, TaskCheckpoint, TaskCloseIO, TaskDelete, TaskExec,
           TaskID, TaskIO, TaskKill, TaskLoadProcess, TaskMetrics, TaskPause,
           TaskPid, TaskPids, TaskResize, TaskResume, TaskSpec, TaskStart,
           TaskStatus, TaskUpdate, TaskWait
  <2> QED BY <2>1, <2>2, <2>3, <2>4 DEF FakeStep
<1>2. PICK m : \E s \in {"no args", "args"} : Method(g, m, s)
  BY <1>1
<1>a. PICK s \in {"no args", "args"} : Method(g, m, s)
  BY <1>2
<1>3. m \in used /\ MethodStep(g, m, s)
  BY <1>a DEF Method, MethodStep
<1> QED BY <1>3 DEF Signatures

\* No call has been made.
LEMMA FakesStart == Init => FakesInv
<1> SUFFICES ASSUME Init PROVE FakesInv
  OBVIOUS
<1>1. NoCall \in Call /\ <<>> \in Seq(Nat)
  BY DEF NoCall, Call, Answers
<1>2. Types
  BY <1>1, FakesAssumption DEF Init, Types, CallSteps
<1>3. InUse /\ Holders
  BY FakesAssumption DEF Init, InUse, Holders, Holding
<1>4. BooksAgree
  BY DEF Init, BooksAgree
<1>5. Indexed
  BY DEF Init, Indexed, Own, Apart, Recorded
<1>6. Found
  BY DEF Init, Found, NoCall
<1> QED BY <1>2, <1>3, <1>4, <1>5, <1>6 DEF FakesInv

\* BooksAgree for one method.
Books(m) ==
  argsForCall[m] = IF mutex[m] # NoOne /\ pc[mutex[m]] \in {"record", "write"}
                   THEN Append(invocations[m], call[mutex[m]].arg)
                   ELSE invocations[m]

\* The books of the methods whose mutex, entries and holder are left alone.
LEMMA NoneTouched ==
  ASSUME FakesInv, NEW g \in Goroutines, NEW n \in used, mutex[n] # g,
         argsForCall'[n] = argsForCall[n], invocations'[n] = invocations[n],
         mutex'[n] = mutex[n],
         \A h \in Goroutines \ {g} : call'[h] = call[h] /\ pc'[h] = pc[h]
  PROVE  Books(n)'
<1>1. Books(n)
  BY DEF FakesInv, BooksAgree, Books
<1>2. CASE mutex[n] = NoOne
  BY <1>1, <1>2 DEF Books
<1>3. CASE mutex[n] # NoOne
  <2>1. mutex[n] \in Goroutines \ {g}
    BY <1>3 DEF FakesInv, Types
  <2> QED BY <1>1, <2>1 DEF Books
<1> QED BY <1>2, <1>3

\* A step of a call that has not found its answer's index or keeps it, and
\* leaves the argument lists alone.
LEMMA IndexKept ==
  ASSUME Indexed, NEW g \in Goroutines, argsForCall' = argsForCall,
         \A h \in Goroutines \ {g} : call'[h] = call[h] /\ pc'[h] = pc[h],
         \/ pc'[g] \notin Recorded \cup {"append"}
         \/ /\ pc[g] \in Recorded /\ pc'[g] # "append"
            /\ call'[g].method = call[g].method /\ call'[g].arg = call[g].arg
            /\ call'[g].ret = call[g].ret
  PROVE  Indexed'
<1>0. "append" \notin Recorded
  BY DEF Recorded
<1>1. ASSUME NEW h \in Goroutines PROVE Own(h)'
  <2>0. Own(h)
    BY DEF Indexed
  <2>1. CASE h # g
    <3>1. call'[h] = call[h] /\ pc'[h] = pc[h]
      BY <2>1
    <3> QED BY <2>0, <3>1 DEF Own, CallCount
  <2>2. CASE h = g /\ pc'[g] \notin Recorded \cup {"append"}
    BY <2>2 DEF Own
  <2>3. CASE h = g /\ pc'[g] \in Recorded
    <3>1. /\ pc[g] \in Recorded /\ pc'[g] # "append"
          /\ call'[g].method = call[g].method /\ call'[g].arg = call[g].arg
          /\ call'[g].ret = call[g].ret
      BY <2>3
    <3> QED BY <2>0, <2>3, <3>1 DEF Own, CallCount
  <2> QED BY <2>1, <2>2, <2>3
<1>2. ASSUME NEW h \in Goroutines, NEW k \in Goroutines, h # k PROVE Apart(h, k)'
  <2>0. Apart(h, k)
    BY <1>2 DEF Indexed
  <2>1. ASSUME NEW i \in Goroutines, pc'[i] \in Recorded \cup {"append"}
        PROVE  /\ pc[i] \in Recorded \cup {"append"}
               /\ call'[i].method = call[i].method /\ call'[i].ret = call[i].ret
    <3>1. CASE i = g
      BY <2>1, <3>1
    <3>2. CASE i # g
      BY <2>1, <3>2
    <3> QED BY <3>1, <3>2
  <2> SUFFICES ASSUME pc'[h] \in Recorded \cup {"append"},
                      pc'[k] \in Recorded \cup {"append"},
                      call'[h].method = call'[k].method
               PROVE  call'[h].ret \cap call'[k].ret = {}
    BY Zenon DEF Apart
  <2> QED BY <2>0, <2>1, Zenon DEF Apart
<1> QED BY <1>1, <1>2, Zenon DEF Indexed

\* What a sequence is after Append.
LEMMA Appended ==
  ASSUME NEW S, NEW s \in Seq(S), NEW x \in S
  PROVE  /\ Len(s) \in Nat
         /\ Len(Append(s, x)) = Len(s) + 1
         /\ Append(s, x)[Len(s) + 1] = x
         /\ \A i \in 1 .. Len(s) : Append(s, x)[i] = s[i]
OBVIOUS

\* The arithmetic of call numbers.
LEMMA Below ==
  ASSUME NEW n \in Nat
  PROVE  /\ n < n + 1 /\ ~(n < n)
         /\ \A i \in Nat : i < n => i # n /\ i < n + 1 /\ i + 1 \in 1 .. n
OBVIOUS

\* The answer is looked up while no call of the method is being recorded, so
\* every index found so far is below the count.
LEMMA LooksUpOwn ==
  ASSUME FakesInv, NEW g \in Goroutines, NEW m \in used, LookUpReturn(g, m)
  PROVE  Indexed'
<1> DEFINE r == {CallCount(m)} \cap config[m].onCall
<1>1. /\ argsForCall' = argsForCall /\ pc'[g] = "append"
      /\ call'[g].method = m /\ call'[g].ret = r
      /\ \A h \in Goroutines \ {g} : call'[h] = call[h] /\ pc'[h] = pc[h]
  BY DEF LookUpReturn, FakesInv, Types, Call
<1>2. CallCount(m) \in Nat /\ CallCount(m)' = CallCount(m)
  BY <1>1 DEF FakesInv, Types, CallCount
<1>3. ASSUME NEW h \in Goroutines \ {g}, pc[h] \in Recorded \cup {"append"},
             call[h].method = m
      PROVE  CallCount(m) \notin call[h].ret
  <2>1. pc[h] # "append"
    <3>1. mutex[m] # h
      BY FakesAssumption DEF LookUpReturn
    <3> QED BY <1>3, <3>1 DEF FakesInv, Holders, Holding
  <2>2. Own(h)
    BY DEF FakesInv, Indexed
  <2>3. \A i \in call[h].ret : i < CallCount(m)
    BY <1>3, <2>1, <2>2 DEF Own
  <2> QED BY <1>2, <2>3, Below
<1> HIDE DEF r
<1>4. r \subseteq {CallCount(m)}
  BY DEF r
<1>5. ASSUME NEW h \in Goroutines PROVE Own(h)'
  <2>1. CASE h = g
    BY <1>1, <1>2, <1>4, <2>1 DEF Own, Recorded
  <2>2. CASE h # g
    <3>1. Own(h) /\ call'[h] = call[h] /\ pc'[h] = pc[h]
      BY <1>1, <2>2 DEF FakesInv, Indexed
    <3> QED BY <1>1, <3>1 DEF Own, CallCount
  <2> QED BY <2>1, <2>2
<1>6. ASSUME NEW h \in Goroutines \ {g}, pc'[h] \in Recorded \cup {"append"},
             call'[h].method = m
      PROVE  call'[h].ret \cap call'[g].ret = {}
  BY <1>1, <1>3, <1>4, <1>6
<1>7. ASSUME NEW h \in Goroutines, NEW k \in Goroutines, h # k PROVE Apart(h, k)'
  <2>1. CASE h = g
    BY <1>1, <1>6, <1>7, <2>1 DEF Apart
  <2>2. CASE k = g
    BY <1>1, <1>6, <1>7, <2>2 DEF Apart
  <2>3. CASE h # g /\ k # g
    <3>1. Apart(h, k)
      BY <1>7 DEF FakesInv, Indexed
    <3>2. /\ call'[h] = call[h] /\ pc'[h] = pc[h]
          /\ call'[k] = call[k] /\ pc'[k] = pc[k]
      BY <1>1, <2>3
    <3> QED BY <3>1, <3>2 DEF Apart
  <2> QED BY <2>1, <2>2, <2>3
<1> QED BY <1>5, <1>7, Zenon DEF Indexed

\* The call is recorded at the index it looked up, since nobody else recorded
\* one of that method in between.
LEMMA RecordsOwn ==
  ASSUME FakesInv, NEW g \in Goroutines, NEW m \in used, RecordArgs(g, m)
  PROVE  Indexed'
<1> DEFINE n == CallCount(m)
           a == call[g].arg
<1>1. /\ pc[g] = "append" /\ pc'[g] = "record"
      /\ call[g].method = m /\ call'[g].method = m
      /\ call'[g].ret = call[g].ret /\ call'[g].arg = a
      /\ \A h \in Goroutines \ {g} : call'[h] = call[h] /\ pc'[h] = pc[h]
  BY DEF RecordArgs, FakesInv, Types, Call
<1>2. /\ argsForCall[m] \in Seq(Nat) /\ a \in Nat
      /\ argsForCall'[m] = Append(argsForCall[m], a)
      /\ \A k \in used \ {m} : argsForCall'[k] = argsForCall[k]
  BY DEF RecordArgs, FakesInv, Types, Call
<1>3. /\ n \in Nat /\ Len(argsForCall'[m]) = n + 1 /\ argsForCall'[m][n + 1] = a
      /\ \A i \in 1 .. n : argsForCall'[m][i] = argsForCall[m][i]
  BY ONLY <1>2, Appended DEF CallCount
<1>4. \A h \in Goroutines : Own(h) /\ call[h].ret \subseteq Nat
  BY DEF FakesInv, Indexed, Types, Call
<1>5. n = Len(argsForCall[m])
  BY DEF CallCount
<1> HIDE DEF n, a
<1>6. ASSUME NEW h \in Goroutines PROVE Own(h)'
  <2>1. CASE h = g
    <3>1. call[g].ret \subseteq {n}
      BY <1>1, <1>4 DEF Own, n
    <3>2. ASSUME NEW i \in call'[g].ret
          PROVE  i < Len(argsForCall'[m]) /\ argsForCall'[m][i + 1] = a
      <4>1. i = n
        BY <1>1, <3>1
      <4> QED BY <1>3, <4>1, Below
    <3> QED BY <1>1, <2>1, <3>2, Zenon DEF Own, CallCount
  <2>2. CASE h # g /\ call[h].method = m
    <3>1. call'[h] = call[h] /\ pc'[h] = pc[h] /\ pc[h] # "append"
      <4>1. mutex[m] = g
        BY <1>1 DEF FakesInv, Holders, Holding
      <4> QED BY <1>1, <2>2, <4>1 DEF FakesInv, Holders, Holding
    <3>2. ASSUME pc[h] \in Recorded, NEW i \in call[h].ret
          PROVE  /\ i < Len(argsForCall'[m])
                 /\ call[h].arg # 0 => argsForCall'[m][i + 1] = call[h].arg
      <4>1. /\ i < n /\ i \in Nat
            /\ call[h].arg # 0 => argsForCall[m][i + 1] = call[h].arg
        BY <1>4, <2>2, <3>2 DEF Own, n
      <4>2. i < n + 1 /\ i + 1 \in 1 .. n
        BY <1>3, <4>1, Below
      <4> QED BY <1>3, <4>1, <4>2
    <3> QED BY <2>2, <3>1, <3>2, Zenon DEF Own, CallCount
  <2>3. CASE h # g /\ call[h].method # m
    <3>1. call'[h] = call[h] /\ pc'[h] = pc[h]
      BY <1>1, <2>3
    <3>2. pc[h] \in Recorded \cup {"append"} =>
            argsForCall'[call[h].method] = argsForCall[call[h].method]
      BY <1>2, <2>3 DEF FakesInv, InUse, Recorded
    <3> QED BY <1>4, <3>1, <3>2 DEF Own, CallCount
  <2> QED BY <2>1, <2>2, <2>3
<1>7. ASSUME NEW h \in Goroutines, NEW k \in Goroutines, h # k PROVE Apart(h, k)'
  <2>1. Apart(h, k)
    BY <1>7 DEF FakesInv, Indexed
  <2>2. \A i \in Goroutines :
          /\ pc'[i] \in Recorded \cup {"append"} => pc[i] \in Recorded \cup {"append"}
          /\ call'[i].method = call[i].method /\ call'[i].ret = call[i].ret
    BY <1>1 DEF Recorded
  <2> QED BY <2>1, <2>2, Zenon DEF Apart
<1> QED BY <1>6, <1>7, Zenon DEF Indexed

\* A goroutine's step in a call, or a change of the answers, keeps the
\* invariant.
LEMMA MethodKeeps ==
  ASSUME FakesInv, NEW g \in Goroutines, NEW m \in used, NEW s \in Signatures,
         MethodStep(g, m, s)
  PROVE  FakesInv'
<1> USE FakesAssumption
<1> USE DEF FakesInv
<1>0. used' = used
  BY DEF MethodStep, Begin, LookUpReturn, RecordArgs, LockInvocations,
         recordInvocation, RunStub, AnswerReturned, Resume, Calls, Returns,
         ReturnsOnCall, Configure, test, books
<1>c. Call' = Call
  BY <1>0 DEF Call
<1>b. ASSUME \A n \in used : Books(n)' PROVE BooksAgree'
  BY <1>0, <1>b DEF BooksAgree, Books
<1>1. CASE Begin(g, m, s)
  <2> USE <1>0, <1>c, <1>1 DEF Begin, locks, test
  <2> DEFINE c == [NoCall EXCEPT !.method = m,
                                 !.arg = IF s = "args" THEN calls + 1 ELSE 0]
  <2>0. c \in Call /\ c.method = m /\ c.answer = "zero"
    <3> DEFINE a == IF s = "args" THEN calls + 1 ELSE 0
    <3>1. a \in Nat
      BY DEF Types
    <3> HIDE DEF a
    <3>2. [NoCall EXCEPT !.method = m, !.arg = a] \in Call
      BY <3>1 DEF NoCall, Call, Answers
    <3>3. [NoCall EXCEPT !.method = m, !.arg = a].method = m
          /\ [NoCall EXCEPT !.method = m, !.arg = a].answer = "zero"
      BY DEF NoCall
    <3> QED BY <3>2, <3>3 DEF a
  <2>a. call' = [call EXCEPT ![g] = c]
    OBVIOUS
  <2> HIDE DEF c
  <2>1. Types'
    BY <2>0, <2>a DEF Types, CallSteps
  <2>2. InUse'
    BY <2>0, <2>a DEF InUse, Types
  <2>3. Holders'
    BY <2>0, <2>a DEF Holders, Holding, Types
  <2>4. BooksAgree'
    <3>1. \A n \in used : mutex[n] # g
      BY DEF Holders, Holding
    <3>2. \A h \in Goroutines \ {g} : call'[h] = call[h] /\ pc'[h] = pc[h]
      BY <2>a DEF Types
    <3> QED BY <1>b, <3>1, <3>2, NoneTouched
  <2>5. Indexed'
    BY <2>a, IndexKept DEF Types, Recorded
  <2>6. Found'
    BY <2>0, <2>a DEF Found, Types
  <2> QED BY <2>1, <2>2, <2>3, <2>4, <2>5, <2>6
<1>2. CASE LookUpReturn(g, m)
  <2> USE <1>0, <1>c, <1>2 DEF LookUpReturn, test
  <2> DEFINE c == [call[g] EXCEPT !.ret = {CallCount(m)} \cap config[m].onCall]
  <2>0. c \in Call /\ c.method = m /\ c.answer = call[g].answer
    <3>1. {CallCount(m)} \cap config[m].onCall \in SUBSET Nat
      <4>1. CallCount(m) \in Nat
        BY DEF Types, CallCount
      <4> QED BY <4>1
    <3>2. call[g] \in Call /\ call[g].method = m
      BY DEF Types
    <3> QED BY ONLY <3>1, <3>2 DEF Call
  <2>a. call' = [call EXCEPT ![g] = c]
    BY DEF Types
  <2> HIDE DEF c
  <2>1. Types'
    BY <2>0, <2>a DEF Types, CallSteps
  <2>2. InUse'
    BY <2>0, <2>a DEF InUse, Types
  <2>3. Holders'
    BY <2>0, <2>a DEF Holders, Holding, Types
  <2>4. BooksAgree'
    <3> SUFFICES ASSUME NEW n \in used PROVE Books(n)'
      BY <1>b
    <3>1. CASE n = m
      BY <3>1 DEF BooksAgree, Books, Types
    <3>2. CASE n # m
      BY <3>2, NoneTouched DEF Types, Holders, Holding
    <3> QED BY <3>1, <3>2
  <2>5. Indexed'
    BY LooksUpOwn
  <2>6. Found'
    BY <2>0, <2>a DEF Found, Types
  <2> QED BY <2>1, <2>2, <2>3, <2>4, <2>5, <2>6
<1>3. CASE RecordArgs(g, m)
  <2> USE <1>0, <1>c, <1>3 DEF RecordArgs, test, locks
  <2> DEFINE c == [call[g] EXCEPT !.stub = config[m].stub,
                                  !.answer = config[m].answer]
  <2>0. c \in Call /\ c.method = m /\ c.answer # "specific" /\ c.arg = call[g].arg
    BY DEF Types, Call, Answers
  <2>a. call' = [call EXCEPT ![g] = c]
    BY DEF Types
  <2>b. call[g].arg \in Nat
    BY DEF Types, Call
  <2> HIDE DEF c
  <2>1. Types'
    <3>1. argsForCall' \in [used -> Seq(Nat)]
      BY <2>b DEF Types
    <3>2. call' \in [Goroutines -> Call] /\ pc' \in [Goroutines -> CallSteps]
      BY <2>0, <2>a DEF Types, CallSteps
    <3> QED BY <3>1, <3>2, Zenon DEF Types
  <2>2. InUse'
    BY <2>0, <2>a DEF InUse, Types
  <2>3. Holders'
    BY <2>0, <2>a DEF Holders, Holding, Types
  <2>4. BooksAgree'
    <3> SUFFICES ASSUME NEW n \in used PROVE Books(n)'
      BY <1>b
    <3>0. mutex[m] = g
      BY DEF Holders, Holding
    <3>1. CASE n = m
      <4>1. argsForCall[m] = invocations[m]
        BY <3>0 DEF BooksAgree
      <4>2. /\ argsForCall'[m] = Append(argsForCall[m], call[g].arg)
            /\ pc'[g] = "record" /\ call'[g].arg = call[g].arg
        BY <2>0, <2>a DEF Types
      <4>3. mutex'[m] = g /\ g # NoOne /\ invocations'[m] = invocations[m]
        BY <3>0
      <4> QED BY <3>1, <4>1, <4>2, <4>3 DEF Books
    <3>2. CASE n # m
      BY <3>2, NoneTouched DEF Types, Holders, Holding
    <3> QED BY <3>1, <3>2
  <2>5. Indexed'
    BY RecordsOwn
  <2>6. Found'
    BY <2>0, <2>a DEF Found, Types
  <2> QED BY <2>1, <2>2, <2>3, <2>4, <2>5, <2>6
<1>4. CASE LockInvocations(g, m)
  <2> USE <1>0, <1>c, <1>4 DEF LockInvocations, test
  <2>1. Types'
    BY DEF Types, CallSteps
  <2>2. InUse' /\ Found'
    BY DEF InUse, Types, Found
  <2>a. Holders'
    BY DEF Holders, Holding, Types
  <2>3. BooksAgree'
    BY DEF BooksAgree, Types
  <2>4. Indexed'
    BY IndexKept DEF Types, Recorded
  <2> QED BY <2>1, <2>2, <2>3, <2>4, <2>a
<1>5. CASE recordInvocation(g, m)
  <2> USE <1>0, <1>c, <1>5 DEF recordInvocation, test
  <2>b. call[g].arg \in Nat
    BY DEF Types, Call
  <2>1. Types'
    BY <2>b DEF Types, CallSteps
  <2>2. InUse' /\ Found'
    BY DEF InUse, Types, Found
  <2>a. Holders'
    BY DEF Holders, Holding, Types
  <2>3. BooksAgree'
    <3> SUFFICES ASSUME NEW n \in used PROVE Books(n)'
      BY <1>b
    <3>0. mutex[m] = g
      BY DEF Holders, Holding
    <3>1. CASE n = m
      BY <3>0, <3>1 DEF BooksAgree, Books, Types
    <3>2. CASE n # m
      BY <3>2, NoneTouched DEF Types, Holders, Holding
    <3> QED BY <3>1, <3>2
  <2>4. Indexed'
    BY IndexKept DEF Types, Recorded
  <2> QED BY <2>1, <2>2, <2>3, <2>4, <2>a
<1>6. CASE RunStub(g, m) \/ AnswerReturned(g, m)
  <2>1. PICK a \in Answers :
          /\ call' = [call EXCEPT ![g].answer = a]
          /\ a = "specific" => call[g].ret # {}
    <3>1. CASE RunStub(g, m)
      BY <3>1 DEF RunStub, Answers
    <3>2. CASE AnswerReturned(g, m)
      <4> DEFINE b == IF call[g].ret # {} THEN "specific" ELSE call[g].answer
      <4>1. b \in Answers /\ (b = "specific" => call[g].ret # {})
        BY DEF Found, Types, Call, Answers
      <4>2. call' = [call EXCEPT ![g].answer = b]
        BY <3>2 DEF AnswerReturned, Types, Call
      <4> QED BY <4>1, <4>2
    <3> QED BY <1>6, <3>1, <3>2
  <2>2. /\ pc[g] = "answer" /\ call[g].method = m
        /\ pc' = [pc EXCEPT ![g] = "returned"]
        /\ UNCHANGED <<test, config, books, configs>>
    BY <1>6 DEF RunStub, AnswerReturned
  <2> DEFINE c == [call[g] EXCEPT !.answer = a]
  <2>0. /\ c \in Call /\ c.method = call[g].method /\ c.arg = call[g].arg
        /\ c.ret = call[g].ret /\ c.answer = a
    BY DEF Types, Call
  <2>a. call' = [call EXCEPT ![g] = c]
    BY <2>1 DEF Types
  <2> HIDE DEF c
  <2> USE <1>0, <1>c, <2>2 DEF test, books, locks
  <2>3. Types'
    BY <2>0, <2>a DEF Types, CallSteps
  <2>4. InUse' /\ Holders'
    BY <2>0, <2>a DEF InUse, Holders, Holding, Types
  <2>5. Found'
    BY <2>0, <2>1, <2>a DEF Found, Types
  <2>6. BooksAgree'
    <3>1. \A n \in used : mutex[n] # g
      BY DEF Holders, Holding
    <3>2. \A h \in Goroutines \ {g} : call'[h] = call[h] /\ pc'[h] = pc[h]
      BY <2>a DEF Types
    <3> QED BY <1>b, <3>1, <3>2, NoneTouched
  <2>7. Indexed'
    BY <2>0, <2>a, IndexKept DEF Types, Recorded
  <2> QED BY <2>3, <2>4, <2>5, <2>6, <2>7
<1>7. CASE Resume(g, m)
  <2> USE <1>0, <1>c, <1>7 DEF Resume, test, books, locks
  <2>0. NoCall \in Call /\ NoCall.answer # "specific"
    BY DEF NoCall, Call, Answers
  <2>1. Types'
    BY <2>0 DEF Types, CallSteps
  <2>2. InUse' /\ Holders'
    BY DEF InUse, Holders, Holding, Types
  <2>3. Found'
    BY <2>0 DEF Found, Types
  <2>4. BooksAgree'
    <3>1. \A n \in used : mutex[n] # g
      BY DEF Holders, Holding
    <3>2. \A h \in Goroutines \ {g} : call'[h] = call[h] /\ pc'[h] = pc[h]
      BY DEF Types
    <3> QED BY <1>b, <3>1, <3>2, NoneTouched
  <2>5. Indexed'
    BY IndexKept DEF Types, Recorded
  <2> QED BY <2>1, <2>2, <2>3, <2>4, <2>5
<1>8. ASSUME NEW c \in [stub : BOOLEAN, answer : {"zero", "default"},
                        onCall : SUBSET (0 .. MaxCalls - 1)], Configure(m, c)
      PROVE  FakesInv'
  <2> USE <1>0, <1>c, <1>8 DEF Configure, test, books, locks
  <2>1. Types'
    BY DEF Types
  <2>a. InUse' /\ Found'
    BY DEF InUse, Found
  <2>b. Holders'
    BY DEF Holders
  <2>2. BooksAgree'
    BY DEF BooksAgree
  <2>3. Indexed'
    BY DEF Indexed, Own, Apart, CallCount
  <2> QED BY <2>1, <2>2, <2>3, <2>a, <2>b
<1>9. CASE Calls(m)
  BY <1>8, <1>9 DEF Calls, Types
<1>10. CASE Returns(m)
  BY <1>8, <1>10 DEF Returns, Types
<1>11. ASSUME NEW i \in 0 .. MaxCalls - 1, ReturnsOnCall(m, i) PROVE FakesInv'
  BY <1>8, <1>11 DEF ReturnsOnCall, Types
<1> QED BY <1>1, <1>2, <1>3, <1>4, <1>5, <1>6, <1>7, <1>9, <1>10, <1>11
       DEF MethodStep

\* The invariant holds throughout.
LEMMA FakesInvariant == Spec => []FakesInv
<1>1. FakesInv /\ [Next]_vars => FakesInv'
  <2> SUFFICES ASSUME FakesInv, [Next]_vars PROVE FakesInv'
    OBVIOUS
  <2>1. CASE Next
    <3>1. PICK g \in Goroutines : FakeStep(g)
      BY <2>1 DEF Next
    <3>2. PICK m \in used, s \in Signatures : MethodStep(g, m, s)
      BY <3>1, AllAlike
    <3> QED BY <3>2, MethodKeeps
  <2>2. CASE UNCHANGED vars
    <3> USE <2>2 DEF vars, test, books, locks, FakesInv
    <3>1. Types'
      BY DEF Types, Call
    <3>2. InUse' /\ Holders' /\ Found'
      BY DEF InUse, Holders, Found
    <3>3. BooksAgree'
      BY DEF BooksAgree
    <3>4. Indexed'
      BY DEF Indexed, Own, Apart, CallCount
    <3> QED BY <3>1, <3>2, <3>3, <3>4
  <2> QED BY <2>1, <2>2
<1> QED BY <1>1, FakesStart, PTL DEF Spec

-----------------------------------------------------------------------------
(* The rest of the types *)

\* A method's name is not that of no method.
LEMMA NoneIsNoMethod ==
  ASSUME NEW f \in DOMAIN Methods
  PROVE  None \notin Methods[f]
BY DEF Methods, None

\* What FakesInv leaves out of the type invariant.
Rest == /\ fake \in DOMAIN Methods /\ used \subseteq Methods[fake]
        /\ invocationsMutex \in Goroutines \cup {NoOne}
        /\ configs \in 0 .. MaxConfigs
        /\ \A g \in Goroutines : pc[g] = "idle" => call[g].method = None

\* The test uses methods of one fake.
LEMMA RestInit == Init => Rest
BY FakesAssumption DEF Init, Rest, NoCall

\* What the steps do to the variables that FakesInv is not about.
LEMMA RestStep ==
  ASSUME FakesInv, Rest, NEW g \in Goroutines, NEW m \in used,
         NEW s \in Signatures, MethodStep(g, m, s)
  PROVE  Rest'
<1>0. fake' = fake /\ used' = used
  BY DEF MethodStep, Begin, LookUpReturn, RecordArgs, LockInvocations,
         recordInvocation, RunStub, AnswerReturned, Resume, Calls, Returns,
         ReturnsOnCall, Configure, test, books
<1>1. configs' \in 0 .. MaxConfigs
  <2>1. \/ configs' = configs
        \/ configs < MaxConfigs /\ configs' = configs + 1
    BY DEF MethodStep, Begin, LookUpReturn, RecordArgs, LockInvocations,
           recordInvocation, RunStub, AnswerReturned, Resume, Calls, Returns,
           ReturnsOnCall, Configure
  <2> QED BY <2>1, FakesAssumption DEF Rest
<1>2. invocationsMutex' \in Goroutines \cup {NoOne}
  <2>1. invocationsMutex' \in {invocationsMutex, g, NoOne}
    BY DEF MethodStep, Begin, LookUpReturn, RecordArgs, LockInvocations,
           recordInvocation, RunStub, AnswerReturned, Resume, Calls, Returns,
           ReturnsOnCall, Configure, books, locks
  <2> QED BY <2>1 DEF Rest
<1>3. ASSUME NEW h \in Goroutines PROVE pc'[h] = "idle" => call'[h].method = None
  <2>1. \/ pc'[h] = pc[h] /\ call'[h] = call[h]
        \/ pc'[h] # "idle"
        \/ call'[h] = NoCall
    BY DEF FakesInv, Types, MethodStep, Begin, LookUpReturn, RecordArgs,
           LockInvocations, recordInvocation, RunStub, AnswerReturned, Resume,
           Calls, Returns, ReturnsOnCall, Configure
  <2> QED BY <2>1 DEF Rest, NoCall
<1> QED BY <1>0, <1>1, <1>2, <1>3 DEF Rest

\* The rest of the types holds throughout.
LEMMA RestInvariant == Spec => []Rest
<1>1. FakesInv /\ Rest /\ [Next]_vars => Rest'
  <2> SUFFICES ASSUME FakesInv, Rest, [Next]_vars PROVE Rest'
    OBVIOUS
  <2>1. CASE Next
    <3>1. PICK g \in Goroutines : FakeStep(g)
      BY <2>1 DEF Next
    <3>2. PICK m \in used, s \in Signatures : MethodStep(g, m, s)
      BY <3>1, AllAlike
    <3> QED BY <3>2, RestStep
  <2>2. CASE UNCHANGED vars
    BY <2>2 DEF vars, test, books, locks, Rest
  <2> QED BY <2>1, <2>2
<1> QED BY <1>1, RestInit, FakesInvariant, PTL DEF Spec

\* CallCount, ArgsForCall and Invocations agree, but for a call that is being
\* recorded.
THEOREM BooksOfAFake == Spec => []BooksAgree
<1>1. FakesInv => BooksAgree
  BY DEF FakesInv
<1> QED BY <1>1, FakesInvariant, PTL

\* What ReturnsOnCall holds for an index answers the call that is recorded at
\* that index, and no other of the concurrent calls.
THEOREM AnswersAreOwn == Spec => []OwnAnswer
<1>1. FakesInv => OwnAnswer
  <2> SUFFICES ASSUME FakesInv, NEW g \in Goroutines, Specific(g)
               PROVE  LET m == call[g].method
                      IN  /\ \E i \in call[g].ret :
                               /\ i < CallCount(m)
                               /\ call[g].arg # 0 =>
                                    argsForCall[m][i + 1] = call[g].arg
                          /\ \A h \in Goroutines \ {g} :
                               Specific(h) /\ call[h].method = m =>
                                 call[h].ret \cap call[g].ret = {}
    BY DEF OwnAnswer
  <2>1. PICK i \in call[g].ret : TRUE
    BY DEF FakesInv, Found, Specific
  <2>2. Own(g) /\ pc[g] \in Recorded
    BY DEF FakesInv, Indexed, Specific, Recorded
  <2>3. /\ i < CallCount(call[g].method)
        /\ call[g].arg # 0 =>
             argsForCall[call[g].method][i + 1] = call[g].arg
    BY <2>2 DEF Own
  <2>4. ASSUME NEW h \in Goroutines \ {g}, Specific(h),
               call[h].method = call[g].method
        PROVE  call[h].ret \cap call[g].ret = {}
    <3>1. Apart(h, g)
      BY DEF FakesInv, Indexed
    <3> QED BY <2>4, <3>1 DEF Apart, Specific, Recorded
  <2> QED BY <2>3, <2>4
<1> QED BY <1>1, FakesInvariant, PTL

\* Types: a goroutine has a call of one of the fake's methods or none.
THEOREM FakesTypes == Spec => []TypeOK
<1>1. FakesInv /\ Rest => TypeOK
  <2> SUFFICES ASSUME FakesInv, Rest PROVE TypeOK
    OBVIOUS
  <2>1. None \notin used
    BY NoneIsNoMethod DEF Rest
  <2>2. ASSUME NEW g \in Goroutines
        PROVE  /\ (call[g].method = None) <=> (pc[g] = "idle")
               /\ call[g].answer \in Answers
    BY <2>1 DEF FakesInv, Types, InUse, Rest, Call
  <2> QED BY <2>2, Zenon DEF FakesInv, Types, Rest, TypeOK
<1> QED BY <1>1, FakesInvariant, RestInvariant, PTL
=============================================================================
