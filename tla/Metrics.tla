------------------------------ MODULE Metrics ------------------------------
(***************************************************************************)
(* BulkMetrics (client.go) and the kubelet client (kubelet/client.go): one *)
(* summary of all pods is fetched, the pods that were asked for are picked *)
(* out of it one by one, and each is joined with its container's entry in  *)
(* a table that Create and Destroy go on changing.                         *)
(***************************************************************************)
EXTENDS Integers, Sequences

CONSTANTS Handles,      \* the handles of this client's containers
          PodStats,     \* the records that may appear in a summary
          MaxPods,      \* bound on the pods in a summary
          Bits,         \* the width of uint64 and of time.Duration
          RootfsSize,   \* handle -> size of its image
          CpuAssignment \* handle -> its share of the CPU

\* A pod's statistics: its name, its age by the clock of this process
\* (negative when the clocks disagree), whether it has an "app" container, and
\* the values the kubelet may leave out (Nil).
Nil == 0 - 1
Optional == Nat \cup {Nil}
PodStat == [name : STRING, age : Int, app : BOOLEAN, cpu : Optional,
            memory : Optional, disk : Optional, rx : Optional, tx : Optional]

ASSUME MetricsAssumption ==
  /\ Handles \subseteq STRING
  /\ PodStats \subseteq PodStat
  /\ MaxPods \in Nat
  /\ Bits \in Nat \ {0}
  /\ \A s \in PodStats : s.age < 2 ^ (Bits - 1) /\ 0 - s.age <= 2 ^ (Bits - 1)
  /\ RootfsSize \in [Handles -> Nat]
  /\ CpuAssignment \in [Handles -> Nat]

VARIABLES table,    \* handle -> "new", "in" the container table, or "out" again
          call,     \* where BulkMetrics is, or how it has ended
          guids,    \* the handles it was asked for
          summary,  \* the kubelet's answer
          visited,  \* the pods of it that toContainerMetrics has come to
          metrics,  \* containerMetrics, its answer
          entries   \* metricsMap

answerVars == <<guids, summary, visited, metrics, entries>>
vars == <<table, call, answerVars>>

Empty == [n \in {} |-> 0]

Init == /\ table = [h \in Handles |-> "new"]
        /\ call = "idle"
        /\ guids = {}
        /\ summary = <<>>
        /\ visited = 0
        /\ metrics = Empty
        /\ entries = Empty
-----------------------------------------------------------------------------
(* The kubelet client *)

\* A conversion of time.Since to uint64, and of that to time.Duration.
Half == 2 ^ (Bits - 1)
Unsigned(x) == x % (2 * Half)
Signed(x) == IF x < Half THEN x ELSE x - 2 * Half

OrZero(x) == IF x = Nil THEN 0 ELSE x

MetricsPoint(s) == [age |-> Unsigned(s.age), cpu |-> OrZero(s.cpu),
                    memory |-> OrZero(s.memory), disk |-> OrZero(s.disk),
                    rx |-> s.rx, tx |-> s.tx]

Put(f, k, v) == [n \in DOMAIN f \cup {k} |-> IF n = k THEN v ELSE f[n]]

\* Mutant of toContainerMetrics: every pod with an app container is taken.
toContainerMetricsOfAll(m, s) ==
  IF s.app THEN Put(m, s.name, MetricsPoint(s)) ELSE m

\* Mutant of toContainerMetrics: a pod that is skipped starts the map afresh.
toContainerMetricsAfresh(m, s) ==
  IF s.name \in guids /\ s.app THEN Put(m, s.name, MetricsPoint(s)) ELSE Empty

\* One round of the loop: a pod that was not asked for or has no app container
\* is skipped.
toContainerMetrics(m, s) ==
  IF s.name \in guids /\ s.app THEN Put(m, s.name, MetricsPoint(s)) ELSE m
-----------------------------------------------------------------------------
(* BulkMetrics *)

\* The entry of handle h: Rx and Tx are reported together or not at all.
MetricEntry(h, m) ==
  [age |-> Signed(m.age), cpu |-> m.cpu, memory |-> m.memory,
   disk |-> m.disk + RootfsSize[h],
   entitlement |-> CpuAssignment[h] * m.age,
   network |-> IF m.rx # Nil /\ m.tx # Nil THEN <<m.rx, m.tx>> ELSE <<>>]

BulkMetrics(asked) == /\ call = "idle"
                      /\ call' = "fetch"
                      /\ guids' = asked
                      /\ entries' = Empty
                      /\ UNCHANGED <<table, summary, visited, metrics>>

Summaries == UNION {[1 .. n -> PodStats] : n \in 0 .. MaxPods}

\* The summary is of all namespaces: two pods in it may have the same name.
GetMetrics(stats) ==
  /\ call = "fetch"
  /\ call' = "convert"
  /\ summary' = stats
  /\ visited' = 0
  /\ metrics' = Empty
  /\ UNCHANGED <<table, guids, entries>>

\* The loop of toContainerMetrics comes to its next pod.
ConvertPod == /\ call = "convert"
              /\ visited < Len(summary)
              /\ visited' = visited + 1
              /\ metrics' = toContainerMetrics(metrics, summary[visited'])
              /\ UNCHANGED <<table, call, guids, summary, entries>>

ConvertDone == /\ call = "convert"
               /\ visited = Len(summary)
               /\ call' = "join"
               /\ UNCHANGED <<table, answerVars>>

\* The request, its status or the decoding of its body fails.
GetMetricsFails == /\ call = "fetch"
                   /\ call' = "failed"
                   /\ summary' = <<>>
                   /\ visited' = 0
                   /\ metrics' = Empty
                   /\ UNCHANGED <<table, guids, entries>>

\* One round of the loop over the metrics, in the order of Go's maps.
JoinEntry(h) == /\ call = "join"
                /\ h \in DOMAIN metrics \ DOMAIN entries
                /\ h \in Handles
                /\ table[h] = "in"
                /\ entries' = Put(entries, h, MetricEntry(h, metrics[h]))
                /\ UNCHANGED <<table, call, guids, summary, visited, metrics>>

\* A handle that is not in the table fails the call for all handles.
JoinFails(h) == /\ call = "join"
                /\ h \in DOMAIN metrics \ DOMAIN entries
                /\ h \in Handles => table[h] # "in"
                /\ call' = "failed"
                /\ UNCHANGED <<table, answerVars>>

JoinDone == /\ call = "join"
            /\ DOMAIN metrics = DOMAIN entries
            /\ call' = "ok"
            /\ UNCHANGED <<table, answerVars>>

\* The caller takes the answer, and may ask again.
Answered == /\ call \in {"ok", "failed"}
            /\ call' = "idle"
            /\ UNCHANGED <<table, answerVars>>

\* Create adds a container, Destroy removes it.
AddContainer(h) == /\ table[h] = "new"
                   /\ table' = [table EXCEPT ![h] = "in"]
                   /\ UNCHANGED <<call, answerVars>>

RemoveContainer(h) == /\ table[h] = "in"
                      /\ table' = [table EXCEPT ![h] = "out"]
                      /\ UNCHANGED <<call, answerVars>>

Next == \/ \E asked \in SUBSET Handles : BulkMetrics(asked)
        \/ \E stats \in Summaries : GetMetrics(stats)
        \/ GetMetricsFails \/ ConvertPod \/ ConvertDone
        \/ \E h \in DOMAIN metrics : JoinEntry(h) \/ JoinFails(h)
        \/ JoinDone \/ Answered
        \/ \E h \in Handles : AddContainer(h) \/ RemoveContainer(h)

Spec == Init /\ [][Next]_vars
-----------------------------------------------------------------------------
(* Properties *)

\* The pods of the summary that were asked for by their name and have an app
\* container.
Chosen == {i \in DOMAIN summary : summary[i].name \in guids /\ summary[i].app}

\* A successful call answers for exactly the names that were asked for and
\* reported with an app container, each with the values of one pod, the last of
\* that name, and with its own container's image size: that is its own pod,
\* unless another namespace has a pod of that name later in the summary.  The
\* age survives the detour through an unsigned number, a clock that runs behind
\* included.
AnswerIsWhole ==
  call = "ok" =>
    /\ DOMAIN entries = {summary[i].name : i \in Chosen}
    /\ \A i \in Chosen :
         LET s == summary[i]
             e == entries[s.name]
         IN  (\A j \in Chosen : summary[j].name = s.name => j <= i) =>
               /\ e.age = s.age
               /\ s.disk # Nil => e.disk = s.disk + RootfsSize[s.name]
               /\ s.memory # Nil => e.memory = s.memory
               /\ s.cpu # Nil => e.cpu = s.cpu
               /\ (e.network = <<>>) = (Nil \in {s.rx, s.tx})
               /\ s.age >= 0 => e.entitlement = CpuAssignment[s.name] * s.age

\* A call that got the kubelet's answer fails only at a moment when a handle
\* it was asked for has no container, never for a pod nobody asked about.
FailsOnlyForTheGone ==
  [][call = "join" /\ call' = "failed" =>
       \E h \in guids : table[h] # "in"]_vars
=============================================================================
