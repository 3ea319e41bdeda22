--------------------------- MODULE MetricsProofs ---------------------------
(***************************************************************************)
(* For any summary, pods of one name in several namespaces included, any   *)
(* set of handles and any width of the integers: a successful BulkMetrics  *)
(* answers for exactly the names it was asked for, each from the last pod  *)
(* of that name, and one that has the kubelet's answer fails only for a    *)
(* handle whose container is gone.                                         *)
(***************************************************************************)
EXTENDS Metrics, TLAPS

\* The pods among the first n of the summary that are asked for and have an
\* app container.
Kept(n) == {i \in 1 .. n : summary[i].name \in guids /\ summary[i].app}

\* i is the last of its name among them.
LastOf(i, n) == \A j \in Kept(n) : summary[j].name = summary[i].name => j <= i

\* What the loop of toContainerMetrics has made of the pods it has visited.
Converted ==
  /\ summary \in Seq(PodStats)
  /\ visited \in 0 .. Len(summary)
  /\ call # "convert" => visited = Len(summary)
  /\ DOMAIN metrics = {summary[i].name : i \in Kept(visited)}
  /\ \A i \in Kept(visited) :
       LastOf(i, visited) =>
         metrics[summary[i].name] = MetricsPoint(summary[i])

\* What the loop of BulkMetrics has made of the metrics it has come to.
Joined ==
  /\ DOMAIN entries \subseteq DOMAIN metrics
  /\ \A h \in DOMAIN entries : entries[h] = MetricEntry(h, metrics[h])
  /\ call = "ok" => DOMAIN entries = DOMAIN metrics

MetricsInv ==
  /\ call \in {"idle", "fetch", "convert", "join", "ok", "failed"}
  /\ guids \subseteq Handles
  /\ call \in {"fetch", "convert"} => entries = Empty
  /\ call \in {"convert", "join", "ok"} => Converted
  /\ call \in {"join", "ok"} => Joined

\* No call has been made.
LEMMA MetricsStarts == Init => MetricsInv
BY DEF Init, MetricsInv

\* One pod is converted: it is skipped, or takes the place of the pods of its
\* name before it.
LEMMA ConvertKeeps ==
  ASSUME MetricsInv, ConvertPod
  PROVE  MetricsInv'
<1>1. /\ call = "convert" /\ call' = "convert"
      /\ UNCHANGED <<guids, summary, entries>>
      /\ Converted /\ visited < Len(summary) /\ visited' = visited + 1
      /\ metrics' = toContainerMetrics(metrics, summary[visited + 1])
  BY DEF MetricsInv, ConvertPod
<1> DEFINE s == summary[visited + 1]
<1>2. /\ visited \in Nat /\ visited + 1 \in DOMAIN summary
      /\ visited' \in 0 .. Len(summary)
      /\ 1 .. visited + 1 = (1 .. visited) \cup {visited + 1}
      /\ 1 .. visited \subseteq DOMAIN summary
  BY <1>1 DEF Converted
<1>3. CASE s.name \in guids /\ s.app
  <2>1. Kept(visited + 1) = Kept(visited) \cup {visited + 1}
    BY <1>2, <1>3 DEF Kept
  <2>2. metrics' = Put(metrics, s.name, MetricsPoint(s))
    BY <1>1, <1>3 DEF toContainerMetrics
  <2> HIDE DEF s
  <2>a. /\ DOMAIN metrics' = DOMAIN metrics \cup {s.name}
        /\ metrics'[s.name] = MetricsPoint(s)
        /\ \A n \in DOMAIN metrics : n # s.name => metrics'[n] = metrics[n]
    BY <2>2 DEF Put
  <2>4. DOMAIN metrics' = {summary[i].name : i \in Kept(visited + 1)}
    BY <1>1, <2>1, <2>a DEF Converted, s
  <2>5. ASSUME NEW i \in Kept(visited + 1), LastOf(i, visited + 1)
        PROVE  metrics'[summary[i].name] = MetricsPoint(summary[i])
    <3>1. CASE i = visited + 1
      BY <2>a, <3>1 DEF s
    <3>2. CASE i \in Kept(visited)
      <4>1. summary[i].name \in DOMAIN metrics
        BY <1>1, <3>2 DEF Converted
      <4>2. i \in 1 .. visited
        BY <3>2 DEF Kept
      <4>3. summary[i].name # s.name
        BY <1>2, <2>1, <2>5, <4>2 DEF LastOf, s
      <4>4. LastOf(i, visited)
        BY <2>1, <2>5 DEF LastOf
      <4> QED BY <1>1, <2>a, <3>2, <4>1, <4>3, <4>4 DEF Converted
    <3> QED BY <2>1, <3>1, <3>2
  <2>6. Converted'
    BY <1>1, <1>2, <2>4, <2>5 DEF Converted, Kept, LastOf
  <2> QED BY <1>1, <2>6 DEF MetricsInv
<1>4. CASE ~(s.name \in guids /\ s.app)
  <2>1. Kept(visited + 1) = Kept(visited)
    BY <1>2, <1>4 DEF Kept
  <2>2. metrics' = metrics
    BY <1>1, <1>4 DEF toContainerMetrics
  <2>3. Converted'
    BY <1>1, <1>2, <2>1, <2>2 DEF Converted, Kept, LastOf
  <2> QED BY <1>1, <2>3 DEF MetricsInv
<1> QED BY <1>3, <1>4

\* One handle's metrics are joined with its container.
LEMMA JoinKeeps ==
  ASSUME MetricsInv, NEW h \in DOMAIN metrics, JoinEntry(h)
  PROVE  MetricsInv'
<1>1. /\ call = "join" /\ call' = "join"
      /\ UNCHANGED <<guids, summary, visited, metrics>>
      /\ Converted /\ Joined /\ h \notin DOMAIN entries
      /\ entries' = Put(entries, h, MetricEntry(h, metrics[h]))
  BY DEF MetricsInv, JoinEntry
<1>2. Converted'
  BY <1>1 DEF Converted, Kept, LastOf
<1>3. /\ DOMAIN entries' = DOMAIN entries \cup {h}
      /\ entries'[h] = MetricEntry(h, metrics[h])
      /\ \A n \in DOMAIN entries : n # h => entries'[n] = entries[n]
  BY <1>1 DEF Put
<1>4. Joined'
  BY <1>1, <1>3 DEF Joined
<1> QED BY <1>1, <1>2, <1>4 DEF MetricsInv

\* Every step keeps the invariant; the table may change at any time.
LEMMA MetricsStep == MetricsInv /\ [Next]_vars => MetricsInv'
<1> SUFFICES ASSUME MetricsInv, [Next]_vars PROVE MetricsInv'
  OBVIOUS
<1>1. ASSUME NEW asked \in SUBSET Handles, BulkMetrics(asked) PROVE MetricsInv'
  BY <1>1 DEF BulkMetrics, MetricsInv
<1>2. ASSUME NEW stats \in Summaries, GetMetrics(stats) PROVE MetricsInv'
  <2>1. stats \in Seq(PodStats)
    BY DEF Summaries
  <2>2. Kept(0)' = {} /\ DOMAIN Empty = {}
    BY DEF Kept, Empty
  <2>3. Converted'
    BY <1>2, <2>1, <2>2 DEF GetMetrics, Converted
  <2> QED BY <1>2, <2>3 DEF GetMetrics, MetricsInv
<1>3. CASE GetMetricsFails
  BY <1>3 DEF GetMetricsFails, MetricsInv
<1>4. CASE ConvertPod
  BY <1>4, ConvertKeeps
<1>5. CASE ConvertDone
  <2>1. Converted' /\ Joined'
    BY <1>5 DEF ConvertDone, MetricsInv, Converted, Joined, Kept, LastOf,
         Empty, answerVars
  <2> QED BY <1>5, <2>1 DEF ConvertDone, MetricsInv, answerVars
<1>6. ASSUME NEW h \in DOMAIN metrics, JoinEntry(h) PROVE MetricsInv'
  BY <1>6, JoinKeeps
<1>7. ASSUME NEW h \in DOMAIN metrics, JoinFails(h) PROVE MetricsInv'
  BY <1>7 DEF JoinFails, MetricsInv, answerVars
<1>8. CASE JoinDone
  <2>1. Converted' /\ Joined'
    BY <1>8 DEF JoinDone, MetricsInv, Converted, Joined, Kept, LastOf,
         answerVars
  <2> QED BY <1>8, <2>1 DEF JoinDone, MetricsInv, answerVars
<1>9. CASE Answered
  BY <1>9 DEF Answered, MetricsInv, answerVars
<1>10. CASE UNCHANGED <<call, answerVars>>
  BY <1>10 DEF MetricsInv, Converted, Joined, Kept, LastOf,
         answerVars
<1> QED
  BY <1>1, <1>2, <1>3, <1>4, <1>5, <1>6, <1>7, <1>8, <1>9, <1>10
     DEF Next, AddContainer, RemoveContainer, vars

\* The invariant holds throughout.
LEMMA MetricsInvariant == Spec => []MetricsInv
BY MetricsStarts, MetricsStep, PTL DEF Spec

\* An age survives the conversion to an unsigned number and back, one that is
\* not negative the conversion alone.
LEMMA AgeSurvives ==
  ASSUME NEW s \in PodStats
  PROVE  /\ Signed(Unsigned(s.age)) = s.age
         /\ s.age >= 0 => Unsigned(s.age) = s.age
<1>1. /\ s.age \in Int /\ Half \in Int
      /\ s.age < Half /\ 0 - s.age <= Half
  BY MetricsAssumption DEF PodStat, Half
<1>2. Half \in Nat /\ Half > 0
  BY <1>1
<1> HIDE DEF Half
<1>3. CASE s.age >= 0
  <2>1. s.age % (2 * Half) = s.age
    BY <1>1, <1>2, <1>3
  <2> QED BY <1>1, <1>2, <2>1 DEF Signed, Unsigned
<1>4. CASE s.age < 0
  <2>1. s.age % (2 * Half) = s.age + 2 * Half
    BY <1>1, <1>2, <1>4
  <2> QED BY <1>1, <1>2, <1>4, <2>1 DEF Signed, Unsigned
<1> QED BY <1>1, <1>3, <1>4

\* A successful call answers for exactly the names that were asked for and
\* reported, each with the values of the last pod of that name and the size of
\* its own container's image.
THEOREM AnswerWhole == Spec => []AnswerIsWhole
<1>1. MetricsInv => AnswerIsWhole
  <2> SUFFICES ASSUME MetricsInv, call = "ok" PROVE AnswerIsWhole
    BY DEF AnswerIsWhole
  <2>1. /\ Converted /\ Joined /\ visited = Len(summary)
        /\ DOMAIN entries = DOMAIN metrics
    BY DEF MetricsInv, Converted, Joined
  <2>2. Kept(visited) = Chosen
    BY <2>1 DEF Kept, Chosen, Converted
  <2>3. DOMAIN entries = {summary[i].name : i \in Kept(visited)}
    BY <2>1 DEF Converted
  <2>4. ASSUME NEW i \in Kept(visited), NEW s, s = summary[i],
               NEW e, e = entries[s.name],
               LastOf(i, visited)
        PROVE  /\ e.age = s.age
               /\ s.disk # Nil => e.disk = s.disk + RootfsSize[s.name]
               /\ s.memory # Nil => e.memory = s.memory
               /\ s.cpu # Nil => e.cpu = s.cpu
               /\ (e.network = <<>>) = (Nil \in {s.rx, s.tx})
               /\ s.age >= 0 => e.entitlement = CpuAssignment[s.name] * s.age
    <3>1. s \in PodStats
      BY <2>1, <2>2, <2>4 DEF Converted, Chosen
    <3>2. e = MetricEntry(s.name, MetricsPoint(s))
      BY <2>1, <2>3, <2>4 DEF Converted, Joined
    <3>3. /\ e.age = Signed(Unsigned(s.age))
          /\ e.entitlement = CpuAssignment[s.name] * Unsigned(s.age)
      BY <3>2 DEF MetricEntry, MetricsPoint
    <3>4. /\ e.cpu = OrZero(s.cpu) /\ e.memory = OrZero(s.memory)
          /\ e.disk = OrZero(s.disk) + RootfsSize[s.name]
      BY <3>2 DEF MetricEntry, MetricsPoint
    <3>5. e.network = IF s.rx # Nil /\ s.tx # Nil THEN <<s.rx, s.tx>> ELSE <<>>
      BY <3>2 DEF MetricEntry, MetricsPoint
    <3>6. (e.network = <<>>) = (Nil \in {s.rx, s.tx})
      BY <3>5
    <3> QED BY <3>1, <3>3, <3>4, <3>6, AgeSurvives DEF OrZero
  <2> QED BY <2>2, <2>3, <2>4 DEF AnswerIsWhole, LastOf
<1> QED BY <1>1, MetricsInvariant, PTL

\* A call that has the kubelet's answer fails only when a handle it was asked
\* for has no container, because only such handles are among the metrics.
THEOREM FailsForTheGone == Spec => FailsOnlyForTheGone
<1>1. MetricsInv /\ [Next]_vars =>
        [call = "join" /\ call' = "failed" => \E h \in guids : table[h] # "in"]_vars
  <2> SUFFICES ASSUME MetricsInv, Next, call = "join", call' = "failed"
               PROVE  \E h \in guids : table[h] # "in"
    OBVIOUS
  <2>1. PICK h \in DOMAIN metrics : JoinFails(h)
    BY DEF Next, BulkMetrics, GetMetrics, GetMetricsFails, ConvertPod,
           ConvertDone, JoinEntry, JoinDone, Answered, AddContainer,
           RemoveContainer
  <2>2. h \in guids /\ h \in Handles
    BY DEF MetricsInv, Converted, Kept
  <2> QED BY <2>1, <2>2 DEF JoinFails
<1> QED BY <1>1, MetricsInvariant, PTL DEF Spec, FailsOnlyForTheGone
=============================================================================
