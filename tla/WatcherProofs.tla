--------------------------- MODULE WatcherProofs ---------------------------
(***************************************************************************)
(* For any number of cordons, restarts and notifications in flight: the    *)
(* watcher leaves its watch only after it has asked the rep to evacuate.   *)
(***************************************************************************)
EXTENDS Watcher, TLAPS

\* While the node was never cordoned nobody has seen it cordoned; a handler
\* that wants to stop the watch has asked the rep before.
Grounded ==
  /\ cordons = 0 => /\ node = FALSE
                    /\ \A i \in 1 .. Len(pending) : pending[i] = FALSE
                    /\ handler = "idle"
  /\ handler = "send" => askedAt > 0
  /\ AskedBeforePing

WatcherInv == TypeOK /\ Grounded

\* The empty queue is a queue.
LEMMA EmptyQueue == /\ <<>> \in Seq(BOOLEAN) /\ Len(<<>>) = 0
                    /\ \A i \in 1 .. 0 : FALSE
OBVIOUS

\* The node is schedulable and nothing has been delivered.
LEMMA WatcherInit == Init => WatcherInv
<1> SUFFICES ASSUME Init PROVE WatcherInv
  OBVIOUS
<1> pending \in Seq(BOOLEAN) /\ Len(pending) = 0
  BY EmptyQueue DEF Init
<1>1. TypeOK
  <2>1. node \in BOOLEAN /\ informer \in BOOLEAN
    BY Zenon DEF Init
  <2>2. cordons \in 0 .. MaxCordons /\ askedAt \in 0 .. MaxCordons
        /\ restarts \in 0 .. MaxRestarts
        /\ Len(pending) <= MaxPending
    BY WatcherAssumption DEF Init
  <2> QED BY <2>1, <2>2 DEF Init, TypeOK, Paths
<1>2. Grounded
  BY DEF Init, Grounded, AskedBeforePing
<1> QED BY <1>1, <1>2 DEF WatcherInv

\* What comes out of the queue of notifications, and what goes in.
LEMMA QueueFacts ==
  ASSUME NEW q \in Seq(BOOLEAN), NEW b \in BOOLEAN
  PROVE  /\ Append(q, b) \in Seq(BOOLEAN)
         /\ Len(Append(q, b)) = Len(q) + 1
         /\ \A i \in 1 .. Len(q) : Append(q, b)[i] = q[i]
         /\ Append(q, b)[Len(q) + 1] = b
         /\ q # <<>> => /\ Head(q) = q[1] /\ 1 \in 1 .. Len(q)
                        /\ Tail(q) \in Seq(BOOLEAN)
                        /\ Len(Tail(q)) = Len(q) - 1
                        /\ \A i \in 1 .. Len(Tail(q)) : Tail(q)[i] = q[i + 1]
OBVIOUS

\* Every step of the node, the rep, the informer, the handler and main.
LEMMA WatcherStep == WatcherInv /\ [Next]_vars => WatcherInv'
<1> SUFFICES ASSUME WatcherInv, [Next]_vars PROVE WatcherInv'
  OBVIOUS
<1> USE WatcherAssumption
    DEF WatcherInv, TypeOK, Grounded, AskedBeforePing, Paths, watcherVars
<1>1. CASE Cordon
  BY <1>1 DEF Cordon
<1>2. CASE Uncordon
  BY <1>2 DEF Uncordon
<1>10. CASE RepLeaves \/ RepStarts
  BY <1>10 DEF RepLeaves, RepStarts
<1>3. CASE Notify
  BY <1>3, QueueFacts DEF Notify
<1>4. CASE Handle
  <2>1. pending \in Seq(BOOLEAN) /\ pending # <<>>
    BY <1>4 DEF Handle
  <2>2. /\ Head(pending) = pending[1] /\ 1 \in 1 .. Len(pending)
        /\ pending' \in Seq(BOOLEAN)
        /\ Len(pending') = Len(pending) - 1
        /\ \A i \in 1 .. Len(pending') : pending'[i] = pending[i + 1]
    BY <1>4, <2>1, QueueFacts DEF Handle
  <2>3. Len(pending) \in Nat
    BY <2>1
  <2>4. Len(pending') <= MaxPending
    BY <2>2, <2>3
  <2>5. TypeOK'
    BY <1>4, <2>2, <2>4 DEF Handle
  <2>6. ASSUME cordons = 0 PROVE handler' = "idle"
    <3>1. Head(pending) = FALSE
      BY <2>2, <2>6
    <3> QED BY <1>4, <3>1, Zenon DEF Handle
  <2>7. ASSUME cordons = 0, NEW i \in 1 .. Len(pending')
        PROVE  pending'[i] = FALSE
    <3>1. i + 1 \in 1 .. Len(pending)
      BY <2>2, <2>3, <2>7
    <3> QED BY <2>2, <2>7, <3>1
  <2>8. Grounded'
    BY <1>4, <2>6, <2>7 DEF Handle
  <2> QED BY <2>5, <2>8
<1>5. CASE Evacuate
  BY <1>5 DEF Evacuate
<1>6. CASE StopMain \/ StopInformer
  BY <1>6 DEF StopMain, StopInformer
<1>7. CASE RemoveHandler
  BY <1>7, EmptyQueue DEF RemoveHandler
<1>11. CASE PingFails
  BY <1>11 DEF PingFails
<1>8. CASE Restart
  <2> pending' \in Seq(BOOLEAN) /\ Len(pending') = 0
    BY <1>8, EmptyQueue DEF Restart
  <2>1. TypeOK'
    <3>1. node' \in BOOLEAN /\ informer' \in BOOLEAN
      BY <1>8, Zenon DEF Restart
    <3>2. restarts' \in 0 .. MaxRestarts /\ Len(pending') <= MaxPending
      BY <1>8 DEF Restart
    <3> QED BY <1>8, <3>1, <3>2 DEF Restart
  <2>2. Grounded'
    BY <1>8 DEF Restart
  <2> QED BY <2>1, <2>2
<1>9. CASE UNCHANGED vars
  BY <1>9 DEF vars
<1> QED BY <1>1, <1>2, <1>3, <1>4, <1>5, <1>6, <1>7, <1>8, <1>9, <1>10,
           <1>11 DEF Next

\* The watch ends, because main leaves it or because the informer has taken a
\* stop message, only after the node was cordoned and the rep asked to evacuate.
THEOREM AsksFirst == Spec => []AskedBeforePing
<1>1. WatcherInv => AskedBeforePing
  BY DEF WatcherInv, Grounded
<1> QED BY <1>1, WatcherInit, WatcherStep, PTL DEF Spec

\* The watcher keeps the types of the model; the queue of notifications stays
\* within its bound.
THEOREM WatcherTypeCorrect == Spec => []TypeOK
<1>1. WatcherInv => TypeOK
  BY DEF WatcherInv
<1> QED BY <1>1, WatcherInit, WatcherStep, PTL DEF Spec
=============================================================================
