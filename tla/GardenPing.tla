----------------------------- MODULE GardenPing -----------------------------
(***************************************************************************)
(* waitForGarden (init.go): the rep pings containerd through the garden    *)
(* client until it gets an answer, and reports how long it has waited.     *)
(* The loop selects between two timers and an unbuffered channel; every    *)
(* ping runs in a goroutine of its own and has no timeout.                 *)
(***************************************************************************)
EXTENDS Naturals

CONSTANTS PingGardenInterval,               \* one second in the code
          StalledMetricHeartbeatInterval,   \* five seconds
          MaxElapsed,                       \* longer waits are not told apart
          Off                               \* not armed, not sent

ASSUME PingAssumption ==
  /\ PingGardenInterval \in Nat \ {0}
  /\ StalledMetricHeartbeatInterval \in Nat \ {0}
  /\ MaxElapsed \in Nat /\ MaxElapsed >= StalledMetricHeartbeatInterval
  /\ Off \notin Nat

VARIABLES serving,      \* whether containerd serves, and so answers pings with success
          loop,         \* "select", or what waitForGarden has returned
          elapsed,      \* clock.Since(pingStart)
          pingRequest,  \* time left on the timer, or Off
          heartbeat,    \* time left on heartbeatTimer
          asking,       \* goroutines inside Ping
          answers,      \* how many goroutines wait to send each answer
          metric,       \* the last value of the stalled duration, or Off
          beats         \* heartbeats sent, modulo 2

pingVars == <<serving, loop, elapsed, pingRequest, heartbeat, asking, answers,
          metric, beats>>

\* IsServing's outcomes, and what Ping makes of them: an error of any type is
\* wrapped, so that no UnrecoverableError reaches the caller.
Outcomes == {"ok", "not serving", "error", "unrecoverable"}
Responses == {"nil", "plain", "UnrecoverableError"}

\* Mutant of Ping: the error is returned as it is.
PingUnwrapped(outcome) == CASE outcome = "ok" -> "nil"
                            [] outcome = "unrecoverable" -> "UnrecoverableError"
                            [] OTHER -> "plain"

Ping(outcome) == IF outcome = "ok" THEN "nil" ELSE "plain"

PingInit ==
  /\ serving \in BOOLEAN
  /\ loop = "select"
  /\ elapsed = 0
  /\ pingRequest = 0
  /\ heartbeat = StalledMetricHeartbeatInterval
  /\ asking = 0
  /\ answers = [r \in Responses |-> 0]
  /\ metric = Off
  /\ beats = 0
-----------------------------------------------------------------------------
(* Time, containerd and the goroutines *)

Less(t) == IF t = Off \/ t = 0 THEN t ELSE t - 1

\* Time goes on, whether or not the loop keeps up with its timers.
Tick == /\ loop = "select"
        /\ elapsed' = IF elapsed < MaxElapsed THEN elapsed + 1 ELSE elapsed
        /\ pingRequest' = Less(pingRequest)
        /\ heartbeat' = Less(heartbeat)
        /\ UNCHANGED <<serving, loop, asking, answers, metric, beats>>

Containerd == /\ serving' = ~serving
              /\ UNCHANGED <<loop, elapsed, pingRequest, heartbeat, asking,
                             answers, metric, beats>>

\* IsServing returns: "ok" only if containerd serves.
Answer(outcome) ==
  /\ asking > 0
  /\ (outcome = "ok") = serving
  /\ asking' = asking - 1
  /\ answers' = [answers EXCEPT ![Ping(outcome)] = @ + 1]
  /\ UNCHANGED <<serving, loop, elapsed, pingRequest, heartbeat, metric, beats>>
-----------------------------------------------------------------------------
(* The cases of the select *)

\* Mutant of RequestPing: the timer is armed again when the ping begins.
RequestPingPeriodic == /\ loop = "select"
                       /\ pingRequest = 0
                       /\ asking < 2
                       /\ asking' = asking + 1
                       /\ pingRequest' = PingGardenInterval
                       /\ UNCHANGED <<serving, loop, elapsed, heartbeat, answers,
                                      metric, beats>>

RequestPing == /\ loop = "select"
               /\ pingRequest = 0
               /\ asking' = asking + 1
               /\ pingRequest' = Off
               /\ UNCHANGED <<serving, loop, elapsed, heartbeat, answers, metric,
                              beats>>

\* Mutant of Respond: a failed ping does not arm the timer again.
RespondNoRetry(r) ==
  /\ loop = "select"
  /\ answers[r] > 0
  /\ answers' = [answers EXCEPT ![r] = @ - 1]
  /\ loop' = IF r = "plain" THEN "select" ELSE r
  /\ metric' = IF r = "nil" THEN 0 ELSE metric
  /\ UNCHANGED <<serving, elapsed, pingRequest, heartbeat, asking, beats>>

\* A nil error ends the wait and reports zero, an UnrecoverableError ends it
\* without a report, any other error arms the timer again.
Respond(r) ==
  /\ loop = "select"
  /\ answers[r] > 0
  /\ answers' = [answers EXCEPT ![r] = @ - 1]
  /\ loop' = IF r = "plain" THEN "select" ELSE r
  /\ metric' = IF r = "nil" THEN 0 ELSE metric
  /\ pingRequest' = IF r = "plain" THEN PingGardenInterval ELSE pingRequest
  /\ UNCHANGED <<serving, elapsed, heartbeat, asking, beats>>

\* Mutant of Heartbeat: the timer is not armed again.
HeartbeatOnce == /\ loop = "select"
                 /\ heartbeat = 0
                 /\ metric' = elapsed
                 /\ beats' = (beats + 1) % 2
                 /\ heartbeat' = Off
                 /\ UNCHANGED <<serving, loop, elapsed, pingRequest, asking,
                                answers>>

Heartbeat == /\ loop = "select"
             /\ heartbeat = 0
             /\ metric' = elapsed
             /\ beats' = (beats + 1) % 2
             /\ heartbeat' = StalledMetricHeartbeatInterval
             /\ UNCHANGED <<serving, loop, elapsed, pingRequest, asking, answers>>

PingNext == \/ Tick \/ Containerd \/ RequestPing \/ Heartbeat
            \/ \E o \in Outcomes : Answer(o)
            \/ \E r \in Responses : Respond(r)

PingSpec == PingInit /\ [][PingNext]_pingVars
-----------------------------------------------------------------------------
(* Properties *)

\* The type of every variable.
PingTypeOK ==
  /\ serving \in BOOLEAN
  /\ loop \in {"select", "nil", "UnrecoverableError"}
  /\ elapsed \in 0 .. MaxElapsed
  /\ pingRequest \in 0 .. PingGardenInterval \cup {Off}
  /\ heartbeat \in 0 .. StalledMetricHeartbeatInterval
  /\ asking \in Nat
  /\ answers \in [Responses -> Nat]
  /\ metric \in 0 .. MaxElapsed \cup {Off}
  /\ beats \in 0 .. 1

\* Pings never overlap, and no goroutine is left at the channel once
\* waitForGarden has returned: the timer is armed, or a ping is on its way, or
\* its answer waits, never two of these.
OnePingAtATime ==
  (IF pingRequest = Off THEN 0 ELSE 1) + asking
    + answers["nil"] + answers["plain"] + answers["UnrecoverableError"]
  = IF loop = "select" THEN 1 ELSE 0

\* "retrying the connection indefinitely": waitForGarden returns only when a
\* ping has succeeded, and the stalled duration is zero from then on only.
OnlySuccessReturns == /\ loop # "select" => loop = "nil" /\ metric = 0
                      /\ metric = 0 => loop = "nil"
=============================================================================
