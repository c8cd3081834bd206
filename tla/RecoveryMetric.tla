--------------------------- MODULE RecoveryMetric ---------------------------
(***************************************************************************)
(* What a pod-kill repeat computes from a load in which some ticks failed: *)
(* error_rate_timeseries and recovery_seconds                              *)
(* (src/experiments/resilience.py).                                        *)
(*                                                                         *)
(* Time is counted in ticks from the start of the load; tick t is the time *)
(* from t - 1 to t, and in it either every request fails or none does, so  *)
(* that a rate over some ticks is above the threshold (2%) iff one of them *)
(* failed. Prometheus (external) reads the counters at every ScrapeEvery-th *)
(* tick; where these fall relative to the load is the phase. The counter   *)
(* of failed requests does not exist before the first failure, and a rate  *)
(* needs two readings of it in its range.                                  *)
(***************************************************************************)
EXTENDS Integers, FiniteSets, FiniteSetsExt

CONSTANTS
  ScrapeEvery,   \* values.yaml, serviceMonitor.interval: 15s
  RateWindow,    \* range of the rate in the query: 30s
  EvalEvery,     \* step_seconds of error_rate_timeseries: 10
  Sustained      \* sustained_seconds of recovery_seconds: 15

\* A step is no longer than a scrape interval or the sustained time.
ASSUME MetricAssumption ==
  /\ {ScrapeEvery, RateWindow, EvalEvery, Sustained} \subseteq Nat \ {0}
  /\ RateWindow = 2 * ScrapeEvery
  /\ EvalEvery <= ScrapeEvery /\ EvalEvery <= Sustained

\* failing: the ticks in which requests fail; counted: did requests fail
\* before this load; phase: the first scrape.
Loads == [failing : SUBSET Nat, counted : BOOLEAN, phase : 0 .. ScrapeEvery - 1]

None == -1

-----------------------------------------------------------------------------

\* The readings of the counter of failed requests that a rate at t is made of.
Readings(load, t) ==
  {s \in (t - RateWindow + 1) .. t :
     /\ s % ScrapeEvery = load.phase
     /\ load.counted \/ \E f \in load.failing : f <= s}

HasRate(load, t) == Cardinality(Readings(load, t)) >= 2

MutPerSuccess(load, t) ==
  /\ HasRate(load, t)
  /\ LET range == (Min(Readings(load, t)) + 1) .. Max(Readings(load, t))
     IN range \cap load.failing # {} /\ range \ load.failing # {}

\* The rate at t is above the threshold.
Above(load, t) ==
  /\ HasRate(load, t)
  /\ \E f \in load.failing : Min(Readings(load, t)) < f /\ f <= Max(Readings(load, t))

\* The series that the range query returns, from the kill on.
Points(load, killed, end) ==
  {t \in killed .. end : t % EvalEvery = 0 /\ HasRate(load, t)}

MutOnePoint(load, points, t) == ~Above(load, t)

\* The points of the sustained window are looked at; there may be fewer of
\* them than the window is long, and none after the end.
Recovered(load, points, t) ==
  \A x \in points : t <= x /\ x <= t + Sustained => ~Above(load, x)

MutFirstPoint(load, killed, end) ==
  LET points == Points(load, killed, end)
  IN IF points # {} /\ Recovered(load, points, Min(points)) THEN Min(points) ELSE None

\* recovery_seconds, as the tick that it points at.
Recovery(load, killed, end) ==
  LET points == Points(load, killed, end)
      found == {t \in points : Recovered(load, points, t)}
  IN IF found = {} THEN None ELSE Min(found)

=============================================================================
