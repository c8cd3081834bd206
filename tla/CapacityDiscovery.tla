-------------------------- MODULE CapacityDiscovery --------------------------
(***************************************************************************)
(* Capacity discovery, src/experiments/capacity.py: a geometric search for *)
(* the first failing request rate, then a binary refinement of the bracket *)
(* between the last passing and the first failing one. Every measured rate *)
(* is a point in discovery.json; a search that stopped, for whatever       *)
(* reason, is launched again from the start rate and reuses the points     *)
(* that have a verdict.                                                    *)
(*                                                                         *)
(* A run is external: it ends in a summary with any factors and any p99,   *)
(* or the runner raises (k6 exits with a non-zero code when its error-rate *)
(* threshold is crossed). Rates are the integers the program uses; 0       *)
(* stands for its None.                                                    *)
(***************************************************************************)
EXTENDS Integers, Sequences, FiniteSets

CONSTANTS
  StartRps,         \* first rate of the geometric search
  Factor,           \* growth of the geometric search
  MaxRps,           \* safety maximum
  RefinementSteps,  \* most binary refinements
  SummaryFactors,   \* invalidating factors a run's summary may list
  Latencies,        \* p99 values a run may measure
  MaxInvalid,       \* bound: points that come out INVALID
  MaxFaults,        \* bound: crashes and runs that raise
  TornWrites        \* may a crash hit the writing of discovery.json?

ASSUME SearchAssumption ==
  /\ StartRps \in Nat \ {0}
  /\ Factor \in Nat /\ Factor >= 2
  /\ MaxRps \in Nat
  /\ RefinementSteps \in Nat
  /\ Latencies \subseteq Nat \ {0}
  /\ MaxInvalid \in Nat
  /\ MaxFaults \in Nat
  /\ TornWrites \in BOOLEAN

VARIABLES
  points,    \* discovery.json "points"
  lowLoad,   \* discovery.json "lowLoadP99Ms"
  status,    \* discovery.json "status"
  report,    \* discovery.json: the rates the last launches reported
  readable,  \* discovery.json is whole; it is written in place
  dirs,      \* run directories under results/
  pc,        \* where the search process is; "idle": no process
  phase,     \* process: "GEOMETRIC" or "REFINE"
  rps,       \* process: rate of the current point
  outcome,   \* process: outcome of the current point
  low,       \* process: last_pass, then low
  high,      \* process: first_fail, then high
  steps,     \* process: refinements done
  faults     \* bound: faults injected so far

state == <<points, lowLoad, status, report>>
search == <<phase, rps, outcome, low, high, steps>>
vars == <<state, readable, dirs, pc, search, faults>>

-----------------------------------------------------------------------------
\* The verdict on a run.

CapacityFailureFactors ==
  {"ACHIEVED_TARGET_RATIO_BELOW_MINIMUM", "DROPPED_ITERATIONS",
   "ERROR_RATE_EXCEEDED", "P99_EXCEEDS_2X_LOW_LOAD", "NODE_CPU_HEADROOM_LOW",
   "LOAD_GENERATOR_CPU_SATURATED", "NODE_MEMORY_HEADROOM_LOW"}

Factors(invalidating, p99) ==
  invalidating \cup
    IF lowLoad # 0 /\ p99 > lowLoad * 2 THEN {"P99_EXCEEDS_2X_LOW_LOAD"} ELSE {}

\* A summary says COMPLETED exactly when it has no invalidating factor.
Outcome(factors) ==
  IF factors = {} THEN "PASS"
  ELSE IF factors \subseteq CapacityFailureFactors THEN "CAPACITY_FAIL"
  ELSE "INVALID"

-----------------------------------------------------------------------------
\* The points of discovery.json.

At(r) == {i \in DOMAIN points : points[i].rps = r}

MutNeverReuses(r) == {}

MutInvalidIsFinal(r) == At(r)

Decided(r) == {i \in At(r) : points[i].outcome # "INVALID"}
Passed == {points[i].rps : i \in {j \in DOMAIN points : points[j].outcome = "PASS"}}
Failed ==
  {points[i].rps : i \in {j \in DOMAIN points : points[j].outcome = "CAPACITY_FAIL"}}

Invalid == {i \in DOMAIN points : points[i].outcome = "INVALID"}

Latest(S) == CHOOSE i \in S : \A j \in S : j <= i

\* run_id: the attempts at a rate are counted over both phases.
RunId == [phase |-> phase, rps |-> rps, attempt |-> 1 + Cardinality(At(rps))]

-----------------------------------------------------------------------------

Exit ==
  /\ pc' = "idle"
  /\ phase' = "GEOMETRIC"
  /\ rps' = StartRps
  /\ outcome' = "NONE"
  /\ low' = 0
  /\ high' = 0
  /\ steps' = 0

\* The search stops with a status written to discovery.json.
Stop(s) == status' = s /\ Exit

Init ==
  /\ points = <<>>
  /\ lowLoad = 0
  /\ status = "GEOMETRIC_SEARCH"
  /\ report = [usable |-> 0, firstFailing |-> 0, lastPassed |-> 0, invalid |-> 0]
  /\ readable = TRUE
  /\ dirs = {}
  /\ pc = "idle"
  /\ phase = "GEOMETRIC"
  /\ rps = StartRps
  /\ outcome = "NONE"
  /\ low = 0
  /\ high = 0
  /\ steps = 0
  /\ faults = 0

\* main: the operator launches the search, for the first time or again; _load
\* raises on a torn file.
Launch ==
  /\ pc = "idle"
  /\ readable
  /\ pc' = "search"
  /\ UNCHANGED <<state, readable, dirs, search, faults>>

\* while rps <= max_rps, left by its condition.
AboveSafetyMax ==
  /\ pc = "search"
  /\ phase = "GEOMETRIC"
  /\ rps > MaxRps
  /\ Stop(IF low = 0 THEN "FAILED_AT_START" ELSE "CAPACITY_ABOVE_SAFETY_MAX")
  /\ report' = IF low = 0 THEN report ELSE [report EXCEPT !.lastPassed = low]
  /\ UNCHANGED <<readable, points, lowLoad, dirs, faults>>

MutNarrowByDifference == high - low <= 10

Narrow == 10 * (high - low) <= low

\* The refinement loop ends: its steps are used up or the bracket is narrow.
Finish ==
  /\ pc = "search"
  /\ phase = "REFINE"
  /\ steps = RefinementSteps \/ Narrow
  /\ report' = [report EXCEPT !.usable = low, !.firstFailing = high]
  /\ Stop("COMPLETED")
  /\ UNCHANGED <<readable, points, lowLoad, dirs, faults>>

\* The refinement loop goes on with the middle of the bracket.
Halve ==
  /\ pc = "search"
  /\ phase = "REFINE"
  /\ steps < RefinementSteps
  /\ ~Narrow
  /\ rps' = (low + high) \div 2
  /\ pc' = "point"
  /\ UNCHANGED <<state, readable, dirs, phase, outcome, low, high, steps, faults>>

NextRate ==
  /\ pc = "search"
  /\ phase = "GEOMETRIC"
  /\ rps <= MaxRps
  /\ pc' = "point"
  /\ UNCHANGED <<state, readable, dirs, search, faults>>

\* run_point: the rate has a verdict from an earlier launch.
ReusePoint ==
  /\ pc = "point"
  /\ Decided(rps) # {}
  /\ outcome' = points[Latest(Decided(rps))].outcome
  /\ pc' = "decide"
  /\ UNCHANGED <<state, readable, dirs, phase, rps, low, high, steps, faults>>

\* run_point: measure the rate in a directory of its own.
Measure ==
  /\ pc = "point"
  /\ Decided(rps) = {}
  /\ RunId \notin dirs
  /\ dirs' = dirs \cup {RunId}
  /\ pc' = "measuring"
  /\ UNCHANGED <<state, readable, search, faults>>

\* ... which the runner refuses to reuse: FileExistsError ends the process.
DirectoryExists ==
  /\ pc = "point"
  /\ Decided(rps) = {}
  /\ RunId \in dirs
  /\ Exit
  /\ UNCHANGED <<state, readable, dirs, faults>>

LowLoad(passed, p99) == IF lowLoad = 0 /\ passed THEN p99 ELSE lowLoad

\* The run ends in a summary; its point is written to discovery.json.
MeasuredPoint ==
  /\ pc = "measuring"
  /\ \E invalidating \in SUBSET SummaryFactors, p99 \in Latencies :
       LET factors == Factors(invalidating, p99)
           verdict == Outcome(factors)
       IN /\ verdict = "INVALID" => Cardinality(Invalid) < MaxInvalid
          /\ points' = Append(points,
                              [phase |-> phase, rps |-> rps, p99 |-> p99,
                               attempt |-> RunId.attempt, factors |-> factors,
                               outcome |-> verdict])
          /\ lowLoad' = LowLoad(verdict = "PASS", p99)
          /\ outcome' = verdict
  /\ pc' = "decide"
  /\ UNCHANGED <<readable, status, report, dirs, phase, rps, low, high, steps, faults>>

\* execute: no boundary is drawn from an invalid point.
StopAtInvalid ==
  /\ pc = "decide"
  /\ outcome = "INVALID"
  /\ Stop("INVALID_POINT")
  /\ report' = [report EXCEPT !.invalid = rps]
  /\ UNCHANGED <<readable, points, lowLoad, dirs, faults>>

GeometricPass ==
  /\ pc = "decide"
  /\ phase = "GEOMETRIC"
  /\ outcome = "PASS"
  /\ low' = rps
  /\ rps' = rps * Factor
  /\ outcome' = "NONE"
  /\ pc' = "search"
  /\ UNCHANGED <<state, readable, dirs, phase, high, steps, faults>>

FailAtStart ==
  /\ pc = "decide"
  /\ phase = "GEOMETRIC"
  /\ outcome = "CAPACITY_FAIL"
  /\ low = 0
  /\ Stop("FAILED_AT_START")
  /\ UNCHANGED <<readable, points, lowLoad, report, dirs, faults>>

MutKeepsOutcome ==
  /\ pc = "decide"
  /\ phase = "GEOMETRIC"
  /\ outcome = "CAPACITY_FAIL"
  /\ low # 0
  /\ high' = rps
  /\ status' = "BINARY_REFINEMENT"
  /\ phase' = "REFINE"
  /\ pc' = "search"
  /\ UNCHANGED <<readable, points, lowLoad, report, dirs, rps, outcome, low, steps, faults>>

GeometricFail ==
  /\ pc = "decide"
  /\ phase = "GEOMETRIC"
  /\ outcome = "CAPACITY_FAIL"
  /\ low # 0
  /\ high' = rps
  /\ status' = "BINARY_REFINEMENT"
  /\ phase' = "REFINE"
  /\ outcome' = "NONE"
  /\ pc' = "search"
  /\ UNCHANGED <<readable, points, lowLoad, report, dirs, rps, low, steps, faults>>

MutRefineAlwaysRaises ==
  /\ pc = "decide"
  /\ phase = "REFINE"
  /\ outcome \in {"PASS", "CAPACITY_FAIL"}
  /\ low' = rps
  /\ steps' = steps + 1
  /\ outcome' = "NONE"
  /\ pc' = "search"
  /\ UNCHANGED <<state, readable, dirs, phase, rps, high, faults>>

Refine ==
  /\ pc = "decide"
  /\ phase = "REFINE"
  /\ \/ outcome = "PASS" /\ low' = rps /\ high' = high
     \/ outcome = "CAPACITY_FAIL" /\ high' = rps /\ low' = low
  /\ steps' = steps + 1
  /\ outcome' = "NONE"
  /\ pc' = "search"
  /\ UNCHANGED <<state, readable, dirs, phase, rps, faults>>

-----------------------------------------------------------------------------
\* The environment.

Fault == faults < MaxFaults /\ faults' = faults + 1

\* The runner raises; nothing in the search catches it.
RunRaises ==
  /\ pc = "measuring"
  /\ Fault
  /\ Exit
  /\ UNCHANGED <<state, readable, dirs>>

Crash ==
  /\ pc # "idle"
  /\ Fault
  /\ Exit
  /\ UNCHANGED <<state, readable, dirs>>

\* Does the process write discovery.json next?
Writes ==
  \/ pc = "measuring"
  \/ pc = "decide" /\ (outcome = "INVALID" \/ (phase = "GEOMETRIC" /\ outcome # "PASS"))
  \/ pc = "search" /\ phase = "GEOMETRIC" /\ rps > MaxRps
  \/ pc = "search" /\ phase = "REFINE" /\ (steps = RefinementSteps \/ Narrow)

\* The process dies inside that write: what the file said before is lost as well.
CrashInStateFile ==
  /\ TornWrites
  /\ Writes
  /\ Fault
  /\ readable' = FALSE
  /\ Exit
  /\ UNCHANGED <<state, dirs>>

-----------------------------------------------------------------------------

Step ==
  \/ AboveSafetyMax \/ Finish \/ Halve \/ NextRate
  \/ ReusePoint \/ Measure \/ DirectoryExists \/ MeasuredPoint
  \/ StopAtInvalid \/ GeometricPass \/ FailAtStart \/ GeometricFail \/ Refine

Next == Launch \/ Step \/ RunRaises \/ Crash \/ CrashInStateFile

Spec == Init /\ [][Next]_vars

(***************************************************************************)
(* A running search keeps going and a run ends after a fixed duration; the *)
(* operator launches a search again as long as it has no result.           *)
(***************************************************************************)
Results == {"COMPLETED", "CAPACITY_ABOVE_SAFETY_MAX", "FAILED_AT_START"}

FairSpec ==
  Spec /\ WF_vars(Step) /\ WF_vars(status \notin Results /\ Launch)

-----------------------------------------------------------------------------
\* Properties.

Outcomes == {"PASS", "CAPACITY_FAIL", "INVALID"}
Point == [phase : {"GEOMETRIC", "REFINE"}, rps : Nat \ {0}, p99 : Latencies,
          attempt : Nat \ {0},
          factors : SUBSET (SummaryFactors \cup CapacityFailureFactors),
          outcome : Outcomes]

\* The shape of the state; an outcome is known exactly when one is acted on.
TypeOK ==
  /\ points \in Seq(Point)
  /\ lowLoad \in Latencies \cup {0}
  /\ status \in Results \cup {"GEOMETRIC_SEARCH", "BINARY_REFINEMENT", "INVALID_POINT"}
  /\ report \in [usable : Nat, firstFailing : Nat, lastPassed : Nat, invalid : Nat]
  /\ readable \in BOOLEAN
  /\ dirs \subseteq [phase : {"GEOMETRIC", "REFINE"}, rps : Nat, attempt : Nat]
  /\ pc \in {"idle", "search", "point", "measuring", "decide"}
  /\ phase \in {"GEOMETRIC", "REFINE"}
  /\ rps \in Nat \ {0}
  /\ outcome \in Outcomes \cup {"NONE"}
  /\ low \in Nat
  /\ high \in Nat
  /\ steps \in Nat
  /\ faults \in Nat
  /\ pc = "decide" <=> outcome # "NONE"

\* The bracket is real at every moment of a search: its lower end passed, its
\* upper end failed, the rate under test lies at or above what passed and strictly
\* below what failed, and no invalid point ever became one of its ends.
Bracket ==
  /\ low # 0 => low \in Passed /\ low < IF high # 0 THEN high ELSE rps
  /\ high # 0 => high \in Failed
  /\ phase = "REFINE" => low # 0 /\ high # 0
  /\ phase = "GEOMETRIC" => high = 0
  /\ phase = "REFINE" /\ pc \in {"point", "measuring", "decide"} =>
       low <= rps /\ rps < high
  /\ pc = "decide" =>
       /\ outcome = "PASS" => rps \in Passed
       /\ outcome = "CAPACITY_FAIL" => rps \in Failed

\* A rate is decided once: however often the search is launched again, a rate
\* with a verdict is not measured a second time (run_point, _existing).
OneVerdictPerRate ==
  \A i, j \in DOMAIN points :
    /\ points[i].rps = points[j].rps
    /\ points[i].outcome # "INVALID"
    /\ points[j].outcome # "INVALID"
    => i = j

\* Capacity is a boundary: every rate that passed lies below every rate that
\* failed, over all launches, also when the measurements are noisy.
PassesBelowFailures == \A p \in Passed, f \in Failed : p < f

\* C* is the highest rate that met all criteria (ADR-0014): the result reported
\* is the greatest rate that passed, and the one above it is the least that
\* failed. A search launched again cannot make an old result wrong.
HighestPass ==
  /\ report.usable \in Passed
  /\ report.firstFailing \in Failed
  /\ \A p \in Passed : p <= report.usable
  /\ \A f \in Failed : f >= report.firstFailing

\* They are at most 10% apart unless the refinement steps ran out, and those
\* halve the geometric bracket each time.
Narrowed ==
  \/ 10 * (report.firstFailing - report.usable) <= report.usable
  \/ (report.firstFailing - report.usable) * 2 ^ RefinementSteps
       < report.usable * (Factor - 1) + 2 ^ RefinementSteps

ReportHolds == report.usable # 0 => HighestPass /\ Narrowed

\* The search is resumable: launched again whenever it stopped, it reaches a
\* result, as long as invalid points do not come for ever.
SearchDecides == <>(status \in Results)

\* What holds of the code: only an interruption can prevent the result, of a run by
\* the directory it leaves without a point (cli.py:58), or of the writing of
\* discovery.json, which _load cannot read any more (capacity.py:100-102).
Interrupted ==
  {d \in dirs : \A i \in DOMAIN points :
     [phase |-> points[i].phase, rps |-> points[i].rps, attempt |-> points[i].attempt] # d}

OnlyInterruptionBlocks == SearchDecides \/ <>[](Interrupted # {} \/ ~readable)

=============================================================================
