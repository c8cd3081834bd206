----------------------- MODULE CapacityDiscovery_proofs -----------------------
(***************************************************************************)
(* Proofs about CapacityDiscovery for every start rate, growth factor,     *)
(* safety maximum, number of refinement steps and number of faults: the    *)
(* bracket of the search is always real, a rate is decided once, capacity  *)
(* is a boundary and a reported capacity holds.                            *)
(*                                                                         *)
(* The last two need to know why a search that is launched again measures  *)
(* nothing that contradicts the points it finds: it replays them. Path     *)
(* says that every verdict is on the rate which the points before it ask   *)
(* for, Replays that the process has come to the bounds of some prefix of  *)
(* the points.                                                             *)
(***************************************************************************)
EXTENDS CapacityDiscovery, FiniteSetTheorems, TLAPS

-----------------------------------------------------------------------------
\* The points of discovery.json.

LEMMA GrowthType ==
  ASSUME NEW r \in Nat \ {0}
  PROVE  r * Factor \in Nat \ {0} /\ r < r * Factor
<1>1. Factor \in Nat /\ Factor >= 2
  BY SearchAssumption
<1>2. \A f \in Nat : f >= 2 => r * f \in Nat /\ r * f >= r + r
  OBVIOUS
<1> QED BY <1>1, <1>2

LEMMA MiddleBetween ==
  ASSUME NEW l \in Nat, NEW h \in Nat, l < h
  PROVE  (l + h) \div 2 \in Nat /\ l <= (l + h) \div 2 /\ (l + h) \div 2 < h
OBVIOUS

LEMMA RunIdType ==
  ASSUME TypeOK
  PROVE  RunId \in [phase : {"GEOMETRIC", "REFINE"}, rps : Nat, attempt : Nat]
         /\ RunId.attempt \in Nat \ {0}
<1>1. DOMAIN points = 1 .. Len(points) /\ Len(points) \in Nat
  BY DEF TypeOK
<1>2. IsFiniteSet(DOMAIN points)
  BY <1>1, FS_Interval
<1>3. At(rps) \in SUBSET DOMAIN points
  BY DEF At
<1>4. Cardinality(At(rps)) \in Nat
  BY <1>2, <1>3, FS_Subset, FS_CardinalityType
<1> QED BY <1>4 DEF RunId, TypeOK

\* What one more point changes.
LEMMA PointAppended ==
  ASSUME TypeOK, NEW p \in Point, points' = Append(points, p)
  PROVE  /\ points' \in Seq(Point)
         /\ DOMAIN points' = DOMAIN points \cup {Len(points) + 1}
         /\ Len(points) + 1 \notin DOMAIN points
         /\ points'[Len(points) + 1] = p
         /\ \A i \in DOMAIN points : points'[i] = points[i]
BY DEF TypeOK

LEMMA VerdictsAppended ==
  ASSUME TypeOK, NEW p \in Point, points' = Append(points, p)
  PROVE  /\ Passed \subseteq Passed'
         /\ Failed \subseteq Failed'
         /\ p.outcome = "PASS" => p.rps \in Passed'
         /\ p.outcome = "CAPACITY_FAIL" => p.rps \in Failed'
<1> DEFINE n == Len(points) + 1
<1>1. /\ DOMAIN points' = DOMAIN points \cup {n}
      /\ points'[n] = p
      /\ \A i \in DOMAIN points : points'[i] = points[i]
  BY PointAppended
<1> HIDE DEF n
<1> QED BY <1>1 DEF Passed, Failed

\* _existing finds the one point that has the verdict.
LEMMA LatestDecided ==
  ASSUME TypeOK, OneVerdictPerRate, NEW r, Decided(r) # {}
  PROVE  LET d == Latest(Decided(r))
         IN d \in DOMAIN points /\ points[d].rps = r /\ points[d].outcome # "INVALID"
<1>1. PICK d \in Decided(r) : TRUE
  OBVIOUS
<1>2. d \in DOMAIN points /\ points[d].rps = r /\ points[d].outcome # "INVALID"
  BY <1>1 DEF Decided, At
<1>3. \A j \in Decided(r) : j = d
  BY <1>2 DEF OneVerdictPerRate, Decided, At
<1>4. d <= d
  BY <1>2 DEF TypeOK
<1>5. Latest(Decided(r)) = d
  BY <1>1, <1>3, <1>4 DEF Latest
<1> QED BY <1>2, <1>5

-----------------------------------------------------------------------------
\* Type correctness.

LEMMA InitTypeOK == Init => TypeOK
BY SearchAssumption DEF Init, TypeOK, Results, Outcomes

LEMMA ExitType ==
  ASSUME Exit
  PROVE  /\ pc' = "idle" /\ phase' = "GEOMETRIC" /\ outcome' = "NONE"
         /\ rps' \in Nat \ {0} /\ low' = 0 /\ high' = 0 /\ steps' = 0
BY SearchAssumption DEF Exit

\* The summary of a run makes a point of the right shape.
LEMMA MeasuredPointType ==
  ASSUME TypeOK, pc = "measuring", MeasuredPoint
  PROVE  \E p \in Point :
           /\ points' = Append(points, p)
           /\ p.rps = rps /\ p.phase = phase
           /\ p.outcome = outcome'
           /\ lowLoad' \in Latencies \cup {0}
<1>1. PICK invalidating \in SUBSET SummaryFactors, p99 \in Latencies :
        LET factors == Factors(invalidating, p99)
            verdict == Outcome(factors)
        IN /\ points' = Append(points,
                               [phase |-> phase, rps |-> rps, p99 |-> p99,
                                attempt |-> RunId.attempt, factors |-> factors,
                                outcome |-> verdict])
           /\ lowLoad' = LowLoad(verdict = "PASS", p99)
           /\ outcome' = verdict
  BY DEF MeasuredPoint
<1> DEFINE factors == Factors(invalidating, p99)
           verdict == Outcome(factors)
           p == [phase |-> phase, rps |-> rps, p99 |-> p99,
                 attempt |-> RunId.attempt, factors |-> factors,
                 outcome |-> verdict]
<1>2. factors \in SUBSET (SummaryFactors \cup CapacityFailureFactors)
  BY DEF Factors, CapacityFailureFactors
<1>3. verdict \in Outcomes
  BY DEF Outcome, Outcomes
<1>4. RunId.attempt \in Nat \ {0}
  BY RunIdType
<1> HIDE DEF factors, verdict
<1>5. p \in Point /\ p.rps = rps /\ p.phase = phase /\ p.outcome = verdict
  BY <1>2, <1>3, <1>4 DEF Point, TypeOK
<1>6. lowLoad' \in Latencies \cup {0}
  BY <1>1 DEF LowLoad, TypeOK
<1>7. points' = Append(points, p) /\ outcome' = verdict
  BY <1>1 DEF factors, verdict
<1> HIDE DEF p
<1> QED BY <1>5, <1>6, <1>7

LEMMA NextTypeOK == TypeOK /\ Bracket /\ OneVerdictPerRate /\ [Next]_vars => TypeOK'
<1> SUFFICES ASSUME TypeOK, Bracket, OneVerdictPerRate, [Next]_vars
             PROVE  TypeOK'
  OBVIOUS
<1> USE DEF state, search
<1>1. CASE Launch
  BY <1>1 DEF Launch, TypeOK
<1>2. CASE AboveSafetyMax
  <2>1. report' \in [usable : Nat, firstFailing : Nat, lastPassed : Nat, invalid : Nat]
    BY <1>2 DEF AboveSafetyMax, TypeOK
  <2>2. status' \in Results
    BY <1>2 DEF AboveSafetyMax, Stop, Results
  <2> QED BY <1>2, <2>1, <2>2, ExitType DEF AboveSafetyMax, Stop, TypeOK
<1>3. CASE Finish
  <2>1. report' \in [usable : Nat, firstFailing : Nat, lastPassed : Nat, invalid : Nat]
    BY <1>3 DEF Finish, TypeOK
  <2>2. status' \in Results
    BY <1>3 DEF Finish, Stop, Results
  <2> QED BY <1>3, <2>1, <2>2, ExitType DEF Finish, Stop, TypeOK
<1>4. CASE Halve
  <2>1. low \in Nat /\ high \in Nat /\ low < high /\ low # 0
    BY <1>4 DEF Halve, Bracket, TypeOK
  <2>2. (low + high) \div 2 \in Nat \ {0}
    BY <2>1, MiddleBetween
  <2> QED BY <1>4, <2>2 DEF Halve, TypeOK
<1>5. CASE NextRate
  BY <1>5 DEF NextRate, TypeOK
<1>6. CASE ReusePoint
  <2> DEFINE d == Latest(Decided(rps))
  <2>1. outcome' = points[d].outcome /\ outcome' \in Outcomes
    <3>1. Decided(rps) # {} /\ outcome' = points[d].outcome
      BY <1>6 DEF ReusePoint
    <3>2. d \in DOMAIN points
      BY <3>1, LatestDecided
    <3>3. outcome' = points[d].outcome
      BY <3>1
    <3> HIDE DEF d
    <3>4. points[d] \in Point
      BY <3>2 DEF TypeOK
    <3> QED BY <3>3, <3>4 DEF Point
  <2> QED BY <1>6, <2>1 DEF ReusePoint, TypeOK, Outcomes
<1>7. CASE Measure
  <2>1. dirs' \subseteq [phase : {"GEOMETRIC", "REFINE"}, rps : Nat, attempt : Nat]
    BY <1>7, RunIdType DEF Measure, TypeOK
  <2> QED BY <1>7, <2>1 DEF Measure, TypeOK
<1>8. CASE DirectoryExists
  BY <1>8, ExitType DEF DirectoryExists, TypeOK
<1>9. CASE MeasuredPoint
  <2>1. PICK p \in Point : /\ points' = Append(points, p)
                           /\ p.outcome = outcome'
                           /\ lowLoad' \in Latencies \cup {0}
    BY <1>9, MeasuredPointType DEF MeasuredPoint
  <2>2. points' \in Seq(Point) /\ outcome' \in Outcomes
    BY <2>1, PointAppended DEF Point
  <2> QED BY <1>9, <2>1, <2>2 DEF MeasuredPoint, TypeOK, Outcomes
<1>10. CASE StopAtInvalid
  <2>1. report' \in [usable : Nat, firstFailing : Nat, lastPassed : Nat, invalid : Nat]
    BY <1>10 DEF StopAtInvalid, TypeOK
  <2> QED BY <1>10, <2>1, ExitType DEF StopAtInvalid, Stop, TypeOK
<1>11. CASE GeometricPass
  <2>1. rps * Factor \in Nat \ {0}
    BY GrowthType DEF TypeOK
  <2> QED BY <1>11, <2>1 DEF GeometricPass, TypeOK
<1>12. CASE FailAtStart
  BY <1>12, ExitType DEF FailAtStart, Stop, TypeOK, Results
<1>13. CASE GeometricFail
  BY <1>13 DEF GeometricFail, TypeOK
<1>14. CASE Refine
  BY <1>14 DEF Refine, TypeOK
<1>15. CASE RunRaises \/ Crash \/ CrashInStateFile
  <2>1. readable' \in BOOLEAN
    BY <1>15 DEF RunRaises, Crash, CrashInStateFile, TypeOK
  <2>2. faults' \in Nat /\ Exit /\ UNCHANGED <<points, lowLoad, status, report, dirs>>
    BY <1>15 DEF RunRaises, Crash, CrashInStateFile, Fault, TypeOK
  <2> QED BY <2>1, <2>2, ExitType DEF TypeOK
<1>16. CASE UNCHANGED vars
  BY <1>16 DEF vars, TypeOK
<1> QED BY <1>1, <1>2, <1>3, <1>4, <1>5, <1>6, <1>7, <1>8, <1>9, <1>10, <1>11,
           <1>12, <1>13, <1>14, <1>15, <1>16 DEF Next, Step

-----------------------------------------------------------------------------
\* The bracket and the verdicts.

\* Because a rate is decided once, it cannot both have passed and have failed.
LEMMA PassedIsNotFailed ==
  ASSUME TypeOK, OneVerdictPerRate
  PROVE  \A r \in Passed : r \notin Failed
<1>1. ASSUME NEW r \in Passed, r \in Failed
      PROVE  FALSE
  <2>1. PICK i \in DOMAIN points : points[i].rps = r /\ points[i].outcome = "PASS"
    BY DEF Passed
  <2>2. PICK j \in DOMAIN points : points[j].rps = r /\ points[j].outcome = "CAPACITY_FAIL"
    BY <1>1 DEF Failed
  <2>3. i = j
    BY <2>1, <2>2 DEF OneVerdictPerRate
  <2> QED BY <2>1, <2>2, <2>3
<1> QED BY <1>1

\* A rate is measured only while it has no verdict.
Undecided == pc = "measuring" => Decided(rps) = {}

IInv == TypeOK /\ Bracket /\ OneVerdictPerRate /\ Undecided

LEMMA InitIInv == Init => IInv
<1> SUFFICES ASSUME Init
             PROVE  IInv
  OBVIOUS
<1>1. Bracket /\ OneVerdictPerRate /\ Undecided
  BY DEF Init, Bracket, OneVerdictPerRate, Undecided
<1> QED BY <1>1, InitTypeOK DEF IInv

LEMMA NextVerdicts ==
  ASSUME IInv, [Next]_vars
  PROVE  OneVerdictPerRate' /\ Undecided'
<1> USE DEF state, search
<1>1. CASE MeasuredPoint
  <2>1. PICK p \in Point : points' = Append(points, p) /\ p.rps = rps
    BY <1>1, MeasuredPointType DEF MeasuredPoint, IInv
  <2>2. /\ DOMAIN points' = DOMAIN points \cup {Len(points) + 1}
        /\ points'[Len(points) + 1] = p
        /\ \A i \in DOMAIN points : points'[i] = points[i]
    BY <2>1, PointAppended DEF IInv
  <2>3. \A i \in DOMAIN points : points[i].rps = rps => points[i].outcome = "INVALID"
    BY <1>1 DEF MeasuredPoint, IInv, Undecided, Decided, At
  <2>4. OneVerdictPerRate'
    BY <2>1, <2>2, <2>3 DEF OneVerdictPerRate, IInv
  <2>5. Undecided'
    BY <1>1 DEF MeasuredPoint, Undecided
  <2> QED BY <2>4, <2>5
<1>2. CASE Measure
  <2>1. UNCHANGED <<points, rps>> /\ Decided(rps) = {}
    BY <1>2 DEF Measure
  <2> QED BY <2>1 DEF IInv, OneVerdictPerRate, Undecided, Decided, At
<1>3. CASE UNCHANGED vars
  <2>1. UNCHANGED <<points, rps, pc>>
    BY <1>3 DEF vars
  <2> QED BY <2>1 DEF IInv, OneVerdictPerRate, Undecided, Decided, At
<1>4. ASSUME UNCHANGED points, pc' # "measuring"
      PROVE  OneVerdictPerRate' /\ Undecided'
  BY <1>4 DEF IInv, OneVerdictPerRate, Undecided
<1>5. CASE \/ Launch \/ AboveSafetyMax \/ Finish \/ Halve \/ NextRate
           \/ ReusePoint \/ DirectoryExists \/ StopAtInvalid \/ GeometricPass
           \/ FailAtStart \/ GeometricFail \/ Refine \/ RunRaises \/ Crash \/ CrashInStateFile
  BY <1>4, <1>5 DEF Launch, AboveSafetyMax, Finish, Halve, NextRate, ReusePoint,
                    DirectoryExists, StopAtInvalid, GeometricPass, FailAtStart,
                    GeometricFail, Refine, RunRaises, Crash, CrashInStateFile, Stop, Exit
<1> QED BY <1>1, <1>2, <1>3, <1>5 DEF Next, Step

LEMMA NextBracket ==
  ASSUME IInv, [Next]_vars
  PROVE  Bracket'
<1> USE DEF state, search
<1>0. TypeOK /\ Bracket /\ OneVerdictPerRate
  BY DEF IInv
<1>1. ASSUME UNCHANGED points, Exit
      PROVE  Bracket'
  BY <1>1 DEF Exit, Bracket
<1>2. CASE \/ AboveSafetyMax \/ Finish \/ DirectoryExists \/ StopAtInvalid
           \/ FailAtStart \/ RunRaises \/ Crash \/ CrashInStateFile
  BY <1>1, <1>2 DEF AboveSafetyMax, Finish, DirectoryExists, StopAtInvalid,
                    FailAtStart, RunRaises, Crash, CrashInStateFile, Stop
<1>3. ASSUME UNCHANGED <<points, low, high, phase, rps>>, pc' # "decide",
             phase = "REFINE" /\ pc' \in {"point", "measuring"} => low <= rps /\ rps < high
      PROVE  Bracket'
  BY <1>0, <1>3 DEF Bracket, Passed, Failed
<1>4. CASE Launch \/ NextRate \/ Measure
  BY <1>0, <1>3, <1>4 DEF Launch, NextRate, Measure, Bracket
<1>5. CASE Halve
  <2>1. low \in Nat /\ high \in Nat /\ low # 0 /\ high # 0 /\ low < high
    BY <1>0, <1>5 DEF Halve, Bracket, TypeOK
  <2>2. low <= rps' /\ rps' < high
    BY <1>5, <2>1, MiddleBetween DEF Halve
  <2>3. /\ UNCHANGED <<points, low, high, phase>>
        /\ phase = "REFINE" /\ pc' = "point"
    BY <1>5 DEF Halve
  <2> QED BY <1>0, <2>1, <2>2, <2>3 DEF Bracket, Passed, Failed
<1>6. CASE ReusePoint
  <2> DEFINE d == Latest(Decided(rps))
  <2>1. /\ UNCHANGED <<points, low, high, phase, rps>>
        /\ pc = "point" /\ pc' = "decide"
        /\ Decided(rps) # {} /\ outcome' = points[d].outcome
    BY <1>6 DEF ReusePoint
  <2>2. d \in DOMAIN points /\ points[d].rps = rps
    BY <1>0, <2>1, LatestDecided
  <2> HIDE DEF d
  <2>3. /\ outcome' = "PASS" => rps \in Passed
        /\ outcome' = "CAPACITY_FAIL" => rps \in Failed
    BY <2>1, <2>2 DEF Passed, Failed
  <2> QED BY <1>0, <2>1, <2>3 DEF Bracket, Passed, Failed
<1>7. CASE MeasuredPoint
  <2>1. PICK p \in Point : /\ points' = Append(points, p)
                           /\ p.rps = rps /\ p.outcome = outcome'
    BY <1>0, <1>7, MeasuredPointType DEF MeasuredPoint
  <2>2. /\ Passed \subseteq Passed' /\ Failed \subseteq Failed'
        /\ outcome' = "PASS" => rps \in Passed'
        /\ outcome' = "CAPACITY_FAIL" => rps \in Failed'
    BY <1>0, <2>1, VerdictsAppended
  <2>3. UNCHANGED <<low, high, phase, rps>> /\ pc = "measuring" /\ pc' = "decide"
    BY <1>7 DEF MeasuredPoint
  <2> QED BY <1>0, <2>2, <2>3 DEF Bracket
<1>8. CASE GeometricPass
  <2>1. /\ UNCHANGED <<points, high, phase>>
        /\ low' = rps /\ rps' = rps * Factor /\ pc' = "search"
        /\ phase = "GEOMETRIC" /\ rps \in Passed
    BY <1>0, <1>8 DEF GeometricPass, Bracket
  <2>2. rps < rps * Factor
    BY <1>0, GrowthType DEF TypeOK
  <2> QED BY <1>0, <2>1, <2>2 DEF Bracket, Passed, Failed
<1>9. CASE GeometricFail
  <2>1. /\ UNCHANGED <<points, low, rps>>
        /\ high' = rps /\ phase' = "REFINE" /\ pc' = "search"
        /\ low # 0 /\ low < rps /\ rps \in Failed /\ low \in Passed /\ rps # 0
    BY <1>0, <1>9 DEF GeometricFail, Bracket, TypeOK
  <2> QED BY <2>1 DEF Bracket, Passed, Failed
<1>10. CASE Refine
  <2>1. /\ UNCHANGED <<points, phase, rps>> /\ pc' = "search"
        /\ phase = "REFINE" /\ low # 0 /\ high # 0
        /\ low <= rps /\ rps < high /\ low \in Passed /\ high \in Failed
        /\ low \in Nat /\ high \in Nat /\ rps \in Nat \ {0} /\ low < high
    BY <1>0, <1>10 DEF Refine, Bracket, TypeOK
  <2>2. CASE outcome = "PASS" /\ low' = rps /\ high' = high
    <3>1. rps \in Passed
      BY <1>0, <1>10, <2>2 DEF Refine, Bracket
    <3> QED BY <2>1, <2>2, <3>1 DEF Bracket, Passed, Failed
  <2>3. CASE outcome = "CAPACITY_FAIL" /\ high' = rps /\ low' = low
    <3>1. rps \in Failed
      BY <1>0, <1>10, <2>3 DEF Refine, Bracket
    <3>2. low # rps
      BY <1>0, <2>1, <3>1, PassedIsNotFailed
    <3> QED BY <2>1, <2>3, <3>1, <3>2 DEF Bracket, Passed, Failed
  <2> QED BY <1>10, <2>2, <2>3 DEF Refine
<1>11. CASE UNCHANGED vars
  <2>1. UNCHANGED <<points, low, high, phase, rps, pc, outcome>>
    BY <1>11 DEF vars
  <2> QED BY <1>0, <2>1 DEF Bracket, Passed, Failed
<1> QED BY <1>2, <1>4, <1>5, <1>6, <1>7, <1>8, <1>9, <1>10, <1>11 DEF Next, Step

LEMMA InvariantHolds == Spec => []IInv
<1>1. IInv /\ [Next]_vars => IInv'
  BY NextTypeOK, NextVerdicts, NextBracket DEF IInv
<1> QED BY InitIInv, <1>1, PTL DEF Spec


-----------------------------------------------------------------------------
\* The search replays its points: what a search that is launched again does before it
\* measures a new rate is what the searches before it did, so it measures a rate only when it
\* has come to the bounds of all points.

Verdict(i) == points[i].outcome # "INVALID"
End == Len(points) + 1

\* The bounds that the points before k leave.
Lower(k, l) ==
  /\ l # 0 => \E i \in DOMAIN points : i < k /\ points[i].outcome = "PASS" /\ points[i].rps = l
  /\ \A i \in DOMAIN points : i < k /\ points[i].outcome = "PASS" => points[i].rps <= l

Upper(k, h) ==
  /\ h # 0 => \E i \in DOMAIN points :
                i < k /\ points[i].outcome = "CAPACITY_FAIL" /\ points[i].rps = h
  /\ \A i \in DOMAIN points :
       i < k /\ points[i].outcome = "CAPACITY_FAIL" => h # 0 /\ h <= points[i].rps

Refinements(k) == {i \in DOMAIN points : i < k /\ Verdict(i) /\ points[i].phase = "REFINE"}
StepsAt(k) == Cardinality(Refinements(k))

\* The rate that the search tries between two bounds.
Tried(l, h) ==
  IF h # 0 THEN (l + h) \div 2 ELSE IF l # 0 THEN l * Factor ELSE StartRps

NarrowAt(l, h) == 10 * (h - l) <= l

\* Each verdict is on the rate that is tried between the bounds of the points before.
Path ==
  \A i \in DOMAIN points : Verdict(i) =>
    \E l \in Passed \cup {0}, h \in Failed \cup {0} :
      /\ Lower(i, l) /\ Upper(i, h)
      /\ points[i].rps = Tried(l, h)
      /\ h = 0 => points[i].phase = "GEOMETRIC"
      /\ h # 0 => /\ points[i].phase = "REFINE" /\ l # 0
                  /\ ~NarrowAt(l, h) /\ StepsAt(i) < RefinementSteps

\* If there is a verdict from k on, there is a first one.
FirstFrom(k, i) ==
  /\ i \in DOMAIN points /\ k <= i /\ Verdict(i)
  /\ \A j \in DOMAIN points : k <= j /\ j < i => ~Verdict(j)

HasFirst ==
  \A k \in 1 .. End :
    (\E i \in DOMAIN points : k <= i /\ Verdict(i)) => \E i \in DOMAIN points : FirstFrom(k, i)

\* The process has replayed the points before k. It may have used up steps on a bracket
\* that has no rate in its inside.
OnTrack(k) ==
  /\ Lower(k, low) /\ Upper(k, high)
  /\ steps = StepsAt(k) \/ (phase = "REFINE" /\ high = low + 1)
  /\ phase = "GEOMETRIC" => steps = 0

Replays == \E k \in 1 .. End : OnTrack(k)

Trying ==
  /\ phase = "GEOMETRIC" => rps = Tried(low, high)
  /\ phase = "REFINE" /\ pc \in {"point", "measuring", "decide"} =>
       rps = Tried(low, high) /\ ~Narrow /\ steps < RefinementSteps

\* A search that reported its result leaves nothing to try.
Exhausted ==
  report.usable # 0 =>
    /\ Lower(End, report.usable) /\ Upper(End, report.firstFailing)
    /\ report.firstFailing # 0
    /\ \/ NarrowAt(report.usable, report.firstFailing)
       \/ report.firstFailing = report.usable + 1
       \/ StepsAt(End) >= RefinementSteps

\* The refinements halve the bracket.
Halved ==
  phase = "REFINE" =>
    (high - low) * 2 ^ steps < low * (Factor - 1) + 2 ^ steps

ReportIsNarrow == report.usable # 0 => Narrowed

RInv ==
  /\ PassesBelowFailures /\ Path /\ HasFirst
  /\ Replays /\ Trying /\ Exhausted
  /\ Halved /\ ReportIsNarrow

\* What the points say.

LEMMA PointTypes ==
  ASSUME TypeOK
  PROVE  /\ Len(points) \in Nat /\ DOMAIN points = 1 .. Len(points) /\ End \in Nat
         /\ \A i \in DOMAIN points : i \in Nat /\ points[i] \in Point /\ points[i].rps \in Nat \ {0}
                                     /\ points[i].outcome \in Outcomes
                                     /\ points[i].phase \in {"GEOMETRIC", "REFINE"}
         /\ Passed \subseteq Nat \ {0} /\ Failed \subseteq Nat \ {0}
<1>1. points \in Seq(Point)
  BY DEF TypeOK
<1>2. Len(points) \in Nat /\ DOMAIN points = 1 .. Len(points)
  BY <1>1
<1>3. \A i \in DOMAIN points : points[i] \in Point
  BY <1>1
<1>4. \A i \in DOMAIN points : i \in Nat /\ points[i].rps \in Nat \ {0}
        /\ points[i].outcome \in Outcomes /\ points[i].phase \in {"GEOMETRIC", "REFINE"}
  BY <1>2, <1>3 DEF Point
<1>5. Passed \subseteq Nat \ {0} /\ Failed \subseteq Nat \ {0}
  BY <1>4 DEF Passed, Failed
<1> QED BY <1>2, <1>3, <1>4, <1>5 DEF End

LEMMA LowerUnique ==
  ASSUME TypeOK, NEW k, NEW l \in Nat, NEW m \in Nat, Lower(k, l), Lower(k, m)
  PROVE  l = m
<1>1. \A i \in DOMAIN points : points[i].rps \in Nat \ {0}
  BY PointTypes
<1>2. l # 0 => l <= m
  BY DEF Lower
<1>3. m # 0 => m <= l
  BY DEF Lower
<1> QED BY <1>2, <1>3

LEMMA UpperUnique ==
  ASSUME TypeOK, NEW k, NEW h \in Nat, NEW m \in Nat, Upper(k, h), Upper(k, m)
  PROVE  h = m
<1>1. h # 0 => m # 0 /\ m <= h
  BY DEF Upper
<1>2. m # 0 => h # 0 /\ h <= m
  BY DEF Upper
<1> QED BY <1>1, <1>2

\* Points without a verdict change no bounds.
LEMMA BoundsAhead ==
  ASSUME TypeOK, NEW k \in Nat, NEW m \in Nat, k <= m,
         \A j \in DOMAIN points : k <= j /\ j < m => ~Verdict(j)
  PROVE  /\ \A l : Lower(k, l) <=> Lower(m, l)
         /\ \A h : Upper(k, h) <=> Upper(m, h)
         /\ StepsAt(k) = StepsAt(m)
<1>1. \A i \in DOMAIN points : i \in Nat
  BY PointTypes
<1>2. \A i \in DOMAIN points : points[i].outcome # "INVALID" => (i < k <=> i < m)
  BY <1>1 DEF Verdict
<1>3. Refinements(k) = Refinements(m)
  BY <1>2 DEF Refinements, Verdict
<1>4. \A l : Lower(k, l) <=> Lower(m, l)
  BY <1>2 DEF Lower
<1>5. \A h : Upper(k, h) <=> Upper(m, h)
  BY <1>2 DEF Upper
<1> QED BY <1>3, <1>4, <1>5 DEF StepsAt

\* The first verdict from k on is on the rate that is tried between the bounds at k.
LEMMA FirstIsTried ==
  ASSUME TypeOK, Path, NEW k \in Nat, NEW l \in Nat, NEW h \in Nat, NEW i,
         Lower(k, l), Upper(k, h), FirstFrom(k, i)
  PROVE  /\ points[i].rps = Tried(l, h)
         /\ h = 0 => points[i].phase = "GEOMETRIC"
         /\ h # 0 => /\ points[i].phase = "REFINE" /\ l # 0
                     /\ ~NarrowAt(l, h) /\ StepsAt(k) < RefinementSteps
<1>1. i \in DOMAIN points /\ Verdict(i) /\ i \in Nat /\ k <= i
  BY PointTypes DEF FirstFrom
<1>2. PICK m \in Passed \cup {0}, n \in Failed \cup {0} :
        /\ Lower(i, m) /\ Upper(i, n)
        /\ points[i].rps = Tried(m, n)
        /\ n = 0 => points[i].phase = "GEOMETRIC"
        /\ n # 0 => /\ points[i].phase = "REFINE" /\ m # 0
                    /\ ~NarrowAt(m, n) /\ StepsAt(i) < RefinementSteps
  BY <1>1 DEF Path
<1>3. Lower(i, l) /\ Upper(i, h) /\ StepsAt(k) = StepsAt(i)
  BY <1>1, BoundsAhead DEF FirstFrom
<1>4. m \in Nat /\ n \in Nat
  BY PointTypes
<1>5. l = m /\ h = n
  BY <1>2, <1>3, <1>4, LowerUnique, UpperUnique
<1> QED BY <1>2, <1>3, <1>5

\* A verdict moves the bounds.
LEMMA VerdictMoves ==
  ASSUME TypeOK, NEW k \in Nat, NEW l \in Nat, NEW h \in Nat, NEW i,
         Lower(k, l), Upper(k, h), FirstFrom(k, i)
  PROVE  LET r == points[i].rps
         IN /\ points[i].outcome = "PASS" /\ l <= r => Lower(i + 1, r) /\ Upper(i + 1, h)
            /\ points[i].outcome = "CAPACITY_FAIL" /\ (h = 0 \/ r <= h) =>
                 Lower(i + 1, l) /\ Upper(i + 1, r)
            /\ points[i].phase = "REFINE" => StepsAt(i + 1) = StepsAt(k) + 1
            /\ points[i].phase # "REFINE" => StepsAt(i + 1) = StepsAt(k)
            /\ StepsAt(k) \in Nat
            /\ i + 1 \in 1 .. End
<1> DEFINE r == points[i].rps
<1>1. /\ i \in DOMAIN points /\ Verdict(i) /\ i \in Nat /\ k <= i /\ r \in Nat \ {0}
      /\ DOMAIN points = 1 .. Len(points) /\ Len(points) \in Nat
      /\ \A j \in DOMAIN points : j \in Nat /\ points[j].rps \in Nat
  BY PointTypes DEF FirstFrom
<1>2. \A j \in DOMAIN points :
        points[j].outcome # "INVALID" => (j < i + 1 <=> j < k \/ j = i)
  BY <1>1 DEF FirstFrom, Verdict
<1>3. \A j \in DOMAIN points : j < k => j < i + 1
  BY <1>1
<1>4. i < i + 1
  BY <1>1
<1>5. ASSUME points[i].outcome = "PASS", l <= r
      PROVE  Lower(i + 1, r) /\ Upper(i + 1, h)
  <2>1. \A j \in DOMAIN points : j < i + 1 /\ points[j].outcome = "PASS" => points[j].rps <= r
    <3> SUFFICES ASSUME NEW j \in DOMAIN points, j < i + 1, points[j].outcome = "PASS"
                 PROVE  points[j].rps <= r
      OBVIOUS
    <3>1. j < k \/ j = i
      BY <1>2
    <3>2. CASE j = i
      BY <1>1, <3>2
    <3>3. CASE j < k
      <4>1. points[j].rps <= l
        BY <3>3 DEF Lower
      <4> QED BY <1>1, <1>5, <4>1
    <3> QED BY <3>1, <3>2, <3>3
  <2>2. Lower(i + 1, r)
    <3> HIDE DEF r
    <3>1. i \in DOMAIN points /\ i < i + 1 /\ points[i].outcome = "PASS" /\ points[i].rps = r
      BY <1>1, <1>4, <1>5 DEF r
    <3> QED BY <2>1, <3>1 DEF Lower
  <2>3. \A j \in DOMAIN points : points[j].outcome = "CAPACITY_FAIL" => (j < i + 1 <=> j < k)
    BY <1>2, <1>5
  <2> QED BY <2>2, <2>3 DEF Upper
<1>6. ASSUME points[i].outcome = "CAPACITY_FAIL", h = 0 \/ r <= h
      PROVE  Lower(i + 1, l) /\ Upper(i + 1, r)
  <2>1. \A j \in DOMAIN points :
          j < i + 1 /\ points[j].outcome = "CAPACITY_FAIL" => r <= points[j].rps
    <3> SUFFICES ASSUME NEW j \in DOMAIN points, j < i + 1, points[j].outcome = "CAPACITY_FAIL"
                 PROVE  r <= points[j].rps
      OBVIOUS
    <3>1. j < k \/ j = i
      BY <1>2
    <3>2. CASE j = i
      BY <1>1, <3>2
    <3>3. CASE j < k
      <4>1. h # 0 /\ h <= points[j].rps /\ points[j].rps \in Nat
        BY <1>1, <3>3 DEF Upper
      <4> QED BY <1>1, <1>6, <4>1
    <3> QED BY <3>1, <3>2, <3>3
  <2>2. Upper(i + 1, r)
    <3> HIDE DEF r
    <3>1. i \in DOMAIN points /\ i < i + 1 /\ points[i].outcome = "CAPACITY_FAIL"
          /\ points[i].rps = r /\ r # 0
      BY <1>1, <1>4, <1>6 DEF r
    <3> QED BY <2>1, <3>1 DEF Upper
  <2>3. \A j \in DOMAIN points : points[j].outcome = "PASS" => (j < i + 1 <=> j < k)
    BY <1>2, <1>6
  <2> QED BY <2>2, <2>3 DEF Lower
<1>7. IsFiniteSet(Refinements(k)) /\ StepsAt(k) \in Nat
  <2>1. IsFiniteSet(DOMAIN points)
    BY <1>1, FS_Interval
  <2> QED BY <2>1, FS_Subset, FS_CardinalityType DEF Refinements, StepsAt
<1>8. ASSUME points[i].phase = "REFINE"
      PROVE  StepsAt(i + 1) = StepsAt(k) + 1
  <2>1. Refinements(i + 1) = Refinements(k) \cup {i} /\ i \notin Refinements(k)
    BY <1>1, <1>2, <1>8 DEF Refinements, Verdict
  <2> QED BY <1>7, <2>1, FS_AddElement DEF StepsAt
<1>9. ASSUME points[i].phase # "REFINE"
      PROVE  StepsAt(i + 1) = StepsAt(k)
  <2>1. Refinements(i + 1) = Refinements(k)
    BY <1>1, <1>2, <1>9 DEF Refinements, Verdict
  <2> QED BY <2>1 DEF StepsAt
<1>10. i + 1 \in 1 .. End
  BY <1>1 DEF End
<1> QED BY <1>5, <1>6, <1>7, <1>8, <1>9, <1>10

-----------------------------------------------------------------------------
\* A measurement.

\* One more point leaves the bounds of the points before it alone.
LEMMA BoundsKept ==
  ASSUME TypeOK, NEW p \in Point, points' = Append(points, p), NEW k \in 1 .. End
  PROVE  /\ \A l : Lower(k, l)' <=> Lower(k, l)
         /\ \A h : Upper(k, h)' <=> Upper(k, h)
         /\ StepsAt(k)' = StepsAt(k)
         /\ End' = End + 1
         /\ \A i : (i \in DOMAIN points' /\ i < k) <=> (i \in DOMAIN points /\ i < k)
<1>1. /\ DOMAIN points' = DOMAIN points \cup {End}
      /\ \A i \in DOMAIN points : points'[i] = points[i]
  BY PointAppended DEF End
<1>2. End \in Nat /\ DOMAIN points = 1 .. Len(points) /\ Len(points) \in Nat /\ ~(End < k)
  BY PointTypes DEF End
<1>3. \A i : (i \in DOMAIN points' /\ i < k) <=> (i \in DOMAIN points /\ i < k)
  BY <1>1, <1>2
<1>4. \A l : Lower(k, l)' <=> Lower(k, l)
  BY <1>1, <1>3 DEF Lower
<1>5. \A h : Upper(k, h)' <=> Upper(k, h)
  BY <1>1, <1>3 DEF Upper
<1>6. Refinements(k)' = Refinements(k)
  BY <1>1, <1>3 DEF Refinements, Verdict
<1>7. End' = End + 1
  <2>1. Len(points') = Len(points) + 1
    BY DEF TypeOK
  <2> QED BY <1>2, <2>1 DEF End
<1> QED BY <1>3, <1>4, <1>5, <1>6, <1>7 DEF StepsAt

\* A rate without a verdict is one between the bounds of all points.
LEMMA NewRate ==
  ASSUME IInv, Path, HasFirst, Trying, NEW k \in 1 .. End, OnTrack(k), pc = "measuring"
  PROVE  /\ \A j \in DOMAIN points : k <= j => ~Verdict(j)
         /\ Lower(End, low) /\ Upper(End, high) /\ StepsAt(End) = StepsAt(k)
         /\ \A p \in Passed : p <= low
         /\ \A f \in Failed : high # 0 /\ high <= f
         /\ low < rps
         /\ high # 0 => rps < high
         /\ rps = Tried(low, high)
         /\ low \in Passed \cup {0} /\ high \in Failed \cup {0}
<1>1. TypeOK /\ Bracket /\ Decided(rps) = {}
  BY DEF IInv, Undecided
<1>2. low \in Nat /\ high \in Nat /\ rps \in Nat \ {0} /\ k \in Nat /\ End \in Nat
  BY <1>1, PointTypes DEF TypeOK
<1>3. rps = Tried(low, high)
  BY <1>1 DEF Trying, TypeOK
<1>4. ASSUME NEW j \in DOMAIN points, k <= j, Verdict(j)
      PROVE  FALSE
  <2>1. PICK i \in DOMAIN points : FirstFrom(k, i)
    BY <1>4 DEF HasFirst
  <2>2. points[i].rps = rps
    BY <1>1, <1>2, <1>3, <2>1, FirstIsTried DEF OnTrack
  <2> QED BY <1>1, <2>1, <2>2 DEF Decided, At, FirstFrom, Verdict
<1>5. Lower(End, low) /\ Upper(End, high) /\ StepsAt(End) = StepsAt(k)
  <2>1. k <= End
    BY <1>2
  <2> QED BY <1>1, <1>2, <1>4, <2>1, BoundsAhead DEF OnTrack
<1>6. \A j \in DOMAIN points : j < End
  BY <1>1, PointTypes DEF End
<1>7. \A p \in Passed : p <= low
  BY <1>5, <1>6 DEF Lower, Passed
<1>8. \A f \in Failed : high # 0 /\ high <= f
  BY <1>5, <1>6 DEF Upper, Failed
<1>9. rps \notin Passed
  BY <1>1 DEF Passed, Decided, At
<1>10. low < rps /\ (high # 0 => rps < high)
  BY <1>1, <1>2, <1>9 DEF Bracket, TypeOK
<1> QED BY <1>1, <1>3, <1>4, <1>5, <1>7, <1>8, <1>10 DEF Bracket

\* After a reported result nothing is measured any more.
LEMMA NothingAfterReport ==
  ASSUME IInv, RInv, pc = "measuring"
  PROVE  report.usable = 0
<1> SUFFICES ASSUME report.usable # 0
             PROVE  FALSE
  OBVIOUS
<1>1. PICK k \in 1 .. End : OnTrack(k)
  BY DEF RInv, Replays
<1> DEFINE u == report.usable
           f == report.firstFailing
<1>2. TypeOK /\ Bracket /\ u \in Nat /\ f \in Nat /\ low \in Nat /\ high \in Nat
      /\ phase \in {"GEOMETRIC", "REFINE"}
  BY DEF IInv, TypeOK
<1>3. /\ Lower(End, low) /\ Upper(End, high) /\ StepsAt(End) = StepsAt(k)
      /\ low < rps /\ (high # 0 => rps < high)
  BY <1>1, NewRate DEF RInv
<1>4. /\ Lower(End, u) /\ Upper(End, f) /\ f # 0
      /\ NarrowAt(u, f) \/ f = u + 1 \/ StepsAt(End) >= RefinementSteps
  BY DEF RInv, Exhausted
<1> HIDE DEF u, f
<1>5. u = low /\ f = high
  BY <1>2, <1>3, <1>4, LowerUnique, UpperUnique
<1>6. phase = "REFINE"
  BY <1>2, <1>4, <1>5 DEF Bracket
<1>7. ~NarrowAt(low, high) /\ steps < RefinementSteps
  BY <1>6 DEF RInv, Trying, NarrowAt, Narrow
<1>8. steps = StepsAt(k) \/ high = low + 1
  BY <1>1, <1>6 DEF OnTrack
<1>9. rps \in Nat /\ steps \in Nat /\ RefinementSteps \in Nat
  BY <1>2, SearchAssumption DEF TypeOK
<1>10. high # low + 1
  BY <1>2, <1>3, <1>4, <1>5, <1>9
<1> QED BY <1>3, <1>4, <1>5, <1>7, <1>8, <1>9, <1>10

LEMMA MeasureReplays ==
  ASSUME IInv, RInv, MeasuredPoint
  PROVE  RInv'
<1>1. PICK k \in 1 .. End : OnTrack(k)
  BY DEF RInv, Replays
<1>2. /\ pc = "measuring" /\ pc' = "decide"
      /\ UNCHANGED <<report, low, high, steps, phase, rps>>
      /\ TypeOK /\ Path /\ HasFirst /\ Trying
  BY DEF MeasuredPoint, IInv, RInv
<1>3. PICK p \in Point : /\ points' = Append(points, p)
                         /\ p.rps = rps /\ p.phase = phase
  BY <1>2, MeasuredPointType DEF MeasuredPoint
<1>4. /\ \A j \in DOMAIN points : k <= j => ~Verdict(j)
      /\ Lower(End, low) /\ Upper(End, high) /\ StepsAt(End) = StepsAt(k)
      /\ \A q \in Passed : q <= low
      /\ \A f \in Failed : high # 0 /\ high <= f
      /\ low < rps
      /\ high # 0 => rps < high
      /\ rps = Tried(low, high)
      /\ low \in Passed \cup {0} /\ high \in Failed \cup {0}
  BY <1>1, <1>2, NewRate
<1>5. /\ DOMAIN points' = DOMAIN points \cup {End} /\ End \notin DOMAIN points
      /\ points'[End] = p
      /\ \A i \in DOMAIN points : points'[i] = points[i]
  BY <1>2, <1>3, PointAppended DEF End
<1>6. /\ End \in Nat /\ DOMAIN points = 1 .. Len(points) /\ Len(points) \in Nat
      /\ End = Len(points) + 1 /\ End \in 1 .. End
      /\ Passed \subseteq Nat \ {0} /\ Failed \subseteq Nat \ {0}
      /\ low \in Nat /\ high \in Nat /\ rps \in Nat /\ steps \in Nat
      /\ phase \in {"GEOMETRIC", "REFINE"}
  BY <1>2, PointTypes DEF TypeOK, End
<1>7. \A m \in 1 .. End : /\ \A l : Lower(m, l)' <=> Lower(m, l)
                          /\ \A h : Upper(m, h)' <=> Upper(m, h)
                          /\ StepsAt(m)' = StepsAt(m)
  BY <1>2, <1>3, BoundsKept
<1>8. End' = End + 1
  BY <1>2, <1>3, <1>6, BoundsKept
<1>9. PassesBelowFailures'
  <2>1. /\ \A q \in Passed' : q \in Passed \/ (q = rps /\ p.outcome = "PASS")
        /\ \A f \in Failed' : f \in Failed \/ (f = rps /\ p.outcome = "CAPACITY_FAIL")
    BY <1>3, <1>5 DEF Passed, Failed
  <2>2. ASSUME NEW q \in Passed', NEW f \in Failed'
        PROVE  q < f
    <3>1. CASE q \in Passed /\ f \in Failed
      BY <3>1 DEF RInv, PassesBelowFailures
    <3>2. CASE q \in Passed /\ f = rps
      BY <1>4, <1>6, <3>2
    <3>3. CASE q = rps /\ f \in Failed
      BY <1>4, <1>6, <3>3
    <3> QED BY <2>1, <2>2, <3>1, <3>2, <3>3
  <2> QED BY <2>2 DEF PassesBelowFailures
<1>10. Path'
  <2>1. Passed \subseteq Passed' /\ Failed \subseteq Failed'
    BY <1>5 DEF Passed, Failed
  <2>2. ASSUME NEW i \in DOMAIN points', Verdict(i)'
        PROVE  \E l \in Passed' \cup {0}, h \in Failed' \cup {0} :
                 /\ Lower(i, l)' /\ Upper(i, h)'
                 /\ points'[i].rps = Tried(l, h)
                 /\ h = 0 => points'[i].phase = "GEOMETRIC"
                 /\ h # 0 => /\ points'[i].phase = "REFINE" /\ l # 0
                             /\ ~NarrowAt(l, h) /\ StepsAt(i)' < RefinementSteps
    <3>1. CASE i \in DOMAIN points
      <4>1. Verdict(i) /\ points'[i] = points[i] /\ i \in 1 .. End
        BY <1>5, <1>6, <2>2, <3>1 DEF Verdict
      <4>2. PICK l \in Passed \cup {0}, h \in Failed \cup {0} :
              /\ Lower(i, l) /\ Upper(i, h)
              /\ points[i].rps = Tried(l, h)
              /\ h = 0 => points[i].phase = "GEOMETRIC"
              /\ h # 0 => /\ points[i].phase = "REFINE" /\ l # 0
                          /\ ~NarrowAt(l, h) /\ StepsAt(i) < RefinementSteps
        BY <1>2, <3>1, <4>1 DEF Path
      <4>3. Lower(i, l)' /\ Upper(i, h)' /\ StepsAt(i)' = StepsAt(i)
        BY <1>7, <4>1, <4>2
      <4> QED BY <2>1, <4>1, <4>2, <4>3
    <3>2. CASE i = End
      <4>1. points'[i].rps = rps /\ points'[i].phase = phase
        BY <1>3, <1>5, <3>2
      <4> PICK l \in Nat, h \in Nat : l = low /\ h = high
        BY <1>6
      <4>2. Lower(i, l)' /\ Upper(i, h)' /\ StepsAt(i)' = StepsAt(k)
        BY <1>4, <1>6, <1>7, <3>2
      <4>3. (high = 0 => phase = "GEOMETRIC") /\ (high # 0 => phase = "REFINE" /\ low # 0)
        BY <1>6 DEF IInv, Bracket
      <4>4. ASSUME high # 0
            PROVE  ~NarrowAt(low, high) /\ StepsAt(k) < RefinementSteps
        <5>1. phase = "REFINE"
          BY <4>3, <4>4
        <5>2. ~NarrowAt(low, high) /\ steps < RefinementSteps
          BY <1>2, <5>1 DEF Trying, Narrow, NarrowAt
        <5>3. steps = StepsAt(k) \/ high = low + 1
          BY <1>1, <5>1 DEF OnTrack
        <5> QED BY <1>4, <1>6, <4>4, <5>2, <5>3
      <4>5. l \in Passed' \cup {0} /\ h \in Failed' \cup {0}
        BY <1>4, <2>1
      <4> QED BY <1>4, <4>1, <4>2, <4>3, <4>4, <4>5
    <3> QED BY <1>5, <3>1, <3>2
  <2> QED BY <2>2 DEF Path
<1>11. HasFirst'
  <2> SUFFICES ASSUME NEW m \in 1 .. End + 1,
                      NEW e \in DOMAIN points', m <= e, Verdict(e)'
               PROVE  \E i \in DOMAIN points' : FirstFrom(m, i)'
    BY <1>8 DEF HasFirst
  <2>1. m \in 1 .. End
    BY <1>5, <1>6
  <2>2. \A i \in DOMAIN points : Verdict(i)' <=> Verdict(i)
    BY <1>5 DEF Verdict
  <2>3. CASE \E i \in DOMAIN points : m <= i /\ Verdict(i)
    <3>1. PICK i \in DOMAIN points : FirstFrom(m, i)
      BY <1>2, <2>1, <2>3 DEF HasFirst
    <3>2. FirstFrom(m, i)'
      BY <1>5, <1>6, <2>2, <3>1 DEF FirstFrom
    <3> QED BY <1>5, <3>2
  <2>4. CASE ~\E i \in DOMAIN points : m <= i /\ Verdict(i)
    <3>1. e = End
      BY <1>5, <2>2, <2>4
    <3>2. FirstFrom(m, e)'
      BY <1>5, <1>6, <2>2, <2>4, <3>1 DEF FirstFrom
    <3> QED BY <3>2
  <2> QED BY <2>3, <2>4
<1>12. Replays'
  <2>1. OnTrack(k)'
    BY <1>1, <1>2, <1>7 DEF OnTrack
  <2>2. k \in 1 .. End'
    BY <1>6, <1>8
  <2> QED BY <2>1, <2>2 DEF Replays
<1>13. Trying'
  BY <1>2 DEF Trying, Narrow
<1>14. Exhausted' /\ ReportIsNarrow'
  BY <1>2, NothingAfterReport DEF Exhausted, ReportIsNarrow
<1>15. Halved'
  BY <1>2 DEF RInv, Halved
<1> QED BY <1>9, <1>10, <1>11, <1>12, <1>13, <1>14, <1>15 DEF RInv

-----------------------------------------------------------------------------
\* The bracket is halved.

LEMMA PowerType ==
  ASSUME NEW n \in Nat
  PROVE  2 ^ n \in Nat \ {0} /\ 2 ^ 0 = 1
<1>1. 2 ^ 0 = 1
  <2>1. Cardinality(SUBSET {}) = 2 ^ Cardinality({}) /\ Cardinality({}) = 0
    BY FS_EmptySet, FS_SUBSET
  <2>2. SUBSET {} = {{}}
    OBVIOUS
  <2> QED BY <2>1, <2>2, FS_Singleton
<1>2. 2 ^ n \in Nat \ {0}
  <2>1. IsFiniteSet(1 .. n) /\ Cardinality(1 .. n) = n
    BY FS_Interval
  <2>2. IsFiniteSet(SUBSET (1 .. n)) /\ Cardinality(SUBSET (1 .. n)) = 2 ^ n
    BY <2>1, FS_SUBSET
  <2>3. {} \in SUBSET (1 .. n)
    OBVIOUS
  <2> QED BY <2>2, <2>3, FS_CardinalityType, FS_EmptySet
<1> QED BY <1>1, <1>2

\* The subsets of 1 .. n + 1 are those of 1 .. n, without and with n + 1.
LEMMA PowerDoubles ==
  ASSUME NEW n \in Nat
  PROVE  2 ^ (n + 1) = 2 ^ n + 2 ^ n
<1> DEFINE S == 1 .. n
           A == SUBSET S
           B == {T \in SUBSET (1 .. n + 1) : n + 1 \in T}
           f == [T \in A |-> T \cup {n + 1}]
<1>1. /\ IsFiniteSet(A) /\ Cardinality(A) = 2 ^ n
      /\ IsFiniteSet(SUBSET (1 .. n + 1)) /\ Cardinality(SUBSET (1 .. n + 1)) = 2 ^ (n + 1)
  <2>1. IsFiniteSet(S) /\ Cardinality(S) = n
    BY FS_Interval
  <2>2. IsFiniteSet(1 .. n + 1) /\ Cardinality(1 .. n + 1) = n + 1
    BY FS_Interval
  <2> QED BY <2>1, <2>2, FS_SUBSET
<1>2. 1 .. n + 1 = S \cup {n + 1} /\ n + 1 \notin S
  OBVIOUS
<1> HIDE DEF S
<1>3. f \in Bijection(A, B)
  <2>1. f \in [A -> B]
    BY <1>2
  <2>2. \A T, U \in A : f[T] = f[U] => T = U
    BY <1>2
  <2>3. \A U \in B : U \ {n + 1} \in A /\ f[U \ {n + 1}] = U
    BY <1>2
  <2> QED BY <2>1, <2>2, <2>3 DEF Bijection, Injection, Surjection, IsInjective
<1>4. IsFiniteSet(B) /\ Cardinality(B) = Cardinality(A)
  BY <1>1, <1>3, FS_Bijection DEF ExistsBijection
<1>5. A \cup B = SUBSET (1 .. n + 1) /\ A \cap B = {}
  BY <1>2
<1> HIDE DEF A, B
<1>6. Cardinality(A \cup B) = Cardinality(A) + Cardinality(B) - Cardinality(A \cap B)
  BY <1>1, <1>4, FS_Union
<1>7. Cardinality({}) = 0 /\ Cardinality(A) \in Nat
  BY <1>1, FS_EmptySet, FS_CardinalityType
<1>8. Cardinality(A \cap B) = 0 /\ Cardinality(A \cup B) = 2 ^ (n + 1)
  <2>1. Cardinality(A \cap B) = Cardinality({})
    BY <1>5
  <2>2. Cardinality(A \cup B) = Cardinality(SUBSET (1 .. n + 1))
    BY <1>5
  <2> QED BY <1>1, <1>7, <2>1, <2>2
<1> QED BY <1>1, <1>4, <1>6, <1>7, <1>8

LEMMA WidthHalves ==
  ASSUME NEW l \in Nat, NEW h \in Nat, l < h, NEW n \in Nat, NEW g \in Nat,
         (h - l) * 2 ^ n < l * g + 2 ^ n,
         NEW a \in Nat, NEW b \in Nat, a <= b, l <= a,
         \/ a = (l + h) \div 2 /\ b = h
         \/ a = l /\ b = (l + h) \div 2
  PROVE  (b - a) * 2 ^ (n + 1) < a * g + 2 ^ (n + 1)
<1>1. 2 ^ n \in Nat /\ 2 ^ (n + 1) = 2 ^ n + 2 ^ n
  BY PowerType, PowerDoubles
<1> DEFINE P == 2 ^ n
           W == h - l
           V == b - a
<1>2. V \in Nat /\ W \in Nat /\ V + V <= W + 1
  OBVIOUS
<1>3. P \in Nat /\ W * P < l * g + P /\ 2 ^ (n + 1) = P + P
  BY <1>1
<1> HIDE DEF P, W, V
<1>4. \A x, y, z \in Nat : x <= y => x * z <= y * z
  OBVIOUS
<1>5. l * g <= a * g /\ l * g \in Nat /\ a * g \in Nat
  BY <1>4
<1>6. (V + V) * P <= (W + 1) * P
  BY <1>2, <1>3, <1>4
<1>7. (V + V) * P = V * (P + P) /\ (W + 1) * P = W * P + P
  BY <1>2, <1>3
<1>8. V * (P + P) \in Nat /\ W * P \in Nat
  BY <1>2, <1>3
<1>9. V * (P + P) < a * g + (P + P)
  BY <1>3, <1>5, <1>6, <1>7, <1>8
<1> QED BY <1>3, <1>9 DEF V

LEMMA WidthAtStart ==
  ASSUME NEW l \in Nat
  PROVE  (l * Factor - l) * 2 ^ 0 < l * (Factor - 1) + 2 ^ 0
<1>1. 2 ^ 0 = 1 /\ Factor \in Nat /\ Factor >= 2
  BY PowerType, SearchAssumption
<1>2. l * Factor - l = l * (Factor - 1) /\ l * (Factor - 1) \in Int
  BY <1>1
<1> QED BY <1>1, <1>2

-----------------------------------------------------------------------------
\* The other steps.

LEMMA SamePoints ==
  ASSUME UNCHANGED points
  PROVE  /\ \A k, l : Lower(k, l)' <=> Lower(k, l)
         /\ \A k, h : Upper(k, h)' <=> Upper(k, h)
         /\ \A k : StepsAt(k)' = StepsAt(k)
         /\ End' = End
         /\ PassesBelowFailures => PassesBelowFailures'
         /\ Path => Path'
         /\ HasFirst => HasFirst'
<1>1. /\ \A k, l : Lower(k, l)' <=> Lower(k, l)
      /\ \A k, h : Upper(k, h)' <=> Upper(k, h)
  BY DEF Lower, Upper
<1>2. \A k : StepsAt(k)' = StepsAt(k)
  BY DEF StepsAt, Refinements, Verdict
<1>3. End' = End
  BY DEF End
<1>4. PassesBelowFailures => PassesBelowFailures'
  BY DEF PassesBelowFailures, Passed, Failed
<1>5. Passed' = Passed /\ Failed' = Failed /\ \A i : Verdict(i)' <=> Verdict(i)
  BY DEF Passed, Failed, Verdict
<1>6. Path => Path'
  BY <1>1, <1>2, <1>5 DEF Path
<1>7. HasFirst => HasFirst'
  BY <1>3, <1>5 DEF HasFirst, FirstFrom
<1> QED BY <1>1, <1>2, <1>3, <1>4, <1>6, <1>7

LEMMA SameReport ==
  ASSUME RInv, UNCHANGED points, Replays', Trying', Halved',
         report'.usable = report.usable, report'.firstFailing = report.firstFailing
  PROVE  RInv'
<1>1. PassesBelowFailures' /\ Path' /\ HasFirst'
  BY SamePoints DEF RInv
<1>2. Exhausted'
  <2> PICK u, f : u = report.usable /\ f = report.firstFailing
    OBVIOUS
  <2>1. u # 0 =>
          /\ Lower(End, u) /\ Upper(End, f) /\ f # 0
          /\ NarrowAt(u, f) \/ f = u + 1 \/ StepsAt(End) >= RefinementSteps
    BY DEF RInv, Exhausted
  <2> PICK e : e = End
    OBVIOUS
  <2>2. u # 0 =>
          /\ Lower(e, u)' /\ Upper(e, f)' /\ f # 0
          /\ NarrowAt(u, f) \/ f = u + 1 \/ StepsAt(e)' >= RefinementSteps
    BY <2>1, SamePoints
  <2>3. End' = e
    BY SamePoints
  <2> QED BY <2>2, <2>3 DEF Exhausted
<1>3. ReportIsNarrow'
  BY DEF RInv, ReportIsNarrow, Narrowed
<1> QED BY <1>1, <1>2, <1>3 DEF RInv

LEMMA SameBounds ==
  ASSUME RInv, UNCHANGED <<points, low, high, steps, phase>>
  PROVE  Replays' /\ Halved'
<1>1. PICK k \in 1 .. End : OnTrack(k)
  BY DEF RInv, Replays
<1>2. OnTrack(k)'
  <2> PICK l, h : l = low /\ h = high
    OBVIOUS
  <2>1. Lower(k, l) /\ Upper(k, h)
    BY <1>1 DEF OnTrack
  <2>2. Lower(k, l)' /\ Upper(k, h)'
    BY <2>1, SamePoints
  <2> QED BY <1>1, <2>2, SamePoints DEF OnTrack
<1>3. Halved'
  BY DEF RInv, Halved
<1> QED BY <1>1, <1>2, <1>3, SamePoints DEF Replays

LEMMA ExitReplays ==
  ASSUME IInv, Exit, UNCHANGED points
  PROVE  Replays' /\ Trying' /\ Halved'
<1>1. /\ pc' = "idle" /\ phase' = "GEOMETRIC" /\ rps' = StartRps
      /\ low' = 0 /\ high' = 0 /\ steps' = 0
  BY DEF Exit
<1>2. \A i \in DOMAIN points : ~(i < 1)
  BY PointTypes DEF IInv
<1>3. Lower(1, 0)' /\ Upper(1, 0)'
  BY <1>2 DEF Lower, Upper
<1>4. OnTrack(1)'
  <2>1. Refinements(1)' = {}
    BY <1>2 DEF Refinements
  <2> QED BY <1>1, <1>3, <2>1, FS_EmptySet DEF OnTrack, StepsAt
<1>5. 1 \in 1 .. End'
  BY PointTypes, SamePoints DEF IInv, End
<1>6. Replays'
  BY <1>4, <1>5 DEF Replays
<1>7. Trying'
  BY <1>1 DEF Trying, Tried
<1>8. Halved'
  BY <1>1 DEF Halved
<1> QED BY <1>6, <1>7, <1>8

\* The outcome that the process acts on is that of the next verdict, or that of the lower end
\* of a bracket with an empty inside.
LEMMA Consumed ==
  ASSUME IInv, RInv, NEW k \in 1 .. End, OnTrack(k), pc = "decide",
         outcome \in {"PASS", "CAPACITY_FAIL"}
  PROVE  \/ \E i \in DOMAIN points : /\ FirstFrom(k, i) /\ points[i].rps = rps
                                     /\ points[i].outcome = outcome
                                     /\ points[i].phase = phase
         \/ phase = "REFINE" /\ outcome = "PASS" /\ rps = low /\ high = low + 1
<1>1. /\ TypeOK /\ Bracket /\ OneVerdictPerRate /\ Path /\ HasFirst
      /\ low \in Nat /\ high \in Nat /\ rps \in Nat \ {0} /\ phase \in {"GEOMETRIC", "REFINE"}
      /\ k \in Nat
  BY PointTypes DEF IInv, RInv, TypeOK
<1>2. rps = Tried(low, high)
  BY <1>1 DEF RInv, Trying
<1>3. PICK d \in DOMAIN points : points[d].rps = rps /\ points[d].outcome = outcome
  BY <1>1 DEF Bracket, Passed, Failed
<1>4. d \in Nat
  BY <1>1, PointTypes
<1>5. CASE k <= d
  <2>1. PICK i \in DOMAIN points : FirstFrom(k, i)
    BY <1>1, <1>3, <1>5 DEF HasFirst, Verdict
  <2>2. /\ points[i].rps = Tried(low, high)
        /\ high = 0 => points[i].phase = "GEOMETRIC"
        /\ high # 0 => points[i].phase = "REFINE"
    BY <1>1, <2>1, FirstIsTried DEF OnTrack
  <2>3. i = d
    BY <1>1, <1>2, <1>3, <2>1, <2>2 DEF OneVerdictPerRate, FirstFrom, Verdict
  <2>4. points[i].phase = phase
    BY <1>1, <2>2 DEF Bracket
  <2> QED BY <1>3, <2>1, <2>3, <2>4
<1>6. CASE d < k
  <2>1. /\ outcome = "PASS" => rps <= low
        /\ outcome = "CAPACITY_FAIL" => high # 0 /\ high <= rps
    BY <1>3, <1>6 DEF OnTrack, Lower, Upper
  <2>2. CASE phase = "GEOMETRIC"
    BY <1>1, <2>1, <2>2 DEF Bracket
  <2>3. CASE phase = "REFINE"
    <3>1. low # 0 /\ high # 0 /\ low <= rps /\ rps < high
      BY <1>1, <2>3 DEF Bracket
    <3>2. outcome = "PASS" /\ rps = low
      BY <1>1, <2>1, <3>1
    <3>3. low = (low + high) \div 2 /\ low < high
      BY <1>2, <3>1, <3>2 DEF Tried
    <3>4. high = low + 1
      BY <1>1, <3>3
    <3> QED BY <2>3, <3>2, <3>4
  <2> QED BY <1>1, <2>2, <2>3
<1> QED BY <1>1, <1>4, <1>5, <1>6

LEMMA GeometricPassReplays ==
  ASSUME IInv, RInv, GeometricPass
  PROVE  Replays' /\ Trying' /\ Halved'
<1>1. PICK k \in 1 .. End : OnTrack(k)
  BY DEF RInv, Replays
<1>2. /\ pc = "decide" /\ phase = "GEOMETRIC" /\ outcome = "PASS"
      /\ low' = rps /\ rps' = rps * Factor /\ UNCHANGED <<points, phase, high, steps>>
  BY DEF GeometricPass, state
<1>3. PICK i \in DOMAIN points : FirstFrom(k, i) /\ points[i].rps = rps
                                 /\ points[i].outcome = "PASS" /\ points[i].phase = "GEOMETRIC"
  BY <1>1, <1>2, Consumed
<1>4. /\ TypeOK /\ low \in Nat /\ high \in Nat /\ rps \in Nat \ {0} /\ k \in Nat
      /\ high = 0 /\ low <= rps
  BY <1>2, PointTypes DEF IInv, TypeOK, Bracket
<1> PICK r, z : r = rps /\ z = 0
  OBVIOUS
<1>5. Lower(i + 1, r) /\ Upper(i + 1, z) /\ StepsAt(i + 1) = StepsAt(k) /\ i + 1 \in 1 .. End
  BY <1>1, <1>3, <1>4, VerdictMoves DEF OnTrack
<1>6. Lower(i + 1, r)' /\ Upper(i + 1, z)' /\ StepsAt(i + 1)' = StepsAt(k) /\ i + 1 \in 1 .. End'
  BY <1>2, <1>5, SamePoints
<1>7. OnTrack(i + 1)'
  BY <1>1, <1>2, <1>4, <1>6 DEF OnTrack
<1>8. Replays'
  BY <1>6, <1>7 DEF Replays
<1>9. Trying'
  BY <1>2, <1>4 DEF Trying, Tried
<1>10. Halved'
  BY <1>2 DEF Halved
<1> QED BY <1>8, <1>9, <1>10

LEMMA GeometricFailReplays ==
  ASSUME IInv, RInv, GeometricFail
  PROVE  Replays' /\ Trying' /\ Halved'
<1>1. PICK k \in 1 .. End : OnTrack(k)
  BY DEF RInv, Replays
<1>2. /\ pc = "decide" /\ phase = "GEOMETRIC" /\ outcome = "CAPACITY_FAIL" /\ low # 0
      /\ high' = rps /\ phase' = "REFINE" /\ pc' = "search"
      /\ UNCHANGED <<points, low, steps>>
  BY DEF GeometricFail
<1>3. PICK i \in DOMAIN points : FirstFrom(k, i) /\ points[i].rps = rps
                                 /\ points[i].outcome = "CAPACITY_FAIL"
                                 /\ points[i].phase = "GEOMETRIC"
  BY <1>1, <1>2, Consumed
<1>4. /\ TypeOK /\ low \in Nat /\ high \in Nat /\ rps \in Nat \ {0} /\ k \in Nat
      /\ high = 0
  BY <1>2, PointTypes DEF IInv, TypeOK, Bracket
<1> PICK l, r : l = low /\ r = rps
  OBVIOUS
<1>5. Lower(i + 1, l) /\ Upper(i + 1, r) /\ StepsAt(i + 1) = StepsAt(k) /\ i + 1 \in 1 .. End
  BY <1>1, <1>3, <1>4, VerdictMoves DEF OnTrack
<1>6. Lower(i + 1, l)' /\ Upper(i + 1, r)' /\ StepsAt(i + 1)' = StepsAt(k) /\ i + 1 \in 1 .. End'
  BY <1>2, <1>5, SamePoints
<1>7. steps = StepsAt(k) /\ steps = 0
  BY <1>1, <1>2 DEF OnTrack
<1>8. OnTrack(i + 1)'
  BY <1>2, <1>6, <1>7 DEF OnTrack
<1>9. Replays'
  BY <1>6, <1>8 DEF Replays
<1>10. Trying'
  BY <1>2 DEF Trying
<1>11. rps = low * Factor
  BY <1>2, <1>4 DEF RInv, Trying, Tried
<1>12. Halved'
  BY <1>2, <1>4, <1>7, <1>11, WidthAtStart DEF Halved
<1> QED BY <1>9, <1>10, <1>12

LEMMA RefineReplays ==
  ASSUME IInv, RInv, Refine
  PROVE  Replays' /\ Trying' /\ Halved'
<1>1. PICK k \in 1 .. End : OnTrack(k)
  BY DEF RInv, Replays
<1>2. /\ pc = "decide" /\ phase = "REFINE" /\ pc' = "search"
      /\ steps' = steps + 1 /\ UNCHANGED <<points, phase>>
      /\ \/ outcome = "PASS" /\ low' = rps /\ high' = high
         \/ outcome = "CAPACITY_FAIL" /\ high' = rps /\ low' = low
  BY DEF Refine, state
<1>3. /\ TypeOK /\ OneVerdictPerRate /\ low \in Nat /\ high \in Nat /\ rps \in Nat \ {0}
      /\ k \in Nat /\ steps \in Nat
      /\ low # 0 /\ high # 0 /\ low <= rps /\ rps < high /\ low \in Passed
      /\ outcome = "CAPACITY_FAIL" => rps \in Failed
  BY <1>2, PointTypes DEF IInv, TypeOK, Bracket
<1>4. rps = (low + high) \div 2
  BY <1>2, <1>3 DEF RInv, Trying, Tried
<1>5. Trying'
  BY <1>2 DEF Trying
<1>6. Halved'
  <2>1. (high - low) * 2 ^ steps < low * (Factor - 1) + 2 ^ steps
    BY <1>2 DEF RInv, Halved
  <2>2. Factor - 1 \in Nat
    BY SearchAssumption
  <2>3. /\ low' \in Nat /\ high' \in Nat /\ low' <= high' /\ low <= low' /\ low < high
        /\ \/ low' = (low + high) \div 2 /\ high' = high
           \/ low' = low /\ high' = (low + high) \div 2
    BY <1>2, <1>3, <1>4
  <2> HIDE <1>2
  <2>4. (high' - low') * 2 ^ (steps + 1) < low' * (Factor - 1) + 2 ^ (steps + 1)
    BY <1>3, <2>1, <2>2, <2>3, WidthHalves
  <2> QED BY <1>2, <2>4 DEF Halved
<1> PICK l, h, r : l = low /\ h = high /\ r = rps
  OBVIOUS
<1>7. ASSUME NEW i \in DOMAIN points, FirstFrom(k, i), points[i].rps = rps,
             points[i].outcome = outcome, points[i].phase = "REFINE"
      PROVE  Replays'
  <2>1. StepsAt(i + 1) = StepsAt(k) + 1 /\ StepsAt(k) \in Nat /\ i + 1 \in 1 .. End
    BY <1>1, <1>3, <1>7, VerdictMoves DEF OnTrack
  <2>2. steps = StepsAt(k) \/ high = low + 1
    BY <1>1, <1>2 DEF OnTrack
  <2>3. i + 1 \in 1 .. End' /\ StepsAt(i + 1)' = StepsAt(k) + 1
    BY <1>2, <2>1, SamePoints
  <2>4. CASE outcome = "PASS" /\ low' = rps /\ high' = high
    <3>1. Lower(i + 1, r) /\ Upper(i + 1, h)
      BY <1>1, <1>3, <1>7, <2>4, VerdictMoves DEF OnTrack
    <3>2. Lower(i + 1, r)' /\ Upper(i + 1, h)'
      BY <1>2, <3>1, SamePoints
    <3>3. high = low + 1 => high' = low' + 1
      BY <1>3, <2>4
    <3>4. OnTrack(i + 1)'
      BY <1>2, <2>2, <2>3, <2>4, <3>2, <3>3 DEF OnTrack
    <3> QED BY <2>3, <3>4 DEF Replays
  <2>5. CASE outcome = "CAPACITY_FAIL" /\ high' = rps /\ low' = low
    <3>1. Lower(i + 1, l) /\ Upper(i + 1, r)
      BY <1>1, <1>3, <1>7, <2>5, VerdictMoves DEF OnTrack
    <3>2. Lower(i + 1, l)' /\ Upper(i + 1, r)'
      BY <1>2, <3>1, SamePoints
    <3>3. high # low + 1
      <4>1. rps # low
        BY <1>3, <2>5, PassedIsNotFailed
      <4> QED BY <1>3, <4>1
    <3>4. OnTrack(i + 1)'
      BY <1>2, <2>2, <2>3, <2>5, <3>2, <3>3 DEF OnTrack
    <3> QED BY <2>3, <3>4 DEF Replays
  <2> QED BY <1>2, <2>4, <2>5
<1>8. ASSUME outcome = "PASS", rps = low, high = low + 1
      PROVE  Replays'
  <2>1. low' = low /\ high' = high
    BY <1>2, <1>8
  <2>2. Lower(k, l) /\ Upper(k, h)
    BY <1>1 DEF OnTrack
  <2>3. Lower(k, l)' /\ Upper(k, h)' /\ k \in 1 .. End'
    BY <1>2, <2>2, SamePoints
  <2>4. OnTrack(k)'
    BY <1>2, <1>8, <2>1, <2>3 DEF OnTrack
  <2> QED BY <2>3, <2>4 DEF Replays
<1>9. outcome \in {"PASS", "CAPACITY_FAIL"}
  BY <1>2
<1> QED BY <1>1, <1>2, <1>5, <1>6, <1>7, <1>8, <1>9, Consumed

LEMMA FinishReports ==
  ASSUME IInv, RInv, Finish
  PROVE  RInv'
<1>1. PICK k \in 1 .. End : OnTrack(k)
  BY DEF RInv, Replays
<1>2. /\ phase = "REFINE"
      /\ steps = RefinementSteps \/ Narrow
      /\ report' = [report EXCEPT !.usable = low, !.firstFailing = high]
      /\ Exit /\ UNCHANGED points
  BY DEF Finish, Stop
<1>3. /\ TypeOK /\ OneVerdictPerRate /\ low \in Nat /\ high \in Nat
      /\ k \in Nat /\ steps \in Nat /\ End \in Nat /\ low # 0 /\ high # 0
      /\ Path /\ HasFirst /\ RefinementSteps \in Nat
      /\ report'.usable = low /\ report'.firstFailing = high
  <2>1. TypeOK /\ Bracket /\ OneVerdictPerRate /\ Path /\ HasFirst
    BY DEF IInv, RInv
  <2>2. End \in Nat /\ k \in Nat
    BY <2>1, PointTypes
  <2>3. report \in [usable : Nat, firstFailing : Nat, lastPassed : Nat, invalid : Nat]
    BY <2>1 DEF TypeOK
  <2>4. report'.usable = low /\ report'.firstFailing = high
    BY <1>2, <2>3
  <2>5. low \in Nat /\ high \in Nat /\ steps \in Nat /\ low # 0 /\ high # 0
    BY <1>2, <2>1 DEF TypeOK, Bracket
  <2> QED BY <2>1, <2>2, <2>4, <2>5, SearchAssumption
<1>4. steps = StepsAt(k) \/ high = low + 1
  BY <1>1, <1>2 DEF OnTrack
<1>5. ASSUME NEW j \in DOMAIN points, k <= j, Verdict(j)
      PROVE  FALSE
  <2>1. PICK i \in DOMAIN points : FirstFrom(k, i)
    BY <1>3, <1>5 DEF HasFirst
  <2>2. /\ points[i].rps = (low + high) \div 2
        /\ ~NarrowAt(low, high) /\ StepsAt(k) < RefinementSteps
    BY <1>1, <1>3, <2>1, FirstIsTried DEF OnTrack, Tried
  <2>3. high = low + 1
    BY <1>2, <1>3, <1>4, <2>2 DEF Narrow, NarrowAt
  <2>4. points[i].rps = low
    BY <1>3, <2>2, <2>3
  <2>5. PICK d \in DOMAIN points : d < k /\ points[d].outcome = "PASS" /\ points[d].rps = low
    BY <1>1, <1>3 DEF OnTrack, Lower
  <2>6. i = d
    BY <1>3, <2>1, <2>4, <2>5 DEF OneVerdictPerRate, FirstFrom, Verdict
  <2>7. i \in Nat /\ k <= i
    BY <1>3, <2>1, PointTypes DEF FirstFrom
  <2> QED BY <1>3, <2>5, <2>6, <2>7
<1> PICK e, l, h : e = End /\ l = low /\ h = high
  OBVIOUS
<1>6. Lower(e, l) /\ Upper(e, h) /\ StepsAt(e) = StepsAt(k)
  <2>1. k <= End
    BY <1>3
  <2> QED BY <1>1, <1>3, <1>5, <2>1, BoundsAhead DEF OnTrack
<1>7. Lower(e, l)' /\ Upper(e, h)' /\ StepsAt(e)' = StepsAt(k) /\ End' = e
  BY <1>2, <1>6, SamePoints
<1>8. Exhausted'
  <2>1. NarrowAt(l, h) \/ h = l + 1 \/ StepsAt(k) >= RefinementSteps
    BY <1>2, <1>3, <1>4 DEF Narrow, NarrowAt
  <2> QED BY <1>3, <1>7, <2>1 DEF Exhausted
<1>9. ReportIsNarrow'
  <2>1. CASE Narrow
    BY <1>3, <2>1 DEF Narrow, ReportIsNarrow, Narrowed
  <2>2. CASE steps = RefinementSteps
    <3>1. (high - low) * 2 ^ RefinementSteps < low * (Factor - 1) + 2 ^ RefinementSteps
      BY <1>2, <2>2 DEF RInv, Halved
    <3> QED BY <1>3, <3>1 DEF ReportIsNarrow, Narrowed
  <2> QED BY <1>2, <2>1, <2>2
<1>10. PassesBelowFailures' /\ Path' /\ HasFirst'
  BY <1>2, SamePoints DEF RInv
<1>11. Replays' /\ Trying' /\ Halved'
  BY <1>2, ExitReplays
<1> QED BY <1>8, <1>9, <1>10, <1>11 DEF RInv

LEMMA SearchReplays ==
  ASSUME IInv, RInv, [Next]_vars
  PROVE  RInv'
<1>1. CASE MeasuredPoint
  BY <1>1, MeasureReplays
<1>2. CASE Finish
  BY <1>2, FinishReports
<1>3. CASE GeometricPass \/ GeometricFail \/ Refine
  <2>1. UNCHANGED <<points, report>>
    BY <1>3 DEF GeometricPass, GeometricFail, Refine, state
  <2> QED BY <1>3, <2>1, GeometricPassReplays, GeometricFailReplays, RefineReplays, SameReport
<1>4. CASE \/ AboveSafetyMax \/ DirectoryExists \/ StopAtInvalid \/ FailAtStart \/ RunRaises
           \/ Crash \/ CrashInStateFile
  <2>1. UNCHANGED points /\ Exit
    BY <1>4 DEF AboveSafetyMax, DirectoryExists, StopAtInvalid, FailAtStart, RunRaises, Crash,
                CrashInStateFile, Stop, state
  <2>2. report'.usable = report.usable /\ report'.firstFailing = report.firstFailing
    <3>1. report \in [usable : Nat, firstFailing : Nat, lastPassed : Nat, invalid : Nat]
      BY DEF IInv, TypeOK
    <3>2. \/ report' = report
          \/ report' = [report EXCEPT !.lastPassed = low]
          \/ report' = [report EXCEPT !.invalid = rps]
      BY <1>4
         DEF AboveSafetyMax, DirectoryExists, StopAtInvalid, FailAtStart, RunRaises, Crash,
             CrashInStateFile, state
    <3> QED BY <3>1, <3>2
  <2> QED BY <2>1, <2>2, ExitReplays, SameReport
<1>5. CASE Launch \/ NextRate \/ ReusePoint \/ Measure \/ Halve \/ UNCHANGED vars
  <2>1. UNCHANGED <<points, report, low, high, steps, phase>>
    BY <1>5 DEF Launch, NextRate, ReusePoint, Measure, Halve, vars, state, search
  <2>2. Trying
    BY DEF RInv
  <2>3. Trying'
    <3>1. CASE Halve
      <4>1. phase = "REFINE" /\ high # 0 /\ ~Narrow /\ steps < RefinementSteps
            /\ rps' = (low + high) \div 2
        BY <3>1 DEF Halve, IInv, Bracket
      <4> QED BY <2>1, <4>1 DEF Trying, Tried, Narrow
    <3>2. CASE ~Halve
      <4>1. /\ rps' = rps
            /\ phase = "REFINE" /\ pc' \in {"point", "measuring", "decide"} =>
                 pc \in {"point", "measuring", "decide"}
        BY <1>5, <3>2 DEF Launch, NextRate, ReusePoint, Measure, vars, search
      <4> QED BY <2>1, <2>2, <4>1 DEF Trying, Narrow
    <3> QED BY <3>1, <3>2
  <2> QED BY <2>1, <2>3, SameBounds, SameReport
<1> QED BY <1>1, <1>2, <1>3, <1>4, <1>5 DEF Next, Step

LEMMA InitReplays == Init => RInv
<1> SUFFICES ASSUME Init
             PROVE  RInv
  OBVIOUS
<1>1. /\ DOMAIN points = {} /\ Passed = {} /\ Failed = {} /\ End = 1
      /\ pc = "idle" /\ phase = "GEOMETRIC" /\ low = 0 /\ high = 0 /\ steps = 0
      /\ rps = StartRps /\ report.usable = 0
  BY DEF Init, Passed, Failed, End
<1>2. OnTrack(1)
  <2>1. Refinements(1) = {}
    BY <1>1 DEF Refinements
  <2> QED BY <1>1, <2>1, FS_EmptySet DEF OnTrack, Lower, Upper, StepsAt
<1>3. Replays
  BY <1>1, <1>2 DEF Replays
<1> QED BY <1>1, <1>3 DEF RInv, PassesBelowFailures, Path, HasFirst, Trying, Tried, Exhausted,
                          Halved, ReportIsNarrow

LEMMA SearchIsReplay == Spec => []RInv
<1>1. IInv /\ RInv /\ [Next]_vars => RInv'
  BY SearchReplays
<1> QED BY <1>1, InitReplays, InvariantHolds, PTL DEF Spec

\* Capacity is a boundary: over all launches of the search, and however the measurements come
\* out, every rate that passed lies below every rate that failed (capacity.py:100-192).
THEOREM CapacityIsABoundary == Spec => []PassesBelowFailures
<1>1. RInv => PassesBelowFailures
  BY DEF RInv
<1> QED BY <1>1, SearchIsReplay, PTL

\* A reported capacity is the highest rate that passed, beside the lowest that failed, as close
\* as the refinements bring them, and no later launch makes it wrong (capacity.py:181-192).
THEOREM ReportedCapacityHolds == Spec => []ReportHolds
<1>1. IInv /\ RInv => ReportHolds
  <2> SUFFICES ASSUME IInv, RInv, report.usable # 0
               PROVE  HighestPass /\ Narrowed
    BY DEF ReportHolds
  <2>1. Lower(End, report.usable) /\ Upper(End, report.firstFailing) /\ report.firstFailing # 0
    BY DEF RInv, Exhausted
  <2>2. /\ \A i \in DOMAIN points : i < End
        /\ Failed \subseteq Nat /\ report.firstFailing \in Nat
    BY PointTypes DEF IInv, TypeOK, End
  <2>3. HighestPass
    <3>1. report.usable \in Passed /\ \A p \in Passed : p <= report.usable
      BY <2>1, <2>2 DEF Lower, Passed
    <3>2. /\ report.firstFailing \in Failed
          /\ \A f \in Failed : report.firstFailing <= f
      BY <2>1, <2>2 DEF Upper, Failed
    <3>3. \A f \in Failed : f >= report.firstFailing
      BY <2>2, <3>2
    <3> QED BY <3>1, <3>2, <3>3 DEF HighestPass
  <2>4. Narrowed
    BY DEF RInv, ReportIsNarrow
  <2> QED BY <2>3, <2>4
<1> QED BY <1>1, InvariantHolds, SearchIsReplay, PTL

\* Points, bounds and the control state keep their types, in every run of the search
\* and across its restarts (capacity.py:100-192).
THEOREM SearchTypes == Spec => []TypeOK
<1>1. IInv => TypeOK
  BY DEF IInv
<1> QED BY <1>1, InvariantHolds, PTL

\* The search always holds a real bracket (capacity.py:148-192).
THEOREM BracketIsReal == Spec => []Bracket
<1>1. IInv => Bracket
  BY DEF IInv
<1> QED BY <1>1, InvariantHolds, PTL

\* However often a search is launched again, a rate is decided once
\* (capacity.py:104-123).
THEOREM DecidedOnce == Spec => []OneVerdictPerRate
<1>1. IInv => OneVerdictPerRate
  BY DEF IInv
<1> QED BY <1>1, InvariantHolds, PTL

===============================================================================
