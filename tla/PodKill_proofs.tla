--------------------------- MODULE PodKill_proofs ---------------------------
(***************************************************************************)
(* The pod-kill study for any number of repeats, launches and faults, any  *)
(* timing of kill and outage and any phase of the scrapes: its types,      *)
(* whose load can be found beside a measured one, how far a reported       *)
(* recovery can be trusted, how late it is, and when the next kill hits a  *)
(* pod that serves.                                                        *)
(*                                                                         *)
(* Three layers: IInv says which directory a launch works on, which        *)
(* containers can run and when a kill can come; Seen, that the ticks       *)
(* without a pod fail and that a report is the one of the load it is       *)
(* written for; PodHanded, what one repeat leaves for the next. The rest   *)
(* is about recovery_seconds: a rate is made of two readings a scrape      *)
(* interval apart (RateOfTwo), and a low one means that the later was made *)
(* before an outage or the earlier after it (LowRate).                     *)
(***************************************************************************)
EXTENDS PodKill, FiniteSetTheorems, WellFoundedInduction, TLAPS

\* A launch has room for the repeats it has left, and works on the newest directory.
Progress ==
  pc # "idle" =>
    /\ repeat \in 1 .. MaxRepeats
    /\ left \in 1 .. MaxRepeats
    /\ repeat + left <= MaxRepeats + 1
    /\ pc # "make" => repeat = Len(evidence) /\ ~evidence[repeat].done

\* A container that runs belongs to a repeat without a result, and to this one
\* only where this one waits for it.
Containers ==
  /\ \A n \in k6 : ~evidence[n].done
  /\ pc \in {"start", "measure", "write"} => repeat \notin k6

\* What was running when the load started.
ForeignOpen ==
  pc \in {"load", "hung", "measure", "write"} =>
    \A m \in foreign : m < repeat /\ ~evidence[m].done

\* There is a kill only while a load is measured, it comes in time, and before
\* anything is measured.
KillInTime ==
  /\ killed # None =>
       /\ pc \in {"load", "hung", "measure", "write"}
       /\ KillAt <= killed /\ killed <= KillAt + KillLag /\ killed <= clock
  /\ pc = "load" /\ killed = None => clock <= KillAt + KillLag
  /\ pc = "hung" => clock = Duration
  /\ pc \in {"hung", "measure", "write"} => killed # None

\* Behind the kill the pod serves up to Grace ticks, and the ticks from there on in
\* which nobody serves fail.
OutageSeen ==
  killed # None =>
    /\ pod = "stopping" => clock <= killed + Grace
    /\ pod = "starting" => (killed + Grace + 1) .. clock \subseteq load.failing

\* What is written was measured on the whole load, if that ended as it should.
Measured ==
  /\ pc \in {"measure", "write"} /\ exitCode = 0 => clock = Duration
  /\ pc = "write" => report = Recovery(load, killed, clock)

IInv ==
  /\ TypeOK /\ Progress /\ Containers /\ ForeignOpen /\ ForeignLoadExplained
  /\ KillInTime

Seen == OutageSeen /\ Measured

\* A repeat that ended as it should and whose series shows a fault and then a
\* recovery leaves a pod that serves, and the next kill finds it so.
Trusted(n) ==
  \/ n = 0
  \/ evidence[n].done /\ evidence[n].exitCode = 0 /\ evidence[n].recovery = "AFTER"

PodHanded ==
  /\ pc \in {"idle", "make"} /\ Trusted(Len(evidence)) => pod = "serving"
  /\ pc \in {"warm", "start", "load"} /\ killed = None /\ Trusted(repeat - 1) =>
       pod = "serving"
  /\ killed # None /\ Trusted(repeat - 1) => struck

-----------------------------------------------------------------------------

\* A set of natural numbers has its minimum among its elements, and it is the least.
LEMMA MinIsElement ==
  ASSUME NEW S, S \subseteq Nat, S # {}
  PROVE  Min(S) \in S /\ \A y \in S : Min(S) <= y
<1> DEFINE Less == {p \in Nat \X Nat : p[1] < p[2]}
<1>1. IsWellFoundedOn(Less, Nat)
  <2>1. OpToRel(<, Nat) = Less
    BY DEF OpToRel
  <2> QED BY <2>1, NatLessThanWellFounded
<1>2. \E x \in S : \A y \in S : x <= y
  <2> HIDE DEF Less
  <2>1. PICK x \in S : \A y \in S : ~(<<y, x>> \in Less)
    BY <1>1, WFMin
  <2>2. ASSUME NEW y \in S
        PROVE  x <= y
    <3>1. <<y, x>> \in Nat \X Nat /\ ~(<<y, x>> \in Less)
      BY <2>1
    <3>2. ~(y < x)
      BY <3>1 DEF Less
    <3> QED BY <3>2
  <2> QED BY <2>2
<1> QED BY <1>2 DEF Min

\* A bounded one has its maximum among them.
LEMMA MaxIsElement ==
  ASSUME NEW n \in Nat, NEW S, S \subseteq 0 .. n, S # {}
  PROVE  Max(S) \in S /\ \A y \in S : y <= Max(S)
<1> DEFINE M == {n - x : x \in S}
<1>1. M \subseteq Nat /\ M # {}
  <2>1. \A x \in S : n - x \in Nat
    OBVIOUS
  <2> QED BY <2>1
<1>2. Min(M) \in M /\ \A y \in M : Min(M) <= y
  <2> HIDE DEF M
  <2> QED BY <1>1, MinIsElement
<1>3. PICK x \in S : Min(M) = n - x
  BY <1>2
<1>4. \A y \in S : y <= x
  <2> TAKE y \in S
  <2>1. n - y \in M
    OBVIOUS
  <2>2. n - x <= n - y
    BY <1>2, <1>3, <2>1
  <2> QED BY <2>2
<1> QED BY <1>4 DEF Max

LEMMA Steps ==
  /\ ScrapeEvery \in Nat \ {0} /\ RateWindow \in Nat \ {0}
  /\ EvalEvery \in Nat \ {0} /\ Sustained \in Nat \ {0}
  /\ RateWindow = 2 * ScrapeEvery
  /\ EvalEvery <= ScrapeEvery /\ EvalEvery <= Sustained
BY MetricAssumption

\* Two readings that are less than two scrape intervals apart are one apart.
LEMMA NextReading ==
  ASSUME NEW a \in Int, NEW b \in Int, a % ScrapeEvery = b % ScrapeEvery,
         a < b, b < a + 2 * ScrapeEvery
  PROVE  b = a + ScrapeEvery
<1> DEFINE i == a \div ScrapeEvery
           j == b \div ScrapeEvery
<1>1. i \in Int /\ j \in Int /\ ScrapeEvery \in Int /\ ScrapeEvery > 0
  BY Steps
<1>2. a = (ScrapeEvery * i) + (a % ScrapeEvery) /\ b = (ScrapeEvery * j) + (b % ScrapeEvery)
  BY Steps
<1>3. a % ScrapeEvery \in Int
  BY Steps
<1> HIDE DEF i, j
<1>4. b - a = ScrapeEvery * (j - i)
  BY <1>1, <1>2, <1>3
<1>5. j - i = 1
  BY <1>1, <1>4
<1> QED BY <1>1, <1>4, <1>5

\* Evaluation goes on in steps.
LEMMA NextPoint ==
  ASSUME NEW n \in Nat \ {0}, NEW t \in Nat, t % n = 0
  PROVE  (t + n) % n = 0
<1> DEFINE q == t \div n
<1>1. q \in Int /\ t = (n * q) + (t % n)
  OBVIOUS
<1> HIDE DEF q
<1>2. t + n = n * (q + 1)
  BY <1>1
<1> DEFINE u == t + n
           k == u \div n
           m == u % n
<1>3. u \in Int /\ k \in Int /\ m \in 0 .. n - 1 /\ u = (n * k) + m
  OBVIOUS
<1>4. u = n * (q + 1)
  BY <1>2
<1> HIDE DEF k, m, u
<1>5. m = n * (q + 1 - k)
  BY <1>1, <1>3, <1>4
<1>6. m = 0
  BY <1>1, <1>3, <1>5
<1> QED BY <1>6 DEF m, u

\* So two points are a step apart.
LEMMA PointsApart ==
  ASSUME NEW n \in Nat \ {0}, NEW t \in Nat, NEW u \in Nat, t % n = 0, u % n = 0, t < u
  PROVE  t + n <= u
<1> DEFINE i == t \div n
           j == u \div n
<1>1. i \in Int /\ j \in Int /\ t = (n * i) + (t % n) /\ u = (n * j) + (u % n)
  OBVIOUS
<1> HIDE DEF i, j
<1>2. t = n * i /\ u = n * j
  BY <1>1
<1>3. i < j
  BY <1>1, <1>2
<1>4. j - i >= 1 /\ u - t = n * (j - i)
  BY <1>1, <1>2, <1>3
<1>5. n * (j - i) >= n
  BY <1>1, <1>4
<1> QED BY <1>4, <1>5

\* Some scrape, or evaluation, falls into every interval of its period.
LEMMA SomeMultiple ==
  ASSUME NEW n \in Nat \ {0}, NEW p \in 0 .. n - 1, NEW t \in Nat
  PROVE  \E l \in (t - n + 1) .. t : l % n = p
<1> DEFINE q == (t - p) \div n
           r == (t - p) % n
<1>1. q \in Int /\ r \in 0 .. n - 1 /\ t - p = n * q + r
  OBVIOUS
<1> HIDE DEF q, r
<1> DEFINE l == n * q + p
<1>2. l = t - r /\ l \in Int
  BY <1>1
<1>3. l % n = p
  BY <1>1
<1> HIDE DEF l
<1>4. l \in (t - n + 1) .. t
  BY <1>1, <1>2
<1> QED BY <1>3, <1>4

\* A rate is made of more than one reading.
LEMMA TwoReadings ==
  ASSUME NEW l, NEW t \in Nat, HasRate(l, t)
  PROVE  /\ Readings(l, t) \subseteq (t - RateWindow + 1) .. t
         /\ \E a \in Readings(l, t), b \in Readings(l, t) : a < b
<1> DEFINE R == Readings(l, t)
<1>1. R \subseteq (t - RateWindow + 1) .. t
  BY DEF Readings
<1>2. IsFiniteSet(R)
  <2>1. IsFiniteSet((t - RateWindow + 1) .. t)
    BY Steps, FS_Interval
  <2> QED BY <1>1, <2>1, FS_Subset
<1>3. Cardinality(R) \in Nat /\ Cardinality(R) >= 2
  BY <1>2, FS_CardinalityType DEF HasRate
<1>4. \E a \in R, b \in R : a < b
  <2>1. R # {}
    BY <1>3, FS_EmptySet
  <2>2. PICK a \in R : TRUE
    BY <2>1
  <2>3. Cardinality(R \ {a}) = Cardinality(R) - 1
    BY <1>2, FS_RemoveElement
  <2>4. R \ {a} # {}
    BY <1>3, <2>3, FS_EmptySet
  <2>5. PICK b \in R : b # a
    BY <2>4
  <2>6. a \in Int /\ b \in Int
    BY <1>1
  <2> QED BY <2>2, <2>5, <2>6
<1> QED BY <1>1, <1>4

\* They are one scrape interval apart, the later less than one before the rate, which
\* shows the failures between them.
LEMMA RateOfTwo ==
  ASSUME NEW l \in Loads, NEW t \in Nat, RateWindow <= t, HasRate(l, t)
  PROVE  \E s \in Nat : /\ t - ScrapeEvery < s /\ s <= t
                        /\ s % ScrapeEvery = l.phase
                        /\ Above(l, t) <=> \E f \in l.failing : s - ScrapeEvery < f /\ f <= s
<1> DEFINE R == Readings(l, t)
<1>1. R \subseteq (t - RateWindow + 1) .. t
  BY TwoReadings
<1>4. PICK a \in R, b \in R : a < b
  BY TwoReadings
<1>5. \A x \in R : x \in Int /\ t - 2 * ScrapeEvery < x /\ x <= t /\ x % ScrapeEvery = l.phase
  BY Steps, <1>1 DEF Readings
<1>6. b = a + ScrapeEvery
  <2>1. b < a + 2 * ScrapeEvery
    BY <1>5, Steps
  <2> QED BY <1>4, <1>5, <2>1, NextReading
<1>7. R = {a, b}
  <2> SUFFICES ASSUME NEW c \in R, c # a, c # b
               PROVE  FALSE
    OBVIOUS
  <2>1. c < a => a = c + ScrapeEvery
    <3>1. a < c + 2 * ScrapeEvery
      BY <1>5, Steps
    <3> QED BY <1>5, <3>1, NextReading
  <2>2. a < c => c = a + ScrapeEvery
    <3>1. c < a + 2 * ScrapeEvery
      BY <1>5, Steps
    <3> QED BY <1>5, <3>1, NextReading
  <2> QED BY <1>5, <1>6, <2>1, <2>2, Steps
<1> HIDE DEF R
<1>8. R \subseteq 0 .. t /\ R # {}
  BY <1>1, <1>4, Steps
<1>9. Min(R) = a /\ Max(R) = b
  <2>1. Min(R) \in R /\ \A y \in R : Min(R) <= y
    <3>1. R \subseteq Nat
      BY <1>8
    <3> QED BY <1>8, <3>1, MinIsElement
  <2>2. Max(R) \in R /\ \A y \in R : y <= Max(R)
    BY <1>8, MaxIsElement
  <2> QED BY <1>4, <1>5, <1>7, <2>1, <2>2
<1>10. Above(l, t) <=> \E f \in l.failing : b - ScrapeEvery < f /\ f <= b
  <2>1. a = b - ScrapeEvery
    BY <1>5, <1>6, Steps
  <2> QED BY <1>9, <2>1 DEF Above, R
<1>11. t - ScrapeEvery < b /\ b \in Nat
  BY <1>5, <1>6, <1>8, Steps
<1> QED BY <1>5, <1>10, <1>11

\* The latest reading, and the one before it.
LEMMA LatestReadings ==
  ASSUME NEW l \in Loads, NEW t \in Nat, RateWindow <= t
  PROVE  \E s \in Nat : /\ t - ScrapeEvery < s /\ s <= t
                        /\ s % ScrapeEvery = l.phase
                        /\ s - ScrapeEvery \in Nat
                        /\ (s - ScrapeEvery) % ScrapeEvery = l.phase
<1>1. l.phase \in 0 .. ScrapeEvery - 1
  BY DEF Loads
<1>2. PICK s \in (t - ScrapeEvery + 1) .. t : s % ScrapeEvery = l.phase
  BY <1>1, Steps, SomeMultiple
<1>3. t - ScrapeEvery \in Nat
  BY Steps
<1>4. PICK r \in (t - ScrapeEvery - ScrapeEvery + 1) .. (t - ScrapeEvery) :
        r % ScrapeEvery = l.phase
  BY <1>1, <1>3, Steps, SomeMultiple
<1>5. r < s /\ s < r + 2 * ScrapeEvery /\ r \in Nat /\ s \in Nat
  BY Steps
<1>6. s = r + ScrapeEvery
  BY <1>2, <1>4, <1>5, NextReading
<1>7. r = s - ScrapeEvery
  BY <1>5, <1>6, Steps
<1>8. t - ScrapeEvery < s /\ s <= t
  BY Steps
<1>9. s - ScrapeEvery \in Nat /\ (s - ScrapeEvery) % ScrapeEvery = l.phase
  BY <1>4, <1>5, <1>7
<1> QED BY <1>2, <1>5, <1>8, <1>9

\* There is a rate where the last reading but one was made after the counter was there.
LEMMA RateFromReadings ==
  ASSUME NEW l \in Loads, NEW t \in Nat, RateWindow <= t,
         NEW s \in Nat, t - ScrapeEvery < s, s <= t, s % ScrapeEvery = l.phase,
         (s - ScrapeEvery) % ScrapeEvery = l.phase,
         l.counted \/ \E f \in l.failing : f <= s - ScrapeEvery
  PROVE  HasRate(l, t)
<1> DEFINE R == Readings(l, t)
           r == s - ScrapeEvery
<1>1. l.failing \subseteq Nat
  BY DEF Loads
<1>2. s \in (t - RateWindow + 1) .. t /\ r \in (t - RateWindow + 1) .. t /\ r # s
  BY Steps
<1>3. r \in R
  BY <1>2 DEF Readings
<1>4. s \in R
  <2>1. l.counted \/ \E f \in l.failing : f <= s
    BY <1>1, Steps
  <2> QED BY <1>2, <2>1 DEF Readings
<1>5. IsFiniteSet(R)
  <2>1. IsFiniteSet((t - RateWindow + 1) .. t)
    BY Steps, FS_Interval
  <2>2. R \subseteq (t - RateWindow + 1) .. t
    BY DEF Readings
  <2> QED BY <2>1, <2>2, FS_Subset
<1> HIDE DEF R, r
<1>6. Cardinality({r} \cup {s}) <= Cardinality(R)
  <2>1. {r} \cup {s} \subseteq R
    BY <1>3, <1>4
  <2> QED BY <1>5, <2>1, FS_Subset
<1>7. Cardinality({r} \cup {s}) = 2
  <2>1. Cardinality({r}) = 1 /\ IsFiniteSet({r})
    BY FS_Singleton
  <2>2. s \notin {r}
    BY <1>2
  <2> DEFINE one == Cardinality({r})
  <2>3. Cardinality({r} \cup {s}) = one + 1
    BY <2>1, <2>2, FS_AddElement
  <2>4. one = 1
    BY <2>1
  <2> HIDE DEF one
  <2> QED BY <2>3, <2>4
<1>8. Cardinality(R) \in Nat
  BY <1>5, FS_CardinalityType
<1> QED BY <1>6, <1>7, <1>8 DEF HasRate, R

\* A rate there is at t, there is at every later time.
LEMMA RateStays ==
  ASSUME NEW l \in Loads, NEW t \in Nat, NEW u \in Nat, RateWindow <= t, t <= u, HasRate(l, t)
  PROVE  HasRate(l, u)
<1>1. PICK s \in Nat : /\ u - ScrapeEvery < s /\ s <= u
                       /\ s % ScrapeEvery = l.phase
                       /\ s - ScrapeEvery \in Nat
                       /\ (s - ScrapeEvery) % ScrapeEvery = l.phase
  <2>1. RateWindow <= u
    BY Steps
  <2> QED BY <2>1, LatestReadings
<1>2. l.counted \/ \E f \in l.failing : f <= s - ScrapeEvery
  <2>1. PICK a \in Readings(l, t), b \in Readings(l, t) : a < b
    BY TwoReadings
  <2>2. /\ a \in Int /\ b \in Int /\ t - 2 * ScrapeEvery < a /\ b <= t
        /\ a % ScrapeEvery = l.phase /\ b % ScrapeEvery = l.phase
        /\ l.counted \/ \E f \in l.failing : f <= a
    BY Steps DEF Readings
  <2>3. b = a + ScrapeEvery
    <3>1. b < a + 2 * ScrapeEvery
      BY <2>2, Steps
    <3> QED BY <2>1, <2>2, <3>1, NextReading
  <2>4. a <= s - ScrapeEvery
    <3>1. b <= s
      <4> SUFFICES ASSUME s < b
                   PROVE  FALSE
        BY <2>2
      <4>1. b < s + 2 * ScrapeEvery
        BY <1>1, <2>2, Steps
      <4>2. b = s + ScrapeEvery
        BY <1>1, <2>2, <4>1, NextReading
      <4> QED BY <1>1, <2>2, <4>2, Steps
    <3> QED BY <2>2, <2>3, <3>1, Steps
  <2>5. l.failing \subseteq Nat
    BY DEF Loads
  <2> QED BY <1>1, <2>2, <2>4, <2>5, Steps
<1>3. RateWindow <= u
  BY Steps
<1> QED BY <1>1, <1>2, <1>3, RateFromReadings

\* The last reading before a low rate was made before an outage, or the last but one
\* after it.
LEMMA LowRate ==
  ASSUME NEW l \in Loads, NEW t \in Nat, RateWindow <= t, HasRate(l, t), ~Above(l, t),
         NEW b \in Nat, NEW e \in Nat, b <= e, b .. e \subseteq l.failing
  PROVE  \E s \in Nat : /\ t - ScrapeEvery < s /\ s <= t /\ s % ScrapeEvery = l.phase
                        /\ s < b \/ e <= s - ScrapeEvery
<1>1. PICK s \in Nat : /\ t - ScrapeEvery < s /\ s <= t /\ s % ScrapeEvery = l.phase
                       /\ Above(l, t) <=> \E f \in l.failing : s - ScrapeEvery < f /\ f <= s
  BY RateOfTwo
<1>2. s < b \/ e <= s - ScrapeEvery
  <2>1. b <= s /\ s <= e => s \in l.failing
    OBVIOUS
  <2>2. e \in l.failing
    OBVIOUS
  <2> QED BY <1>1, <2>1, <2>2, Steps
<1> QED BY <1>1, <1>2

\* What is reported is a point of the series from which on its rate was low, and the
\* first such point.
LEMMA ReportIsPoint ==
  ASSUME NEW l, NEW killedAt \in Nat, NEW end
  PROVE  LET p == Points(l, killedAt, end)
             r == Recovery(l, killedAt, end)
         IN /\ r # None => r \in p /\ Recovered(l, p, r)
            /\ \A t \in p : Recovered(l, p, t) => r # None /\ r <= t
<1> DEFINE p == Points(l, killedAt, end)
           found == {t \in p : Recovered(l, p, t)}
<1>1. found \subseteq Nat
  BY DEF Points
<1>2. found = {} => Recovery(l, killedAt, end) = None
  BY DEF Recovery
<1>3. found # {} => Recovery(l, killedAt, end) = Min(found)
  BY DEF Recovery
<1> DEFINE r == Recovery(l, killedAt, end)
<1> HIDE DEF r
<1>4. found # {} => r \in found /\ (\A y \in found : r <= y) /\ r # None
  <2> HIDE DEF found
  <2>1. found # {} => Min(found) \in found /\ \A y \in found : Min(found) <= y
    BY <1>1, MinIsElement
  <2> QED BY <1>1, <1>3, <2>1 DEF None, r
<1> QED BY <1>2, <1>4 DEF r

\* The report lies a scrape interval or more behind an outage, or comes before a reading
\* shows it, and then nothing looked at the next point.
LEMMA ReportBehindOutage ==
  ASSUME NEW l \in Loads, NEW killedAt \in Nat, RateWindow <= killedAt, NEW end \in Nat,
         Recovery(l, killedAt, end) # None,
         NEW b \in Nat, NEW e \in Nat, b <= e, b .. e \subseteq l.failing
  PROVE  LET r == Recovery(l, killedAt, end)
         IN \/ r >= e + ScrapeEvery
            \/ /\ r < b - 1 + ScrapeEvery
               /\ \/ r + EvalEvery < b - 1 + ScrapeEvery
                  \/ r + EvalEvery > end
<1> DEFINE r == Recovery(l, killedAt, end)
           p == Points(l, killedAt, end)
<1>1. r \in p /\ Recovered(l, p, r)
  BY ReportIsPoint
<1> HIDE DEF r
<1>2. /\ r \in Nat /\ killedAt <= r /\ r <= end
      /\ r % EvalEvery = 0 /\ HasRate(l, r)
  BY <1>1 DEF Points
<1>3. RateWindow <= r
  BY <1>2, Steps
<1>4. ~Above(l, r)
  BY <1>1, <1>2, Steps DEF Recovered
<1>5. PICK s \in Nat : /\ r - ScrapeEvery < s /\ s <= r /\ s % ScrapeEvery = l.phase
                       /\ s < b \/ e <= s - ScrapeEvery
  BY <1>2, <1>3, <1>4, LowRate
<1>6. CASE e <= s - ScrapeEvery
  BY <1>2, <1>5, <1>6, Steps DEF r
<1>7. CASE s < b /\ r + EvalEvery > end
  BY <1>2, <1>5, <1>7, Steps DEF r
<1>8. CASE s < b /\ r + EvalEvery <= end
  <2> DEFINE u == r + EvalEvery
  <2>1. /\ u \in Nat /\ r <= u /\ u <= r + Sustained /\ killedAt <= u /\ RateWindow <= u
        /\ u <= r + ScrapeEvery
    BY <1>2, <1>3, Steps
  <2>2. u % EvalEvery = 0
    BY <1>2, Steps, NextPoint
  <2>3. HasRate(l, u)
    BY <1>2, <1>3, <2>1, RateStays
  <2>4. u \in p
    BY <1>8, <2>1, <2>2, <2>3 DEF Points
  <2> HIDE DEF u, p
  <2>5. ~Above(l, u)
    BY <1>1, <2>1, <2>4 DEF Recovered
  <2>6. PICK v \in Nat : /\ u - ScrapeEvery < v /\ v <= u /\ v % ScrapeEvery = l.phase
                         /\ v < b \/ e <= v - ScrapeEvery
    BY <2>1, <2>3, <2>5, LowRate
  <2>7. v <= s + ScrapeEvery
    <3>1. v < s + 2 * ScrapeEvery
      BY <1>2, <1>5, <2>1, <2>6, Steps
    <3>2. s < v => v = s + ScrapeEvery
      BY <1>5, <2>6, <3>1, NextReading
    <3> QED BY <3>2, Steps
  <2>8. v < b
    BY <1>8, <2>6, <2>7, Steps
  <2>9. u < b - 1 + ScrapeEvery
    BY <2>1, <2>6, <2>8, Steps
  <2> QED BY <1>2, <2>9, Steps DEF u, r
<1> QED BY <1>2, <1>5, <1>6, <1>7, <1>8, Steps

\* Two scrapes behind the last failure the rate is low and stays low: a load that goes
\* on for an evaluation step from there, or from the kill, reports a recovery.
LEMMA ReportInTime ==
  ASSUME NEW l \in Loads, NEW killedAt \in Nat, RateWindow <= killedAt, NEW end \in Nat,
         NEW e \in l.failing, \A f \in l.failing : f <= e,
         NEW from \in Nat, killedAt <= from, e + 2 * ScrapeEvery <= from,
         from + EvalEvery <= end
  PROVE  LET r == Recovery(l, killedAt, end)
         IN r # None /\ r < from + EvalEvery
<1> DEFINE r == Recovery(l, killedAt, end)
           p == Points(l, killedAt, end)
<1>1. l.failing \subseteq Nat
  BY DEF Loads
<1>2. PICK t \in Int : from <= t /\ t < from + EvalEvery /\ t % EvalEvery = 0
  <2> DEFINE u == from + EvalEvery - 1
  <2>1. u \in Nat /\ 0 \in 0 .. EvalEvery - 1
    BY Steps
  <2> HIDE DEF u
  <2>2. PICK t \in (u - EvalEvery + 1) .. u : t % EvalEvery = 0
    BY <2>1, Steps, SomeMultiple
  <2>3. t \in Int /\ from <= t /\ t < from + EvalEvery
    BY <2>1, <2>2, Steps DEF u
  <2> QED BY <2>2, <2>3
<1>3. t \in Nat /\ from <= t /\ t < from + EvalEvery /\ t <= end
  BY <1>2, Steps
<1>4. HasRate(l, t)
  <2>1. RateWindow <= t
    BY <1>3, Steps
  <2>2. PICK s \in Nat : /\ t - ScrapeEvery < s /\ s <= t
                         /\ s % ScrapeEvery = l.phase
                         /\ s - ScrapeEvery \in Nat
                         /\ (s - ScrapeEvery) % ScrapeEvery = l.phase
    BY <1>3, <2>1, LatestReadings
  <2>3. e <= s - ScrapeEvery
    BY <1>1, <1>3, <2>2, Steps
  <2> QED BY <1>3, <2>1, <2>2, <2>3, RateFromReadings
<1>5. t \in p
  BY <1>2, <1>3, <1>4 DEF Points
<1>6. Recovered(l, p, t)
  <2> SUFFICES ASSUME NEW x \in p, t <= x
               PROVE  ~Above(l, x)
    BY DEF Recovered
  <2>1. x \in Nat /\ HasRate(l, x) /\ RateWindow <= x
    BY <1>3, Steps DEF Points
  <2>2. PICK s \in Nat : /\ x - ScrapeEvery < s /\ s <= x
                         /\ Above(l, x) <=> \E f \in l.failing : s - ScrapeEvery < f /\ f <= s
    BY <2>1, RateOfTwo
  <2>3. \A f \in l.failing : f <= s - ScrapeEvery
    BY <1>1, <1>3, <2>1, <2>2, Steps
  <2> QED BY <1>1, <2>2, <2>3, Steps
<1>7. r # None /\ r <= t
  BY <1>5, <1>6, ReportIsPoint
<1>8. r \in Nat
  <2>1. r \in p
    BY <1>7, ReportIsPoint
  <2> QED BY <2>1 DEF Points
<1> HIDE DEF r
<1>9. r # None /\ r < from + EvalEvery
  BY <1>3, <1>7, <1>8, Steps
<1> QED BY <1>9 DEF r

-----------------------------------------------------------------------------

LEMMA Bounds ==
  /\ ScrapeEvery \in Nat \ {0}
  /\ KillAt \in Nat /\ KillLag \in Nat /\ Grace \in Nat /\ Duration \in Nat
  /\ MaxRepeats \in Nat /\ MaxFaults \in Nat
  /\ KillAt + KillLag < Duration
BY MetricAssumption, PodKillAssumption

LEMMA RecoveryType ==
  ASSUME NEW killedAt \in Nat, NEW end \in 0 .. Duration, NEW l
  PROVE  Recovery(l, killedAt, end) \in Ticks \cup {None}
<1> DEFINE found == {t \in Points(l, killedAt, end) : Recovered(l, Points(l, killedAt, end), t)}
<1>1. found \subseteq Ticks
  BY Bounds DEF Points, Ticks
<1>2. CASE found = {}
  BY <1>2 DEF Recovery
<1>3. CASE found # {}
  <2>1. Min(found) \in found
    <3>1. found \subseteq Nat
      BY <1>1, Bounds DEF Ticks
    <3> HIDE DEF found
    <3> QED BY <1>3, <3>1, MinIsElement
  <2> QED BY <1>1, <1>3, <2>1 DEF Recovery
<1> QED BY <1>2, <1>3

LEMMA NoLoadType == NoLoad \in Loads /\ NoLoad.failing = {}
BY Bounds DEF NoLoad, Loads

LEMMA InitIInv == Init => IInv
<1> SUFFICES ASSUME Init
             PROVE  IInv
  OBVIOUS
<1>1. load \in Loads /\ load.failing \subseteq 1 .. Duration
  BY NoLoadType DEF Init
<1>2. evidence \in Seq(Result)
  BY DEF Init
<1>3. TypeOK
  <2>1. Len(evidence) = 0 /\ k6 \subseteq DOMAIN evidence /\ foreign \subseteq DOMAIN evidence
    BY DEF Init
  <2>2. /\ pc = "idle" /\ left = 0 /\ clock = 0 /\ exitCode = 0 /\ pod = "serving"
        /\ killed = None /\ report = None /\ faults = 0
    BY DEF Init
  <2>3. struck \in BOOLEAN /\ counted \in BOOLEAN
    BY Zenon DEF Init
  <2> QED BY <1>1, <1>2, <2>1, <2>2, <2>3, Bounds DEF TypeOK, Ticks
<1>4. Progress /\ Containers /\ ForeignOpen /\ KillInTime /\ ForeignLoadExplained
  BY DEF Init, Progress, Containers, ForeignOpen, KillInTime, ForeignLoadExplained, None
<1> QED BY <1>3, <1>4 DEF IInv

-----------------------------------------------------------------------------

\* When a launch ends, whatever it knew goes with it.
LEMMA ExitIInv ==
  ASSUME IInv, Exit, UNCHANGED evidence, k6' \subseteq k6, faults' \in 0 .. MaxFaults,
         pod' \in {"serving", "stopping", "starting"}
  PROVE  IInv'
<1>1. load' \in Loads /\ load'.failing \subseteq 1 .. Duration
  BY NoLoadType DEF Exit, Forget
<1>2. /\ pc' = "idle" /\ left' = 0 /\ clock' = 0 /\ killed' = None /\ report' = None
      /\ exitCode' = 0 /\ foreign' = {}
  BY DEF Exit, Forget
<1>3. struck' \in BOOLEAN /\ counted' \in BOOLEAN
  BY Zenon DEF Exit, Forget
<1>4. TypeOK'
  BY <1>1, <1>2, <1>3, Bounds DEF IInv, TypeOK, Ticks
<1> QED
  BY <1>2, <1>4
     DEF IInv, Progress, Containers, ForeignOpen, KillInTime, ForeignLoadExplained, None

\* Steps that end a launch.
LEMMA EndsIInv ==
  ASSUME IInv,
         WarmupFails \/ KillFails \/ TimeoutExpired \/ MeasureRaises \/ Crash
  PROVE  IInv'
<1>1. k6' \subseteq k6 /\ Exit /\ UNCHANGED evidence
  BY DEF WarmupFails, KillFails, TimeoutExpired, MeasureRaises, Crash
<1>2. faults' \in 0 .. MaxFaults
  BY Bounds
     DEF IInv, TypeOK, Fault, WarmupFails, KillFails, TimeoutExpired, MeasureRaises, Crash
<1>3. pod' \in {"serving", "stopping", "starting"}
  BY DEF IInv, TypeOK, WarmupFails, KillFails, TimeoutExpired, MeasureRaises, Crash
<1> QED BY <1>1, <1>2, <1>3, ExitIInv

LEMMA LaunchIInv ==
  ASSUME IInv, Launch
  PROVE  IInv'
BY Bounds
   DEF IInv, TypeOK, Progress, Containers, ForeignOpen, KillInTime, ForeignLoadExplained, Launch,
       process, prometheus, history

\* Repeats whose load was found beside another have directories themselves.
LEMMA ForeignHasDirectory ==
  ASSUME TypeOK, ForeignLoadExplained,
         NEW n \in DOMAIN evidence, NEW m \in evidence[n].foreign
  PROVE  m \in DOMAIN evidence /\ m < n /\ ~evidence[m].done
<1>1. n \in 1 .. Len(evidence) /\ DOMAIN evidence = 1 .. Len(evidence) /\ Len(evidence) \in Nat
  BY DEF TypeOK
<1>2. m \in 1 .. MaxRepeats
  <2>1. evidence[n] \in Result
    BY <1>1 DEF TypeOK
  <2> QED BY <2>1 DEF Result
<1>3. m < n /\ ~evidence[m].done
  BY DEF ForeignLoadExplained
<1> QED BY <1>1, <1>2, <1>3, Bounds

\* A new directory has the next number, and its container is the only new one.
LEMMA MakeIInv ==
  ASSUME IInv, Make
  PROVE  IInv'
<1> DEFINE new == [done |-> FALSE, exitCode |-> 0, recovery |-> "NONE", foreign |-> {},
                   struck |-> FALSE]
<1>1. /\ repeat = Len(evidence) + 1
      /\ evidence' = Append(evidence, new)
      /\ UNCHANGED <<repeat, left, killed, clock, foreign, load, report, exitCode, pod>>
      /\ UNCHANGED <<struck, faults, counted>>
      /\ k6' = k6 \cup {repeat} /\ pc' = "warm"
  BY DEF IInv, TypeOK, Make, process, prometheus, history
<1>2. new \in Result
  BY DEF Result
<1>3. /\ evidence' \in Seq(Result)
      /\ Len(evidence') = repeat
      /\ DOMAIN evidence' = DOMAIN evidence \cup {repeat}
      /\ \A n \in DOMAIN evidence : n < repeat /\ evidence'[n] = evidence[n]
      /\ evidence'[repeat] = new
  BY <1>1, <1>2 DEF IInv, TypeOK
<1>4. TypeOK'
  BY <1>1, <1>3, Bounds DEF IInv, TypeOK, Progress, Make
<1>5. Progress' /\ Containers' /\ ForeignOpen' /\ KillInTime'
  BY <1>1, <1>3 DEF IInv, TypeOK, Make, Progress, Containers, ForeignOpen, KillInTime
<1>6. ForeignLoadExplained'
  <2> SUFFICES ASSUME NEW n \in DOMAIN evidence', NEW m \in evidence'[n].foreign
               PROVE  m < n /\ ~evidence'[m].done
    BY DEF ForeignLoadExplained
  <2>1. n \in DOMAIN evidence
    BY <1>3
  <2>2. m \in DOMAIN evidence /\ m < n /\ ~evidence[m].done
    BY <1>3, <2>1, ForeignHasDirectory DEF IInv
  <2> QED BY <1>3, <2>2
<1> QED BY <1>4, <1>5, <1>6 DEF IInv

LEMMA EndWarmupIInv ==
  ASSUME IInv, EndWarmup
  PROVE  IInv'
BY Bounds
   DEF IInv, TypeOK, Progress, Containers, ForeignOpen, KillInTime, ForeignLoadExplained,
       EndWarmup, Fault, process, prometheus, history, Loads, Ticks, None

LEMMA StartLoadIInv ==
  ASSUME IInv, StartLoad
  PROVE  IInv'
<1>1. load' \in Loads /\ load'.failing \subseteq 1 .. Duration
  <2>1. PICK p \in 0 .. ScrapeEvery - 1 :
          load' = [NoLoad EXCEPT !.counted = counted, !.phase = p]
    BY DEF StartLoad
  <2>2. counted \in BOOLEAN
    BY DEF IInv, TypeOK
  <2> QED BY <2>1, <2>2, NoLoadType DEF Loads
<1>2. TypeOK'
  <2>1. repeat \in DOMAIN evidence
    BY DEF IInv, TypeOK, Progress, StartLoad
  <2> QED BY <1>1, <2>1, Bounds, SMTT(30) DEF IInv, TypeOK, StartLoad, process, Ticks
<1>3. ForeignOpen'
  <2>1. \A m \in k6 : m \in 1 .. Len(evidence) /\ m # repeat
    BY DEF IInv, TypeOK, Containers, StartLoad
  <2> QED
    BY <2>1 DEF IInv, TypeOK, Progress, Containers, ForeignOpen, StartLoad, process
<1> QED
  BY <1>2, <1>3, Bounds
     DEF IInv, Progress, Containers, KillInTime, ForeignLoadExplained, StartLoad, process

LEMMA TickIInv ==
  ASSUME IInv, Tick
  PROVE  IInv'
<1>1. clock' \in 1 .. Duration /\ (killed = None => clock' <= KillAt + KillLag)
  <2>1. clock \in Nat /\ clock' = clock + 1 /\ clock < Duration
    BY Bounds DEF IInv, TypeOK, Tick, Ticks
  <2>2. killed = None => clock < KillAt + KillLag
    BY DEF Tick
  <2> QED BY <2>1, <2>2, Bounds
<1>2. load' \in Loads /\ load'.failing \subseteq 1 .. Duration
  <2>1. load'.failing \subseteq load.failing \cup {clock'}
    BY DEF IInv, TypeOK, Tick, Loads
  <2> QED BY <1>1, <2>1 DEF IInv, TypeOK, Tick, Loads
<1>3. TypeOK'
  <2>1. /\ UNCHANGED <<evidence, pc, repeat, left, killed, report, exitCode, k6, pod>>
        /\ UNCHANGED <<counted, foreign, struck, faults>>
    BY DEF Tick, process, history
  <2>2. clock' \in Ticks
    BY <1>1, Bounds DEF Ticks
  <2> QED BY <1>2, <2>1, <2>2 DEF IInv, TypeOK
<1>4. KillInTime'
  BY <1>1, Bounds, SMTT(30) DEF IInv, TypeOK, KillInTime, Tick, process, Ticks, None
<1> QED
  BY <1>3, <1>4
     DEF IInv, Progress, Containers, ForeignOpen, ForeignLoadExplained, Tick, process,
         prometheus, history

LEMMA KillIInv ==
  ASSUME IInv, Kill
  PROVE  IInv'
BY Bounds
   DEF IInv, TypeOK, Progress, Containers, ForeignOpen, KillInTime, ForeignLoadExplained,
       Kill, Fault, process, prometheus, history, Loads, Ticks, None

LEMMA LoadBreaksIInv ==
  ASSUME IInv, LoadBreaks
  PROVE  IInv'
BY Bounds
   DEF IInv, TypeOK, Progress, Containers, ForeignOpen, KillInTime, ForeignLoadExplained,
       LoadBreaks, Fault, process, prometheus, history, Loads, Ticks, None

LEMMA EndLoadIInv ==
  ASSUME IInv, EndLoad
  PROVE  IInv'
BY Bounds
   DEF IInv, TypeOK, Progress, Containers, ForeignOpen, KillInTime, ForeignLoadExplained,
       EndLoad, Fault, process, prometheus, history, Loads, Ticks, None

LEMMA LoadHangsIInv ==
  ASSUME IInv, LoadHangs
  PROVE  IInv'
BY Bounds
   DEF IInv, TypeOK, Progress, Containers, ForeignOpen, KillInTime, ForeignLoadExplained,
       LoadHangs, Fault, process, prometheus, history, Loads, Ticks, None

LEMMA MeasureIInv ==
  ASSUME IInv, Measure
  PROVE  IInv'
BY Bounds, RecoveryType, SMTT(30)
   DEF IInv, TypeOK, Progress, Containers, ForeignOpen, KillInTime, ForeignLoadExplained,
       Measure, Fault, process, prometheus, history, Loads, Ticks, None

LEMMA OrphanEndsIInv ==
  ASSUME IInv, OrphanEnds
  PROVE  IInv'
BY Bounds, SMTT(30)
   DEF IInv, TypeOK, Progress, Containers, ForeignOpen, KillInTime, ForeignLoadExplained,
       OrphanEnds, Fault, process, prometheus, history, Loads, Ticks, None

LEMMA StopServingIInv ==
  ASSUME IInv, StopServing
  PROVE  IInv'
BY Bounds
   DEF IInv, TypeOK, Progress, Containers, ForeignOpen, KillInTime, ForeignLoadExplained,
       StopServing, Fault, process, prometheus, history, Loads, Ticks, None

LEMMA StartServingIInv ==
  ASSUME IInv, StartServing
  PROVE  IInv'
<1>1. counted' \in BOOLEAN
  BY Zenon DEF StartServing
<1>2. TypeOK'
  BY <1>1 DEF IInv, TypeOK, StartServing, process, history
<1> QED
  BY <1>2
     DEF IInv, Progress, Containers, ForeignOpen, KillInTime, ForeignLoadExplained, StartServing,
         process, history

\* A result is filed in the directory of this repeat, whose container has ended; the
\* directories that it names, and those that name others, stay as they are.
LEMMA WriteIInv ==
  ASSUME IInv, Write
  PROVE  IInv'
<1>1. repeat \in DOMAIN evidence /\ repeat = Len(evidence) /\ ~evidence[repeat].done
  BY DEF IInv, TypeOK, Progress, Write
<1> DEFINE filed == [done |-> TRUE, exitCode |-> exitCode, recovery |-> Verdict,
                     foreign |-> foreign, struck |-> struck]
<1>2. evidence' = [evidence EXCEPT ![repeat] = filed]
  BY DEF Write
<1>3. filed \in Result
  <2>1. foreign \in SUBSET (1 .. MaxRepeats)
    BY Bounds DEF IInv, TypeOK
  <2>2. Verdict \in {"NONE", "AFTER", "UNSEEN"}
    BY DEF Verdict
  <2>3. exitCode \in {0, 1} /\ struck \in BOOLEAN
    BY DEF IInv, TypeOK
  <2> QED BY <2>1, <2>2, <2>3 DEF Result
<1>4. /\ evidence' \in Seq(Result)
      /\ Len(evidence') = Len(evidence) /\ DOMAIN evidence' = DOMAIN evidence
      /\ \A n \in DOMAIN evidence : n # repeat => evidence'[n] = evidence[n]
      /\ evidence'[repeat].foreign = foreign
  BY <1>1, <1>2, <1>3 DEF IInv, TypeOK
<1>5. /\ UNCHANGED <<k6, pod, faults>> /\ Forget
      /\ load' \in Loads /\ load'.failing = {}
  BY NoLoadType DEF Write, Exit, Forget
<1>6. clock' = 0 /\ killed' = None /\ report' = None /\ exitCode' = 0 /\ foreign' = {}
  BY <1>5 DEF Forget
<1>7. struck' \in BOOLEAN /\ counted' \in BOOLEAN
  BY <1>5, Zenon DEF Forget
<1>8. /\ pc' \in {"idle", "make"} /\ left' \in 0 .. MaxRepeats
      /\ pc' = "make" => /\ repeat' = Len(evidence') + 1 /\ left' \in 1 .. MaxRepeats
                         /\ repeat' \in 1 .. MaxRepeats /\ repeat' + left' <= MaxRepeats + 1
  <2>1. /\ repeat \in 1 .. MaxRepeats /\ left \in 1 .. MaxRepeats
        /\ repeat + left <= MaxRepeats + 1
    BY DEF IInv, Progress, Write
  <2>2. CASE left = 1
    <3>1. pc' = "idle" /\ left' = 0
      BY <2>2 DEF Write, Exit
    <3> QED BY <3>1, Bounds
  <2>3. CASE left > 1
    <3>1. pc' = "make" /\ repeat' = repeat + 1 /\ left' = left - 1
      BY <2>3 DEF Write
    <3> QED BY <1>1, <1>4, <2>1, <2>3, <3>1, Bounds
  <2> QED BY <2>1, <2>2, <2>3
<1>9. TypeOK' /\ Progress'
  BY <1>4, <1>5, <1>6, <1>7, <1>8, Bounds DEF IInv, TypeOK, Progress, Ticks
<1>10. Containers' /\ ForeignOpen' /\ KillInTime'
  <2>1. \A n \in k6 : n \in DOMAIN evidence /\ n # repeat
    BY DEF IInv, TypeOK, Containers, Write
  <2> QED
    BY <1>4, <1>5, <1>6, <1>8, <2>1
       DEF IInv, Containers, ForeignOpen, KillInTime, None
<1>11. ForeignLoadExplained'
  <2> SUFFICES ASSUME NEW n \in DOMAIN evidence', NEW m \in evidence'[n].foreign
               PROVE  m < n /\ ~evidence'[m].done
    BY DEF ForeignLoadExplained
  <2>1. CASE n = repeat
    <3>1. m \in DOMAIN evidence /\ m < repeat /\ ~evidence[m].done
      BY <1>4, <2>1 DEF IInv, TypeOK, ForeignOpen, Write
    <3>2. m # repeat
      BY <1>1, <3>1 DEF IInv, TypeOK
    <3> QED BY <1>4, <2>1, <3>1, <3>2
  <2>2. CASE n # repeat
    <3>1. m \in DOMAIN evidence /\ m < n /\ ~evidence[m].done
      BY <1>4, <2>2, ForeignHasDirectory DEF IInv
    <3>2. m # repeat
      BY <1>1, <1>4, <3>1 DEF IInv, TypeOK
    <3> QED BY <1>4, <3>1, <3>2
  <2> QED BY <2>1, <2>2
<1> QED BY <1>9, <1>10, <1>11 DEF IInv

LEMMA StepIInv == IInv /\ [Next]_vars => IInv'
<1> SUFFICES ASSUME IInv, [Next]_vars
             PROVE  IInv'
  OBVIOUS
<1>1. CASE Step
  BY <1>1, EndsIInv, MakeIInv, EndWarmupIInv, StartLoadIInv, TickIInv, KillIInv, EndLoadIInv,
     MeasureIInv, WriteIInv
     DEF Step
<1>2. CASE Failure
  BY <1>2, EndsIInv, LoadBreaksIInv, LoadHangsIInv DEF Failure
<1>3. CASE Launch \/ OrphanEnds \/ StopServing \/ StartServing
  BY <1>3, LaunchIInv, OrphanEndsIInv, StopServingIInv, StartServingIInv
<1>4. CASE UNCHANGED vars
  BY <1>4
     DEF IInv, TypeOK, Progress, Containers, ForeignOpen, KillInTime, ForeignLoadExplained,
         vars, process, prometheus, history
<1> QED BY <1>1, <1>2, <1>3, <1>4 DEF Next

LEMMA Invariance == Spec => []IInv
BY InitIInv, StepIInv, PTL DEF Spec

-----------------------------------------------------------------------------

LEMMA InitSeen == Init => Seen
BY DEF Init, Seen, OutageSeen, Measured, None

\* No kill, nothing seen of it.
LEMMA ForgetSeen ==
  ASSUME killed' = None, pc' \notin {"measure", "write"}
  PROVE  Seen'
BY DEF Seen, OutageSeen, Measured

\* The pod is deleted at the kill at the latest: nothing lies behind that yet.
LEMMA KillSeen ==
  ASSUME IInv, Seen, Kill
  PROVE  Seen'
<1>1. /\ killed' = clock /\ clock' = clock /\ clock \in Nat
      /\ pc' = "load"
  BY Bounds DEF IInv, TypeOK, Kill, Ticks
<1>2. clock <= clock + Grace /\ (clock + Grace + 1) .. clock = {}
  BY <1>1, Bounds
<1> QED BY <1>1, <1>2 DEF Seen, OutageSeen, Measured

\* A tick in which nobody serves fails, as the container of this repeat runs.
LEMMA TickSeen ==
  ASSUME IInv, Seen, Tick
  PROVE  Seen'
<1>1. /\ pc' = "load" /\ clock \in Nat /\ clock' = clock + 1
      /\ UNCHANGED <<killed, pod, k6>>
  BY Bounds DEF IInv, TypeOK, Tick, Ticks, process
<1>2. Measured'
  BY <1>1 DEF Measured
<1>3. ASSUME killed # None, pod = "stopping"
      PROVE  clock' <= killed' + Grace
  <2>1. killed \in Nat /\ clock < killed + Grace
    BY <1>3, Bounds DEF IInv, TypeOK, Tick, Ticks
  <2> QED BY <1>1, <2>1, Bounds
<1>4. ASSUME killed # None, pod = "starting"
      PROVE  (killed' + Grace + 1) .. clock' \subseteq load'.failing
  <2>1. killed \in Nat /\ k6 # {}
    BY <1>3, <1>4, Bounds DEF IInv, TypeOK, Tick, Ticks
  <2>2. load'.failing = load.failing \cup {clock + 1}
    BY <1>4, <2>1 DEF IInv, TypeOK, Loads, Tick
  <2>3. (killed + Grace + 1) .. clock \subseteq load.failing
    BY <1>4 DEF Seen, OutageSeen
  <2> QED BY <1>1, <2>1, <2>2, <2>3, Bounds
<1>5. OutageSeen'
  BY <1>1, <1>3, <1>4 DEF OutageSeen
<1> QED BY <1>2, <1>5 DEF Seen

\* From then on nothing fails before somebody serves.
LEMMA StopServingSeen ==
  ASSUME IInv, Seen, StopServing
  PROVE  Seen'
<1>1. /\ UNCHANGED <<pc, clock, killed, exitCode, report, load>>
      /\ pod = "stopping"
  BY DEF StopServing, process, prometheus
<1>2. ASSUME killed # None
      PROVE  (killed + Grace + 1) .. clock = {}
  <2>1. clock <= killed + Grace /\ killed \in Nat /\ clock \in Nat
    BY <1>1, <1>2, Bounds DEF IInv, TypeOK, Ticks, Seen, OutageSeen
  <2> QED BY <2>1, Bounds
<1>3. OutageSeen'
  BY <1>1, <1>2 DEF OutageSeen, StopServing
<1> QED BY <1>1, <1>3 DEF Seen, Measured

LEMMA StartServingSeen ==
  ASSUME Seen, StartServing
  PROVE  Seen'
BY DEF Seen, OutageSeen, Measured, StartServing, process

\* The load, as it was at its end, is what is measured.
LEMMA MeasuredSeen ==
  ASSUME IInv, Seen, EndLoad \/ LoadHangs \/ LoadBreaks \/ Measure
  PROVE  Seen'
<1>1. CASE EndLoad
  BY <1>1 DEF Seen, OutageSeen, Measured, EndLoad, prometheus
<1>2. CASE LoadHangs
  BY <1>2 DEF Seen, OutageSeen, Measured, LoadHangs, process, prometheus
<1>3. CASE LoadBreaks
  BY <1>3 DEF Seen, OutageSeen, Measured, LoadBreaks, process, prometheus
<1>4. CASE Measure
  <2>1. /\ UNCHANGED <<killed, exitCode, clock, pod, load>>
        /\ pc = "measure" /\ pc' = "write" /\ report' = Recovery(load, killed, clock)
    BY <1>4 DEF Measure, prometheus
  <2>2. OutageSeen'
    BY <2>1 DEF Seen, OutageSeen
  <2>3. report' = Recovery(load', killed', clock')
    BY <2>1
  <2>4. Measured'
    BY <2>1, <2>3 DEF Seen, Measured
  <2> QED BY <2>2, <2>4 DEF Seen
<1> QED BY <1>1, <1>2, <1>3, <1>4

LEMMA StepSeen == IInv /\ Seen /\ [Next]_vars => Seen'
<1> SUFFICES ASSUME IInv, Seen, [Next]_vars
             PROVE  Seen'
  OBVIOUS
<1>1. CASE Launch \/ Make \/ EndWarmup \/ StartLoad
  <2>1. killed = None
    BY <1>1 DEF IInv, KillInTime, Launch, Make, EndWarmup, StartLoad
  <2>2. killed' = None /\ pc' \notin {"measure", "write"}
    BY <1>1, <2>1 DEF Launch, Make, EndWarmup, StartLoad, process
  <2> QED BY <2>2, ForgetSeen
<1>2. CASE Write \/ TimeoutExpired \/ WarmupFails \/ KillFails \/ MeasureRaises \/ Crash
  <2>1. killed' = None /\ pc' \notin {"measure", "write"}
    BY <1>2
       DEF Write, TimeoutExpired, WarmupFails, KillFails, MeasureRaises, Crash, Exit, Forget
  <2> QED BY <2>1, ForgetSeen
<1>3. CASE Tick \/ Kill \/ EndLoad \/ LoadHangs \/ LoadBreaks \/ Measure
  BY <1>3, TickSeen, KillSeen, MeasuredSeen
<1>4. CASE OrphanEnds
  BY <1>4 DEF Seen, OutageSeen, Measured, OrphanEnds, process, prometheus
<1>5. CASE StopServing \/ StartServing
  BY <1>5, StopServingSeen, StartServingSeen
<1>6. CASE UNCHANGED vars
  BY <1>6 DEF Seen, OutageSeen, Measured, vars, process, prometheus
<1> QED BY <1>1, <1>2, <1>3, <1>4, <1>5, <1>6 DEF Next, Step, Failure

LEMMA SeenInvariance == Spec => [](IInv /\ Seen)
<1>1. Init => IInv /\ Seen
  BY InitIInv, InitSeen
<1>2. IInv /\ Seen /\ [Next]_vars => (IInv /\ Seen)'
  BY StepIInv, StepSeen
<1> QED BY <1>1, <1>2, PTL DEF Spec

\* What a written repeat was measured from.
LEMMA WrittenReport ==
  ASSUME IInv, Seen, pc = "write"
  PROVE  /\ load \in Loads /\ killed \in Nat /\ clock \in Nat /\ RateWindow <= killed
         /\ killed <= KillAt + KillLag /\ clock <= Duration
         /\ report = Recovery(load, killed, clock)
<1>1. killed # None /\ killed \in Nat /\ clock \in Nat /\ clock <= Duration
  BY Bounds DEF IInv, TypeOK, KillInTime, Ticks
<1>2. RateWindow <= KillAt
  BY PodKillAssumption
<1> QED BY <1>1, <1>2, Bounds, Steps DEF IInv, TypeOK, KillInTime, Seen, Measured

\* The last outage of a load: its ends are among the failing ticks, and so is
\* everything between them.
LEMMA LastOutage ==
  ASSUME TypeOK, load.failing # {}
  PROVE  /\ OutageEnds \in load.failing /\ \A f \in load.failing : f <= OutageEnds
         /\ OutageBegins \in Nat /\ OutageEnds \in Nat /\ OutageBegins <= OutageEnds
         /\ OutageBegins .. OutageEnds \subseteq load.failing
<1> DEFINE F == load.failing
           E == OutageEnds
           begins == {b \in F : b .. E \subseteq F}
<1>1. F \subseteq 0 .. Duration /\ F # {} /\ F \subseteq Nat
  BY Bounds DEF TypeOK
<1>2. E \in F /\ \A f \in F : f <= E
  BY <1>1, Bounds, MaxIsElement DEF OutageEnds
<1> HIDE DEF E
<1>3. E \in begins
  <2>1. E .. E = {E}
    BY <1>1, <1>2
  <2> QED BY <1>2, <2>1
<1>4. Min(begins) \in begins
  <2>1. begins \subseteq Nat /\ begins # {}
    BY <1>1, <1>3
  <2> HIDE DEF begins
  <2> QED BY <2>1, MinIsElement
<1>5. OutageBegins = Min(begins)
  BY DEF OutageBegins, E
<1> QED BY <1>1, <1>2, <1>4, <1>5 DEF E

\* A report is behind the outage, or nothing could show it yet.
LEMMA FollowsOutage == IInv /\ Seen => RecoveryFollowsOutage
<1> SUFFICES ASSUME IInv, Seen, pc = "write", report # None, load.failing # {}
             PROVE  \/ report >= OutageEnds + ScrapeEvery
                    \/ /\ report < OutageBegins - 1 + ScrapeEvery
                       /\ \/ report + EvalEvery < OutageBegins - 1 + ScrapeEvery
                          \/ report + EvalEvery > clock
  BY DEF RecoveryFollowsOutage
<1>1. /\ load \in Loads /\ killed \in Nat /\ clock \in Nat /\ RateWindow <= killed
      /\ report = Recovery(load, killed, clock)
  BY WrittenReport
<1>2. /\ OutageBegins \in Nat /\ OutageEnds \in Nat /\ OutageBegins <= OutageEnds
      /\ OutageBegins .. OutageEnds \subseteq load.failing
  BY LastOutage DEF IInv
<1> QED BY <1>1, <1>2, ReportBehindOutage

LEMMA NotMissed == IInv /\ Seen => RecoveryNotMissed
<1> DEFINE shown == IF killed > OutageEnds + 2 * ScrapeEvery
                      THEN killed ELSE OutageEnds + 2 * ScrapeEvery
<1> SUFFICES ASSUME IInv, Seen, pc = "write", load.failing # {}, shown + EvalEvery <= clock
             PROVE  report # None /\ report < shown + EvalEvery
  BY DEF RecoveryNotMissed
<1>1. /\ load \in Loads /\ killed \in Nat /\ clock \in Nat /\ RateWindow <= killed
      /\ report = Recovery(load, killed, clock)
  BY WrittenReport
<1>2. /\ OutageEnds \in load.failing /\ OutageEnds \in Nat
      /\ \A f \in load.failing : f <= OutageEnds
  BY LastOutage DEF IInv
<1>3. shown \in Nat /\ killed <= shown /\ OutageEnds + 2 * ScrapeEvery <= shown
  BY <1>1, <1>2, Steps
<1> HIDE DEF shown
<1> QED BY <1>1, <1>2, <1>3, ReportInTime

-----------------------------------------------------------------------------

\* From here on: the deleted pod stops serving soon, for an evaluation step in which
\* its failures show, and the load goes on long enough behind the kill to be judged.
GraceIsShort == Grace + ScrapeEvery <= 2 * EvalEvery

LoadIsLong == KillAt + KillLag + Grace + ScrapeEvery + EvalEvery <= Duration

\* Of a pod that is never there again the series shows no recovery behind the fault.
LEMMA RecoveredServes ==
  ASSUME GraceIsShort, LoadIsLong, IInv, Seen,
         pc = "write", exitCode = 0, Verdict = "AFTER"
  PROVE  pod = "serving"
<1>1. /\ load \in Loads /\ killed \in Nat /\ clock \in Nat /\ RateWindow <= killed
      /\ killed <= KillAt + KillLag /\ report = Recovery(load, killed, clock)
  BY WrittenReport
<1>2. clock = Duration
  BY DEF Seen, Measured
<1>3. report # None
  BY DEF Verdict
<1>4. PICK x \in Points(load, killed, clock) : x < report
  BY DEF Verdict, ShownBefore
<1>5. report \in Points(load, killed, clock)
  BY <1>1, <1>3, ReportIsPoint
<1>6. /\ x \in Nat /\ killed <= x /\ x % EvalEvery = 0
      /\ report \in Nat /\ report <= clock /\ report % EvalEvery = 0
  BY <1>1, <1>4, <1>5 DEF Points
<1>7. x + EvalEvery <= report
  BY <1>4, <1>6, Steps, PointsApart
<1>8. killed # None
  BY <1>1 DEF None
<1>9. killed + Grace + ScrapeEvery + EvalEvery <= clock
  BY <1>1, <1>2, Bounds, Steps DEF LoadIsLong
<1>10. pod # "stopping"
  <2> SUFFICES ASSUME pod = "stopping"
               PROVE  FALSE
    OBVIOUS
  <2>1. clock <= killed + Grace
    BY <1>8 DEF Seen, OutageSeen
  <2> QED BY <1>1, <1>9, <2>1, Bounds, Steps
<1>11. pod # "starting"
  <2> SUFFICES ASSUME pod = "starting"
               PROVE  FALSE
    OBVIOUS
  <2> DEFINE b == killed + Grace + 1
  <2>1. b .. clock \subseteq load.failing
    BY <1>8 DEF Seen, OutageSeen
  <2>2. b \in Nat /\ b <= clock
    BY <1>1, <1>9, Bounds, Steps
  <2> HIDE DEF b
  <2>3. \/ report >= clock + ScrapeEvery
        \/ /\ report < b - 1 + ScrapeEvery
           /\ \/ report + EvalEvery < b - 1 + ScrapeEvery
              \/ report + EvalEvery > clock
    BY <1>1, <1>3, <2>1, <2>2, ReportBehindOutage
  <2>4. b - 1 = killed + Grace
    BY <1>1, Bounds DEF b
  <2>5. report + EvalEvery < killed + Grace + ScrapeEvery
    BY <1>1, <1>6, <1>9, <2>3, <2>4, Bounds, Steps
  <2> QED BY <1>1, <1>6, <1>7, <2>5, Bounds, Steps DEF GraceIsShort
<1> QED BY <1>10, <1>11 DEF IInv, TypeOK

\* A repeat that has no result yet is not one to be trusted.
LEMMA OpenIsNotTrusted ==
  ASSUME IInv, pc \notin {"idle", "make"}
  PROVE  ~Trusted(repeat) /\ repeat = Len(evidence) /\ repeat \in DOMAIN evidence
BY DEF IInv, TypeOK, Progress, Trusted

\* A launch that ends leaves a repeat without a result, or none at all.
LEMMA ExitHanded ==
  ASSUME IInv, PodHanded, Exit, UNCHANGED evidence, pod' = pod \/ pc = "load"
  PROVE  PodHanded'
<1>1. pc' = "idle" /\ killed' = None
  BY DEF Exit, Forget
<1>2. Trusted(Len(evidence)) => pod = "serving" /\ pc \in {"idle", "make"}
  BY OpenIsNotTrusted DEF PodHanded
<1>3. Trusted(Len(evidence))' <=> Trusted(Len(evidence))
  BY DEF Trusted
<1> QED BY <1>1, <1>2, <1>3 DEF PodHanded

LEMMA MakeHanded ==
  ASSUME IInv, PodHanded, Make
  PROVE  PodHanded'
<1>1. /\ repeat = Len(evidence) + 1 /\ Len(evidence) \in Nat
      /\ UNCHANGED <<repeat, killed, pod>>
      /\ pc = "make" /\ pc' = "warm" /\ killed = None
  BY DEF IInv, TypeOK, KillInTime, Make, process
<1>2. \A n \in DOMAIN evidence : evidence'[n] = evidence[n]
  BY DEF IInv, TypeOK, Make
<1>3. Trusted(repeat - 1)' => Trusted(Len(evidence))
  <2> DEFINE n == Len(evidence)
  <2>1. repeat' - 1 = n /\ (n # 0 => n \in DOMAIN evidence)
    BY <1>1
  <2> QED BY <1>2, <2>1 DEF Trusted
<1> QED BY <1>1, <1>3 DEF PodHanded

\* The next launch takes the number behind the newest directory.
LEMMA LaunchHanded ==
  ASSUME IInv, PodHanded, Launch
  PROVE  PodHanded'
<1>1. /\ UNCHANGED <<evidence, killed, pod>>
      /\ pc = "idle" /\ pc' = "make" /\ killed = None
  BY DEF IInv, KillInTime, Launch
<1>2. Trusted(Len(evidence))' <=> Trusted(Len(evidence))
  BY <1>1 DEF Trusted
<1> QED BY <1>1, <1>2 DEF PodHanded

\* While a repeat goes on, a pod that serves stops only by its kill.
LEMMA GoesOnHanded ==
  ASSUME IInv, PodHanded, UNCHANGED <<evidence, repeat>>, pc \notin {"idle", "make"},
         pc' \notin {"idle", "make"},
         \/ UNCHANGED <<killed, struck>> /\ (pod = "serving" => pod' = "serving")
                    /\ (killed = None /\ pc' \in {"warm", "start", "load"} =>
                          pc \in {"warm", "start", "load"})
         \/ Kill
  PROVE  PodHanded'
<1>1. Trusted(repeat - 1)' <=> Trusted(repeat - 1)
  BY DEF Trusted
<1>2. CASE Kill
  <2>1. pc = "load" /\ killed = None /\ pc' = "load" /\ killed' # None
    BY <1>2, Bounds DEF IInv, TypeOK, Kill, Ticks, None
  <2>2. struck' = (pod = "serving")
    BY <1>2 DEF Kill
  <2> QED BY <1>1, <2>1, <2>2 DEF PodHanded
<1>3. CASE ~Kill
  BY <1>1, <1>3 DEF PodHanded
<1> QED BY <1>2, <1>3

\* Other steps between two repeats leave what was handed on.
LEMMA BetweenHanded ==
  ASSUME IInv, PodHanded, UNCHANGED <<evidence, pc, repeat, killed, struck>>,
         pod = "serving" => pod' = "serving"
  PROVE  PodHanded'
<1>1. /\ Trusted(repeat - 1)' <=> Trusted(repeat - 1)
      /\ Trusted(Len(evidence))' <=> Trusted(Len(evidence))
  BY DEF Trusted
<1> QED BY <1>1 DEF PodHanded

\* A result that can be trusted is written only while the pod serves, and what it says
\* of the kill depends on the repeat before.
LEMMA WriteHanded ==
  ASSUME GraceIsShort, LoadIsLong, IInv, Seen, PodHanded, KillHitsServing, Write
  PROVE  PodHanded' /\ KillHitsServing'
<1>1. /\ repeat = Len(evidence) /\ repeat \in DOMAIN evidence /\ repeat \in Nat
      /\ DOMAIN evidence = 1 .. Len(evidence)
  BY OpenIsNotTrusted DEF IInv, TypeOK, Progress, Write
<1> DEFINE filed == [done |-> TRUE, exitCode |-> exitCode, recovery |-> Verdict,
                     foreign |-> foreign, struck |-> struck]
<1>2. evidence' = [evidence EXCEPT ![repeat] = filed]
  BY DEF Write
<1>3. /\ DOMAIN evidence' = DOMAIN evidence /\ Len(evidence') = Len(evidence)
      /\ evidence'[repeat] = filed
      /\ \A n \in DOMAIN evidence : n # repeat => evidence'[n] = evidence[n]
  BY <1>1, <1>2 DEF IInv, TypeOK
<1>4. PodHanded'
  <2>1. pc' \in {"idle", "make"} /\ killed' = None /\ pod' = pod
    BY DEF Write, Exit, Forget
  <2>2. Trusted(Len(evidence))' => exitCode = 0 /\ Verdict = "AFTER"
    BY <1>1, <1>3 DEF Trusted
  <2>3. exitCode = 0 /\ Verdict = "AFTER" => pod = "serving"
    BY RecoveredServes DEF Write
  <2> QED BY <2>1, <2>2, <2>3 DEF PodHanded
<1>5. KillHitsServing'
  <2> SUFFICES ASSUME NEW n \in DOMAIN evidence', evidence'[n].done, ~evidence'[n].struck
               PROVE  n > 1 /\ LET r == evidence'[n - 1]
                               IN ~(r.done /\ r.exitCode = 0 /\ r.recovery = "AFTER")
    BY DEF KillHitsServing
  <2>1. n \in DOMAIN evidence /\ n \in 1 .. Len(evidence)
    BY <1>1, <1>3
  <2>2. n > 1 => n - 1 \in DOMAIN evidence /\ n - 1 # repeat
    BY <1>1, <2>1
  <2>3. CASE n = repeat
    <3>1. ~struck
      BY <1>3, <2>3
    <3>2. killed # None
      BY DEF IInv, KillInTime, Write
    <3>3. ~Trusted(repeat - 1)
      BY <3>1, <3>2 DEF PodHanded
    <3>4. n > 1
      BY <2>1, <2>3, <3>3 DEF Trusted
    <3> QED BY <1>3, <2>2, <2>3, <3>3, <3>4 DEF Trusted
  <2>4. CASE n # repeat
    <3>1. evidence'[n] = evidence[n]
      BY <1>3, <2>1, <2>4
    <3>2. n > 1 /\ LET r == evidence[n - 1]
                   IN ~(r.done /\ r.exitCode = 0 /\ r.recovery = "AFTER")
      BY <2>1, <3>1 DEF KillHitsServing
    <3> QED BY <1>3, <2>2, <3>2
  <2> QED BY <2>3, <2>4
<1> QED BY <1>4, <1>5

\* Only a directory that is made or filed matters to what the others say.
LEMMA MakeKeepsHits ==
  ASSUME IInv, KillHitsServing, Make
  PROVE  KillHitsServing'
<1> DEFINE new == [done |-> FALSE, exitCode |-> 0, recovery |-> "NONE", foreign |-> {},
                   struck |-> FALSE]
<1>1. /\ repeat = Len(evidence) + 1 /\ Len(evidence) \in Nat
      /\ evidence' = Append(evidence, new) /\ evidence \in Seq(Result)
  BY DEF IInv, TypeOK, Make
<1>2. /\ DOMAIN evidence' = 1 .. repeat /\ DOMAIN evidence = 1 .. Len(evidence)
      /\ evidence'[repeat] = new
      /\ \A n \in DOMAIN evidence : evidence'[n] = evidence[n]
  BY <1>1
<1> SUFFICES ASSUME NEW n \in DOMAIN evidence', evidence'[n].done, ~evidence'[n].struck
             PROVE  n > 1 /\ LET r == evidence'[n - 1]
                             IN ~(r.done /\ r.exitCode = 0 /\ r.recovery = "AFTER")
  BY DEF KillHitsServing
<1>3. n # repeat
  BY <1>2
<1>4. n \in DOMAIN evidence
  BY <1>1, <1>2, <1>3
<1>5. evidence'[n] = evidence[n] /\ (n > 1 => evidence'[n - 1] = evidence[n - 1])
  BY <1>1, <1>2, <1>4
<1> QED BY <1>4, <1>5 DEF KillHitsServing

LEMMA StepHanded ==
  ASSUME GraceIsShort, LoadIsLong
  PROVE  IInv /\ Seen /\ PodHanded /\ KillHitsServing /\ [Next]_vars =>
           PodHanded' /\ KillHitsServing'
<1> SUFFICES ASSUME IInv, Seen, PodHanded, KillHitsServing, [Next]_vars
             PROVE  PodHanded' /\ KillHitsServing'
  OBVIOUS
<1>1. CASE Write
  BY <1>1, WriteHanded
<1>2. CASE Make
  BY <1>2, MakeHanded, MakeKeepsHits
<1>3. CASE WarmupFails \/ KillFails \/ TimeoutExpired \/ MeasureRaises \/ Crash
  <2>1. Exit /\ UNCHANGED evidence /\ (pod' = pod \/ pc = "load")
    BY <1>3 DEF WarmupFails, KillFails, TimeoutExpired, MeasureRaises, Crash
  <2> QED BY <2>1, ExitHanded DEF KillHitsServing
<1>4. CASE Launch
  BY <1>4, LaunchHanded DEF Launch, KillHitsServing
<1>5. CASE Kill
  <2>1. UNCHANGED <<evidence, repeat>> /\ pc = "load" /\ pc' = "load"
    BY <1>5 DEF Kill
  <2> QED BY <1>5, <2>1, GoesOnHanded DEF KillHitsServing
<1>6. CASE EndWarmup \/ StartLoad \/ Tick \/ EndLoad \/ LoadHangs \/ LoadBreaks \/ Measure
  <2>1. /\ UNCHANGED <<evidence, repeat, killed, struck, pod>>
        /\ pc \notin {"idle", "make"} /\ pc' \notin {"idle", "make"}
        /\ pc' \in {"warm", "start", "load"} => pc \in {"warm", "start", "load"}
    BY <1>6
       DEF EndWarmup, StartLoad, Tick, EndLoad, LoadHangs, LoadBreaks, Measure, process, history
  <2> QED BY <2>1, GoesOnHanded DEF KillHitsServing
<1>7. CASE OrphanEnds \/ StopServing \/ StartServing \/ UNCHANGED vars
  <2>1. /\ UNCHANGED <<evidence, pc, repeat, killed, struck>>
        /\ pod = "serving" => pod' = "serving"
    BY <1>7 DEF OrphanEnds, StopServing, StartServing, vars, process, history
  <2> QED BY <2>1, BetweenHanded DEF KillHitsServing
<1> QED BY <1>1, <1>2, <1>3, <1>4, <1>5, <1>6, <1>7 DEF Next, Step, Failure

LEMMA InitHanded == Init => PodHanded /\ KillHitsServing
BY DEF Init, PodHanded, KillHitsServing, None

-----------------------------------------------------------------------------

\* Every reachable state has its types, for any number of repeats, launches and faults
\* and any timing.
THEOREM StudyTypes == Spec => []TypeOK
<1>1. IInv => TypeOK
  BY DEF IInv
<1> QED BY <1>1, Invariance, PTL

\* Repeats are numbered from the directories there are, those of unfinished repeats
\* included, so no launch is refused the directory that it is about to make
\* (resilience.py, main).
THEOREM LaunchGetsItsNumber == Spec => []NumberIsFree
<1>1. TypeOK => NumberIsFree
  BY DEF TypeOK, NumberIsFree
<1> QED BY <1>1, StudyTypes, PTL

\* Load that was found beside a measured one was started by an earlier repeat that
\* never had a result (resilience.py, run_pod_kill_repeat).
THEOREM ForeignLoadIsExplained == Spec => []ForeignLoadExplained
<1>1. IInv => ForeignLoadExplained
  BY DEF IInv
<1> QED BY <1>1, Invariance, PTL

\* A recovery that recovery_seconds reports lies a scrape interval or more behind the
\* last failing request; the only others come before any reading shows the outage and
\* before a point that would.
THEOREM ReportFollowsOutage == Spec => []RecoveryFollowsOutage
BY SeenInvariance, FollowsOutage, PTL

\* A load that goes on for two scrapes and an evaluation step behind its last failing
\* request, and an evaluation step behind the kill, reports a recovery, and that no
\* later than there (recovery_seconds).
THEOREM ReportIsNotLate == Spec => []RecoveryNotMissed
BY SeenInvariance, NotMissed, PTL

\* Repeats follow each other without a gate. If a deleted pod serves no longer than two
\* evaluation steps less a scrape interval (5 s), and the load goes on long enough behind
\* the latest kill to be judged, then a repeat that ended as it should, and whose series
\* shows a fault and then a recovery, hands a pod that serves to the next kill. With a
\* longer grace the fault it shows may be that of the repeat before it.
THEOREM NextKillHitsServing ==
  ASSUME GraceIsShort, LoadIsLong
  PROVE  Spec => []KillHitsServing
<1>1. Init => PodHanded /\ KillHitsServing
  BY InitHanded
<1>2. IInv /\ Seen /\ PodHanded /\ KillHitsServing /\ [Next]_vars =>
        PodHanded' /\ KillHitsServing'
  BY StepHanded
<1> QED BY <1>1, <1>2, SeenInvariance, PTL DEF Spec

=============================================================================
