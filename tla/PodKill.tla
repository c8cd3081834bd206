------------------------------ MODULE PodKill ------------------------------
(***************************************************************************)
(* The pod-kill study (src/experiments/resilience.py): launches of main,   *)
(* each some repeats of warm-up, load, kill, measurement and result.json,  *)
(* against one orchestrator pod whose deployment replaces it.              *)
(*                                                                         *)
(* External: k6, whose containers are not children of the study and go on  *)
(* without it; the cluster, in which a deleted pod serves a little longer, *)
(* then nobody serves, then its successor does; Prometheus                 *)
(* (RecoveryMetric). The clock runs during a load only. No pod dies unless *)
(* the study kills it.                                                     *)
(***************************************************************************)
EXTENDS RecoveryMetric, Sequences

CONSTANTS
  KillAt,        \* POD_KILL_AFTER_SECONDS
  KillLag,       \* bound: ticks that finding and deleting the pod takes
  Grace,         \* bound: ticks that a deleted pod goes on serving
  Duration,      \* POD_KILL_DURATION_SECONDS
  MaxRepeats,    \* bound: evidence directories
  MaxFaults      \* bound: calls that raise, loads that hang, crashes

ASSUME PodKillAssumption ==
  /\ {KillAt, KillLag, Grace, Duration, MaxRepeats, MaxFaults} \subseteq Nat
  /\ RateWindow <= KillAt
  /\ KillAt + KillLag < Duration

VARIABLES
  evidence,   \* evidence[n]: what the directory of repeat n says
  pc,         \* where run_pod_kill_repeat is; "idle": no launch
  repeat,     \* process: number of this repeat
  left,       \* process: repeats to go in this launch, this one included
  clock,      \* ticks since the load started
  killed,     \* process: tick of killedAt, None before the kill
  report,     \* process: recovery, None if there is none
  exitCode,   \* process: exit code of k6
  k6,         \* repeats whose k6 container runs
  pod,        \* the orchestrator: serving, stopping, starting
  counted,    \* Prometheus: have requests failed, those of this load apart
  load,       \* what Prometheus saw of this load, see RecoveryMetric
  foreign,    \* history: containers of other repeats when the load started
  struck,     \* history: did the pod serve when it was killed
  faults      \* bound: faults injected

process == <<repeat, left, killed, report, exitCode>>
prometheus == <<counted, load>>
history == <<foreign, struck>>
vars == <<evidence, pc, process, clock, k6, pod, prometheus, history, faults>>

-----------------------------------------------------------------------------

NoLoad == [failing |-> {}, counted |-> FALSE, phase |-> 0]

\* Between loads, Prometheus keeps only whether requests ever failed.
Init ==
  /\ evidence = <<>>
  /\ pc = "idle"
  /\ repeat = 0 /\ left = 0
  /\ clock = 0
  /\ killed = None
  /\ report = None
  /\ exitCode = 0
  /\ k6 = {}
  /\ pod = "serving"
  /\ counted \in BOOLEAN
  /\ load = NoLoad
  /\ foreign = {}
  /\ struck = FALSE
  /\ faults = 0

Fault == faults < MaxFaults /\ faults' = faults + 1

\* Nothing of a repeat is kept beside its directory.
Forget ==
  /\ clock' = 0
  /\ killed' = None
  /\ report' = None
  /\ exitCode' = 0
  /\ foreign' = {}
  /\ struck' = FALSE
  /\ counted' = (counted \/ load.failing # {})
  /\ load' = NoLoad

\* The process ends, by itself, by an exception that nothing catches, or killed.
Exit ==
  /\ pc' = "idle"
  /\ repeat' = 0
  /\ left' = 0
  /\ Forget

MutNumbersResults ==
  /\ pc = "idle"
  /\ \E reps \in 1 .. (MaxRepeats - Len(evidence)) : left' = reps
  /\ repeat' = Cardinality({n \in DOMAIN evidence : evidence[n].done}) + 1
  /\ pc' = "make"
  /\ UNCHANGED <<evidence, clock, killed, report, exitCode, k6, pod, prometheus, history, faults>>

\* main: the numbers go on from the directories that exist.
Launch ==
  /\ pc = "idle"
  /\ \E reps \in 1 .. (MaxRepeats - Len(evidence)) : left' = reps
  /\ repeat' = Len(evidence) + 1
  /\ pc' = "make"
  /\ UNCHANGED <<evidence, clock, killed, report, exitCode, k6, pod, prometheus, history, faults>>

\* The directory and the warm-up's container. The guard never fails, see NumberIsFree:
\* the FileExistsError it stands for would be a step that nothing takes.
Make ==
  /\ pc = "make"
  /\ repeat \notin DOMAIN evidence
  /\ evidence' = Append(evidence, [done |-> FALSE, exitCode |-> 0,
                                   recovery |-> "NONE", foreign |-> {},
                                   struck |-> FALSE])
  /\ k6' = k6 \cup {repeat}
  /\ pc' = "warm"
  /\ UNCHANGED <<process, clock, pod, prometheus, history, faults>>

\* _run_k6 returns. Requests of the warm-up failed if nobody served.
EndWarmup ==
  /\ pc = "warm"
  /\ k6' = k6 \ {repeat}
  /\ counted' = (counted \/ pod = "starting")
  /\ pc' = "start"
  /\ UNCHANGED <<evidence, process, clock, pod, load, history, faults>>

WarmupFails ==
  /\ pc = "warm"
  /\ Fault
  /\ k6' = k6 \ {repeat}
  /\ Exit
  /\ UNCHANGED <<evidence, pod>>

\* Popen; a load starts anywhere between two scrapes.
StartLoad ==
  /\ pc = "start"
  /\ k6' = k6 \cup {repeat}
  /\ foreign' = k6
  /\ clock' = 0
  /\ \E p \in 0 .. ScrapeEvery - 1 : load' = [NoLoad EXCEPT !.counted = counted, !.phase = p]
  /\ pc' = "load"
  /\ UNCHANGED <<evidence, process, pod, counted, struck, faults>>

\* Time passes: up to the latest kill, from it while the deleted pod may
\* serve, and to the end of the load.
Tick ==
  /\ pc = "load"
  /\ killed = None \/ repeat \in k6
  /\ clock < Duration
  /\ killed = None => clock < KillAt + KillLag
  /\ killed # None /\ pod = "stopping" => clock < killed + Grace
  /\ clock' = clock + 1
  /\ load' = IF pod = "starting" /\ k6 # {}
                THEN [load EXCEPT !.failing = @ \cup {clock + 1}]
                ELSE load
  /\ UNCHANGED <<evidence, pc, process, k6, pod, counted, history, faults>>

\* kill_target_pod; deleting a successor that does not serve yet makes
\* another one.
Kill ==
  /\ pc = "load"
  /\ killed = None
  /\ clock >= KillAt
  /\ killed' = clock
  /\ struck' = (pod = "serving")
  /\ pod' = IF pod = "serving" THEN "stopping" ELSE pod
  /\ UNCHANGED <<evidence, pc, repeat, left, report, exitCode, clock, k6, prometheus, foreign, faults>>

\* No pod matches, or kubectl fails, whether or not the pod was deleted: the
\* load that was started goes on.
KillFails ==
  /\ pc = "load"
  /\ killed = None
  /\ clock >= KillAt
  /\ Fault
  /\ \E deleted \in BOOLEAN :
       pod' = IF deleted /\ pod = "serving" THEN "stopping" ELSE pod
  /\ Exit
  /\ UNCHANGED <<evidence, k6>>

\* k6 breaks off. Nobody waits for it before the kill, and its exit code is
\* recorded and not looked at.
LoadBreaks ==
  /\ pc = "load"
  /\ repeat \in k6
  /\ Fault
  /\ k6' = k6 \ {repeat}
  /\ UNCHANGED <<evidence, pc, process, clock, pod, prometheus, history>>

MutLeavesContainer ==
  /\ pc = "load"
  /\ killed # None
  /\ clock = Duration \/ repeat \notin k6
  /\ pc' = "measure"
  /\ UNCHANGED <<evidence, process, clock, k6, pod, prometheus, history, faults>>

\* communicate returns
EndLoad ==
  /\ pc = "load"
  /\ killed # None
  /\ clock = Duration \/ repeat \notin k6
  /\ k6' = k6 \ {repeat}
  /\ exitCode' = IF repeat \in k6 THEN 0 ELSE 1
  /\ pc' = "measure"
  /\ UNCHANGED <<evidence, repeat, left, killed, report, clock, pod, prometheus, history, faults>>

\* The container does not end; communicate gives up and leaves it.
LoadHangs ==
  /\ pc = "load"
  /\ clock = Duration
  /\ repeat \in k6
  /\ Fault
  /\ pc' = "hung"
  /\ UNCHANGED <<evidence, process, clock, k6, pod, prometheus, history>>

MutWaitsForEver ==
  /\ pc = "hung"
  /\ repeat \notin k6
  /\ Exit
  /\ UNCHANGED <<evidence, k6, pod, faults>>

TimeoutExpired ==
  /\ pc = "hung"
  /\ Exit
  /\ UNCHANGED <<evidence, k6, pod, faults>>

MeasureRaises ==
  /\ pc = "measure"
  /\ Fault
  /\ Exit
  /\ UNCHANGED <<evidence, k6, pod>>

Measure ==
  /\ pc = "measure"
  /\ report' = Recovery(load, killed, clock)
  /\ pc' = "write"
  /\ UNCHANGED <<evidence, repeat, left, killed, exitCode, clock, k6, pod, prometheus, history, faults>>

\* Did the series show the fault before the reported recovery?
ShownBefore(t) == \E x \in Points(load, killed, clock) : x < t /\ Above(load, x)

Verdict ==
  IF report = None THEN "NONE" ELSE IF ShownBefore(report) THEN "AFTER" ELSE "UNSEEN"

\* result.json; main goes on with the next repeat at once.
Write ==
  /\ pc = "write"
  /\ evidence' = [evidence EXCEPT ![repeat] =
                    [done |-> TRUE, exitCode |-> exitCode, recovery |-> Verdict,
                     foreign |-> foreign, struck |-> struck]]
  /\ \/ /\ left = 1
        /\ Exit
     \/ /\ left > 1
        /\ pc' = "make"
        /\ repeat' = repeat + 1
        /\ left' = left - 1
        /\ Forget
  /\ UNCHANGED <<k6, pod, faults>>

Crash ==
  /\ pc # "idle"
  /\ Fault
  /\ Exit
  /\ UNCHANGED <<evidence, k6, pod>>

-----------------------------------------------------------------------------
\* The load-generator host and the cluster.

OrphanEnds ==
  /\ \E n \in k6 :
       /\ pc \in {"warm", "load", "hung"} => n # repeat
       /\ k6' = k6 \ {n}
  /\ UNCHANGED <<evidence, pc, process, clock, pod, prometheus, history, faults>>

StopServing ==
  /\ pod = "stopping"
  /\ pod' = "starting"
  /\ UNCHANGED <<evidence, pc, process, clock, k6, prometheus, history, faults>>

\* Requests outside a measured load that found nobody are counted as well.
StartServing ==
  /\ pod = "starting"
  /\ pod' = "serving"
  /\ counted' = (counted \/ (pc # "load" /\ k6 # {}))
  /\ UNCHANGED <<evidence, pc, process, clock, k6, load, history, faults>>

-----------------------------------------------------------------------------

Step ==
  \/ Make \/ EndWarmup \/ StartLoad \/ Tick \/ Kill \/ EndLoad
  \/ TimeoutExpired \/ Measure \/ Write

Failure ==
  WarmupFails \/ KillFails \/ LoadBreaks \/ LoadHangs \/ MeasureRaises \/ Crash

Next == Launch \/ Step \/ Failure \/ OrphanEnds \/ StopServing \/ StartServing

Spec == Init /\ [][Next]_vars

FairSpec == Spec /\ WF_vars(Step) /\ WF_vars(StopServing)

-----------------------------------------------------------------------------

\* Properties.

Result == [done : BOOLEAN, exitCode : {0, 1}, recovery : {"NONE", "AFTER", "UNSEEN"},
           foreign : SUBSET (1 .. MaxRepeats), struck : BOOLEAN]
Ticks == 0 .. Duration

\* The shape of the state; the numbers of a launch go on from the directories
\* there are.
TypeOK ==
  /\ evidence \in Seq(Result)
  /\ Len(evidence) <= MaxRepeats
  /\ pc \in {"idle", "make", "warm", "start", "load", "hung", "measure", "write"}
  /\ left \in 0 .. MaxRepeats
  /\ clock \in Ticks
  /\ exitCode \in {0, 1}
  /\ killed \in Ticks \cup {None}
  /\ report \in Ticks \cup {None}
  /\ k6 \subseteq DOMAIN evidence
  /\ pod \in {"serving", "stopping", "starting"}
  /\ counted \in BOOLEAN
  /\ load \in Loads
  /\ load.failing \subseteq 1 .. Duration
  /\ foreign \subseteq DOMAIN evidence
  /\ struck \in BOOLEAN
  /\ faults \in 0 .. MaxFaults
  /\ pc = "make" => repeat = Len(evidence) + 1

\* However launches end, the next one is not refused the number that it gives its
\* repeats: no directory has it.
NumberIsFree == pc = "make" => repeat \notin DOMAIN evidence

\* The last failing tick of the load, and the first of that outage.
OutageEnds == Max(load.failing)
OutageBegins ==
  Min({b \in load.failing : b .. OutageEnds \subseteq load.failing})

\* What recovery_seconds can be trusted for: a reported recovery is a scrape
\* interval or more behind the last failing request. Otherwise it comes within a
\* scrape interval of the first one, before any reading shows the outage, and
\* nothing looked at the next point: the load was over, or that came too early too.
RecoveryFollowsOutage ==
  pc = "write" /\ report # None /\ load.failing # {} =>
    \/ report >= OutageEnds + ScrapeEvery
    \/ /\ report < OutageBegins - 1 + ScrapeEvery
       /\ \/ report + EvalEvery < OutageBegins - 1 + ScrapeEvery
          \/ report + EvalEvery > clock

\* How late it is: from the kill, or from two scrapes behind the last failing
\* request where that is later, an evaluation step at most, and a load that goes
\* on that long reports a recovery.
RecoveryNotMissed ==
  LET shown == IF killed > OutageEnds + 2 * ScrapeEvery
                 THEN killed ELSE OutageEnds + 2 * ScrapeEvery
  IN pc = "write" /\ load.failing # {} /\ shown + EvalEvery <= clock =>
       report # None /\ report < shown + EvalEvery

\* Repeats follow each other without a gate. Where the one before ended as it
\* should and its series shows a fault and then a recovery, the kill of the next
\* one hits a pod that serves.
KillHitsServing ==
  \A n \in DOMAIN evidence :
    evidence[n].done /\ ~evidence[n].struck =>
      n > 1 /\ LET r == evidence[n - 1]
               IN ~(r.done /\ r.exitCode = 0 /\ r.recovery = "AFTER")

\* A container that loads the system beside that of a repeat with a result was
\* started by an earlier repeat, and that one has none.
ForeignLoadExplained ==
  \A n \in DOMAIN evidence :
    \A m \in evidence[n].foreign : m < n /\ ~evidence[m].done

\* A launch ends, also when its load hangs, if the warm-up does.
LaunchEnds == pc # "idle" ~> pc = "idle"

\* What the docstring of recovery_seconds says: None if the load never recovers
\* within the observed window, here one that still fails when it ends.
NoneIfNeverRecovered ==
  pc = "write" /\ load.failing # {} /\ OutageEnds = clock => report = None

=============================================================================
