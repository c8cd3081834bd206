---------------------------- MODULE RunLifecycle ----------------------------
(***************************************************************************)
(* One measurement after another on a cluster: Runner._repeat with the     *)
(* Kubernetes adapter (src/experiments/runner/cli.py, kubernetes.py), the  *)
(* workload pods it measures, the temporary marker pod it creates there    *)
(* and the k6 container it starts on the load-generator host.              *)
(*                                                                         *)
(* Pods, k6 containers and evidence directories outlive the runner; what   *)
(* it holds in memory (snapshots, probe results, factors) does not. A run  *)
(* has a directory of its own; its marker pod is named after its run id,   *)
(* which all repeats of a condition share (baseline.py run_id).            *)
(*                                                                         *)
(* External: the cluster (pods restart, are replaced, become ready), k6,   *)
(* Prometheus, Tempo, Loki and Hubble, whose answers are nondeterministic. *)
(* Each telemetry call may raise. What the gates make of their answers is  *)
(* one factor, "EXTERNAL"; the gates about pods are modelled.              *)
(***************************************************************************)
EXTENDS Naturals, Sequences, FiniteSets

CONSTANTS
  Conditions,       \* operating points; one run id each
  Services,         \* measured workload deployments, one pod each
  Replacements,     \* may the cluster replace a pod by a new one?
  MaxRuns,          \* bound: runs started
  MaxFaults,        \* bound: calls that raise, failed deletions, crashes
  MaxDisturbances   \* bound: pod restarts and replacements

ASSUME RunAssumption ==
  /\ IsFiniteSet(Conditions)
  /\ Replacements \in BOOLEAN
  /\ MaxRuns \in Nat
  /\ MaxFaults \in Nat
  /\ MaxDisturbances \in Nat

VARIABLES
  runs,       \* evidence directories, in the order of their creation
  pods,       \* pods[s]: the pod of service s: instance, restarts, readiness
  markers,    \* conditions whose marker pod exists in the namespace
  k6,         \* runs whose k6 container is running
  pc,         \* where _repeat is; "idle": no run in progress
  factors,    \* process: preflight_factors, then with cleanup_factors
  before,     \* process: pods of the preflight snapshot
  after,      \* process: pods of the postflight snapshot
  window,     \* history: pods that restarted or came new since the preflight snapshot
  faults,     \* bound: faults injected
  shocks      \* bound: restarts and replacements

cluster == <<pods, shocks>>
memory == <<factors, before, after>>
vars == <<runs, cluster, markers, k6, pc, memory, window, faults>>

-----------------------------------------------------------------------------
\* Evidence of a run.

This == Len(runs)
Condition == runs[This].condition

\* state.json: the history gains a state.
Transition(s) == [runs EXCEPT ![This].history = Append(@, s)]
Last(h) == h[Len(h)]

\* Of the services: whose pods restarted in place, and whose pods are new.
Quiet == [restarted |-> {}, replaced |-> {}]

NoPods == [s \in Services |-> [instance |-> 0, restarts |-> 0, ready |-> FALSE]]

-----------------------------------------------------------------------------
\* Gates about pods (kubernetes.py).

Ready(snapshot) == \A s \in Services : snapshot[s].ready

Gate(snapshot) == IF Ready(snapshot) THEN {} ELSE {"WORKLOAD_NOT_READY"}

MutDeltaSwapped(old, new) ==
  IF \E s \in Services : new[s].restarts < old[s].restarts
    THEN {"WORKLOAD_RESTARTS_INCREASED"} ELSE {}

\* A pod is found again by its name; one that is not known had no restarts.
RestartDeltaGate(old, new) ==
  IF \E s \in Services :
       new[s].restarts >
         IF new[s].instance = old[s].instance THEN old[s].restarts ELSE 0
    THEN {"WORKLOAD_RESTARTS_INCREASED"} ELSE {}

MutOwnMarkerOnly ==
  IF Condition \in markers THEN {"TEMPORARY_RESOURCES_REMAIN"} ELSE {}

\* Any pod labelled temporary counts, whichever run left it.
CleanupGate == IF markers # {} THEN {"TEMPORARY_RESOURCES_REMAIN"} ELSE {}

-----------------------------------------------------------------------------
\* Gates about the answers of external services. Any answer is possible, and
\* the names of their factors make no difference.

External == SUBSET {"EXTERNAL"}

\* gate: scrape targets, memory and clocks of the nodes before the run.
ClusterGate == External

\* window_gate, from window_snapshot: scrapes, requests, memory, CPU, spans
\* and throttling in the window of the run.
WindowGate == External

\* telemetry_gate: no trace, no log line or no flow was found.
TelemetryGate == External

\* _summary: what the artifacts of k6 and of its sampler, the request counts
\* of the two snapshots and the state of the source tree add.
SummaryFactors == External

-----------------------------------------------------------------------------

Init ==
  /\ runs = <<>>
  /\ pods = [s \in Services |-> [instance |-> 1, restarts |-> 0, ready |-> TRUE]]
  /\ markers = {}
  /\ k6 = {}
  /\ pc = "idle"
  /\ factors = {}
  /\ before = NoPods
  /\ after = NoPods
  /\ window = Quiet
  /\ faults = 0
  /\ shocks = 0

Fault == faults < MaxFaults /\ faults' = faults + 1

\* The runner forgets what it held.
Forget == factors' = {} /\ before' = NoPods /\ after' = NoPods

\* A scheduler calls _repeat: the directory is made, the state is PLANNED.
Begin(c) ==
  /\ pc = "idle"
  /\ Len(runs) < MaxRuns
  /\ runs' = Append(runs, [condition |-> c, history |-> <<"PLANNED">>,
                           files |-> {}, factors |-> {}, reason |-> "NONE",
                           window |-> Quiet])
  /\ pc' = "preflight"
  /\ UNCHANGED <<cluster, markers, k6, memory, window, faults>>

\* adapter.snapshot and adapter.gate.
Preflight ==
  /\ pc = "preflight"
  /\ before' = pods
  /\ \E c \in ClusterGate : factors' = Gate(pods) \cup c
  /\ runs' = [runs EXCEPT ![This].files = @ \cup {"preflight"}]
  /\ window' = Quiet
  /\ pc' = "trace"
  /\ UNCHANGED <<cluster, markers, k6, after, faults>>

\* Tempo is asked a fixed number of times for the trace of a ping; what is
\* missing then is held until telemetry_gate.
TraceMarker ==
  /\ pc = "trace"
  /\ \E t \in TelemetryGate : factors' = factors \cup t
  /\ pc' = "mark"
  /\ UNCHANGED <<runs, cluster, markers, k6, before, after, window, faults>>

\* log_marker creates its pod.
CreateMarker ==
  /\ pc = "mark"
  /\ Condition \notin markers
  /\ markers' = markers \cup {Condition}
  /\ pc' = "poll"
  /\ UNCHANGED <<runs, cluster, k6, memory, window, faults>>

\* kubectl run refuses a name in use; the finally clause of log_marker then
\* deletes the pod that some earlier run of the condition left.
MarkerExists ==
  /\ pc = "mark"
  /\ Condition \in markers
  /\ runs' = [runs EXCEPT ![This].reason = "MARKER_EXISTS"]
  /\ pc' = "unmark"
  /\ UNCHANGED <<cluster, markers, k6, memory, window, faults>>

\* Loki is asked a fixed number of times for the marker line.
PollMarker ==
  /\ pc = "poll"
  /\ \E t \in TelemetryGate : factors' = factors \cup t
  /\ pc' = "unmark"
  /\ UNCHANGED <<runs, cluster, markers, k6, before, after, window, faults>>

\* kubectl run fails, the pod does not become ready, or Loki does not answer.
MarkerFails ==
  /\ pc \in {"mark", "poll"}
  /\ Fault
  /\ runs' = [runs EXCEPT ![This].reason = "ERROR"]
  /\ pc' = "unmark"
  /\ UNCHANGED <<cluster, markers, k6, memory, window>>

AfterMarker == IF runs[This].reason = "NONE" THEN "prepare" ELSE "raised"

MutDeletesOnSuccess ==
  /\ pc = "unmark"
  /\ markers' = IF runs[This].reason = "NONE" THEN markers \ {Condition} ELSE markers
  /\ pc' = AfterMarker
  /\ UNCHANGED <<runs, cluster, k6, memory, window, faults>>

DeleteMarker ==
  /\ pc = "unmark"
  /\ markers' = markers \ {Condition}
  /\ pc' = AfterMarker
  /\ UNCHANGED <<runs, cluster, k6, memory, window, faults>>

\* except RuntimeError: pass
DeleteMarkerFails ==
  /\ pc = "unmark"
  /\ Fault
  /\ pc' = AfterMarker
  /\ UNCHANGED <<runs, cluster, markers, k6, memory, window>>

\* Marker results, ground truth and manifest are written.
Prepare ==
  /\ pc = "prepare"
  /\ runs' = [Transition("WARMING_UP") EXCEPT ![This].files = @ \cup {"manifest"}]
  /\ pc' = "warm"
  /\ UNCHANGED <<cluster, markers, k6, memory, window, faults>>

StartWarmup ==
  /\ pc = "warm"
  /\ k6' = k6 \cup {This}
  /\ pc' = "warming"
  /\ UNCHANGED <<runs, cluster, markers, memory, window, faults>>

\* warmupSeconds is 0.
NoWarmup ==
  /\ pc = "warm"
  /\ pc' = "warmed"
  /\ UNCHANGED <<runs, cluster, markers, k6, memory, window, faults>>

EndWarmup ==
  /\ pc = "warming"
  /\ k6' = k6 \ {This}
  /\ pc' = "warmed"
  /\ UNCHANGED <<runs, cluster, markers, memory, window, faults>>

MutLoadWithoutState ==
  /\ pc = "warmed"
  /\ k6' = k6 \cup {This}
  /\ pc' = "loading"
  /\ UNCHANGED <<runs, cluster, markers, memory, window, faults>>

StartLoad ==
  /\ pc = "warmed"
  /\ runs' = Transition("RUNNING")
  /\ k6' = k6 \cup {This}
  /\ pc' = "loading"
  /\ UNCHANGED <<cluster, markers, memory, window, faults>>

EndLoad ==
  /\ pc = "loading"
  /\ k6' = k6 \ {This}
  /\ runs' = [Transition("COLLECTING") EXCEPT ![This].files = @ \cup {"k6"}]
  /\ pc' = "collect"
  /\ UNCHANGED <<cluster, markers, memory, window, faults>>

\* k6 exits with a non-zero code: its error threshold, or the container.
LoadFails ==
  /\ pc \in {"warming", "loading"}
  /\ Fault
  /\ k6' = k6 \ {This}
  /\ runs' = [runs EXCEPT ![This].reason = "ERROR"]
  /\ pc' = "raised"
  /\ UNCHANGED <<cluster, markers, memory, window>>

\* The second snapshot is taken after the telemetry has settled.
Postflight ==
  /\ pc = "collect"
  /\ after' = pods
  /\ runs' = [runs EXCEPT ![This].window = window]
  /\ pc' = "gates"
  /\ UNCHANGED <<cluster, markers, k6, factors, before, window, faults>>

MutGatesFirst ==
  /\ pc = "gates"
  /\ \E w \in WindowGate, t \in TelemetryGate :
       factors' = factors \cup CleanupGate \cup w \cup RestartDeltaGate(before, after) \cup t
  /\ runs' = [runs EXCEPT ![This].files = @ \cup {"gates"}]
  /\ pc' = "summarise"
  /\ UNCHANGED <<cluster, markers, k6, before, after, window, faults>>

\* cleanup_gate, window_gate, restart_delta_gate, telemetry_gate; only then
\* is the evidence of the second snapshot written.
Gates ==
  /\ pc = "gates"
  /\ \E w \in WindowGate, t \in TelemetryGate :
       factors' = factors \cup CleanupGate \cup w \cup RestartDeltaGate(before, after) \cup t
  /\ runs' = [runs EXCEPT ![This].files = @ \cup {"postflight", "gates"}]
  /\ pc' = "summarise"
  /\ UNCHANGED <<cluster, markers, k6, before, after, window, faults>>

\* No factor means COMPLETED.
Summarise ==
  /\ pc = "summarise"
  /\ \E a \in SummaryFactors :
       runs' = [runs EXCEPT ![This].files = @ \cup {"summary"},
                            ![This].factors = factors \cup a]
  /\ pc' = "report"
  /\ UNCHANGED <<cluster, markers, k6, memory, window, faults>>

Return ==
  /\ pc = "report"
  /\ runs' = [Transition("COMPLETED") EXCEPT ![This].files = @ \cup {"report"}]
  /\ Forget
  /\ pc' = "idle"
  /\ UNCHANGED <<cluster, markers, k6, window, faults>>

-----------------------------------------------------------------------------
\* Failures.

\* A kubectl or Prometheus call, or a write, raises. In the last case the
\* summary is already there.
Raises ==
  /\ pc \in {"preflight", "trace", "prepare", "collect", "gates", "summarise", "report"}
  /\ Fault
  /\ runs' = [runs EXCEPT ![This].reason = "ERROR"]
  /\ pc' = "raised"
  /\ UNCHANGED <<cluster, markers, k6, memory, window>>

\* The last transition raises in _write, with COMPLETED already in the history.
CompletionNotWritten ==
  /\ pc = "report"
  /\ Fault
  /\ runs' = [Transition("COMPLETED") EXCEPT ![This].files = @ \cup {"report"},
                                            ![This].reason = "ERROR"]
  /\ pc' = "raised"
  /\ UNCHANGED <<cluster, markers, k6, memory, window>>

MutSwallows ==
  /\ pc = "raised"
  /\ runs' = Transition("COMPLETED")
  /\ Forget
  /\ pc' = "idle"
  /\ UNCHANGED <<cluster, markers, k6, window, faults>>

\* except Exception: state.json says FAILED, failure.json says why.
Fail ==
  /\ pc = "raised"
  /\ runs' = [Transition("FAILED") EXCEPT ![This].files = @ \cup {"failure"}]
  /\ Forget
  /\ pc' = "idle"
  /\ UNCHANGED <<cluster, markers, k6, window, faults>>

\* The runner is killed: no finally clause runs, and the k6 container that the
\* docker client was waiting for goes on.
Crash ==
  /\ pc # "idle"
  /\ Fault
  /\ Forget
  /\ pc' = "idle"
  /\ UNCHANGED <<runs, cluster, markers, k6, window>>

-----------------------------------------------------------------------------
\* The hosts and the cluster.

\* A container that nobody waits for ends after its duration and is removed.
OrphanEnds ==
  /\ \E r \in k6 :
       /\ pc \in {"warming", "loading"} => r # This
       /\ k6' = k6 \ {r}
  /\ UNCHANGED <<runs, cluster, markers, pc, memory, window, faults>>

Shock == shocks < MaxDisturbances /\ shocks' = shocks + 1

\* The kubelet restarts a container of the pod in place.
RestartPod(s) ==
  /\ Shock
  /\ pods' = [pods EXCEPT ![s].restarts = @ + 1, ![s].ready = FALSE]
  /\ window' = [window EXCEPT !.restarted = @ \cup {s}]
  /\ UNCHANGED <<runs, markers, k6, pc, memory, faults>>

\* The pod is deleted or evicted; its deployment creates another one.
ReplacePod(s) ==
  /\ Replacements
  /\ Shock
  /\ pods' = [pods EXCEPT ![s] = [instance |-> @.instance + 1, restarts |-> 0,
                                  ready |-> FALSE]]
  /\ window' = [restarted |-> window.restarted \ {s}, replaced |-> window.replaced \cup {s}]
  /\ UNCHANGED <<runs, markers, k6, pc, memory, faults>>

PodReady(s) ==
  /\ ~pods[s].ready
  /\ pods' = [pods EXCEPT ![s].ready = TRUE]
  /\ UNCHANGED <<runs, markers, k6, pc, memory, window, faults, shocks>>

-----------------------------------------------------------------------------

Step ==
  \/ Preflight \/ TraceMarker \/ CreateMarker \/ MarkerExists \/ PollMarker \/ MarkerFails
  \/ DeleteMarker \/ DeleteMarkerFails \/ Prepare
  \/ StartWarmup \/ NoWarmup \/ EndWarmup \/ StartLoad \/ EndLoad \/ LoadFails
  \/ Postflight \/ Gates \/ Summarise \/ Return
  \/ Raises \/ CompletionNotWritten \/ Fail

Cluster ==
  \/ OrphanEnds
  \/ \E s \in Services : RestartPod(s) \/ ReplacePod(s) \/ PodReady(s)

Next == (\E c \in Conditions : Begin(c)) \/ Step \/ Crash \/ Cluster

Spec == Init /\ [][Next]_vars

-----------------------------------------------------------------------------
\* Properties.

States == <<"PLANNED", "WARMING_UP", "RUNNING", "COLLECTING", "COMPLETED">>
Factors == {"EXTERNAL", "WORKLOAD_NOT_READY", "WORKLOAD_RESTARTS_INCREASED",
            "TEMPORARY_RESOURCES_REMAIN"}
Files == {"preflight", "manifest", "k6", "postflight", "gates", "summary",
          "report", "failure"}
Pod == [instance : Nat, restarts : Nat, ready : BOOLEAN]

\* A history is the first states of BW-07, in order, and possibly FAILED.
Histories ==
  UNION {{SubSeq(States, 1, n), Append(SubSeq(States, 1, n), "FAILED")} : n \in 1 .. 5}

Windows == [restarted : SUBSET Services, replaced : SUBSET Services]
Run == [condition : Conditions, history : Histories, files : SUBSET Files,
        factors : SUBSET Factors, reason : {"NONE", "MARKER_EXISTS", "ERROR"},
        window : Windows]

\* The state that state.json shows while _repeat is at p.
Shown(p) ==
  CASE p \in {"preflight", "trace", "mark", "poll", "unmark", "prepare"} -> "PLANNED"
    [] p \in {"warm", "warming", "warmed"} -> "WARMING_UP"
    [] p = "loading" -> "RUNNING"
    [] p \in {"collect", "gates", "summarise", "report"} -> "COLLECTING"
    [] OTHER -> "ANY"

\* The shape of the state; the history is one that BW-07 allows and shows
\* where the runner is.
TypeOK ==
  /\ runs \in Seq(Run)
  /\ pods \in [Services -> Pod]
  /\ markers \subseteq Conditions
  /\ k6 \subseteq DOMAIN runs
  /\ pc \in {"idle", "preflight", "trace", "mark", "poll", "unmark", "prepare", "warm",
             "warming", "warmed", "loading", "collect", "gates", "summarise",
             "report", "raised"}
  /\ factors \subseteq Factors
  /\ before \in [Services -> Pod]
  /\ after \in [Services -> Pod]
  /\ window \in Windows
  /\ faults \in Nat
  /\ shocks \in Nat
  /\ pc # "idle" => runs # <<>>
  /\ Shown(pc) # "ANY" => runs # <<>> /\ Last(runs[This].history) = Shown(pc)

Summarised(i) == "summary" \in runs[i].files
ValidRun(i) == Summarised(i) /\ runs[i].factors = {}

\* A pod that restarted between the two snapshots and is still there at the second
\* invalidates the run, whatever restart counts it and the pods before it had
\* (restart_delta_gate).
RestartInvalidates ==
  \A i \in DOMAIN runs : ValidRun(i) => runs[i].window.restarted = {}

\* What ADR-0013 says: a restart in the window, also by a new pod, invalidates it.
ValidMeansNoRestart ==
  \A i \in DOMAIN runs : ValidRun(i) => runs[i].window = Quiet

\* After a valid run the namespace is clean: no run, this one or an earlier
\* one, of this condition or another, interrupted or not, has left a pod in it.
ValidLeavesNothing ==
  runs # <<>> /\ ValidRun(This) => markers = {}

\* A leaked marker pod costs at most one run: the run it makes fail deletes
\* it. So failed deletions and crashes account for every run lost to a marker
\* and for every marker that is still around.
Leaked == markers \ IF pc \in {"poll", "unmark"} THEN {Condition} ELSE {}
Blocked == {i \in DOMAIN runs : runs[i].reason = "MARKER_EXISTS"}

LeakCostsOneRun == Cardinality(Blocked) + Cardinality(Leaked) <= faults

\* A summary is the last word on evidence that exists: wherever the runner
\* was interrupted, what the verdict rests on is in the directory.
EvidenceComplete ==
  \A i \in DOMAIN runs :
    /\ Summarised(i) =>
         {"preflight", "manifest", "k6", "postflight", "gates"} \subseteq runs[i].files
    /\ Last(runs[i].history) = "COMPLETED" => {"summary", "report"} \subseteq runs[i].files

\* The lifecycle implements RunContract, which the schedulers rely on.
Verdict(i) ==
  IF ~Summarised(i) THEN "NONE" ELSE IF runs[i].factors = {} THEN "COMPLETED" ELSE "INVALID"

Ended(h) ==
  CASE Last(h) = "COMPLETED" -> "RETURNED"
    [] Last(h) = "FAILED" -> "RAISED"
    [] OTHER -> "DIED"

Exit(i) == IF i = This /\ pc # "idle" THEN "RUNNING" ELSE Ended(runs[i].history)

Verdicts == [i \in DOMAIN runs |-> Verdict(i)]
Exits == [i \in DOMAIN runs |-> Exit(i)]

Contract == INSTANCE RunContract WITH verdicts <- Verdicts, exits <- Exits

ImplementsContract == Contract!Spec

=============================================================================
