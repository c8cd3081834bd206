# MeshPerf: TLA+ models, checks and proofs

MeshPerf measures a service mesh: a Python harness schedules and runs load
experiments against a Kubernetes cluster, and a set of Java services is the workload
that is measured. The numbers are only worth what the protocol behind them is worth:
a run that is counted twice, a restart that is not noticed, or a search that
contradicts itself after a restart spoils a campaign of many hours without anybody
seeing it. This directory holds models of that protocol and of the workload's own
request handling, the TLC configurations that check them, and proofs about each of them:
every safety property and every refinement that a passing run checks is also proved for all
values of the constants.

Paths below are relative to `src/`.

## 1. Inventory

### The measurement harness (`experiments/`, Python)

| Part | State | Operations |
|---|---|---|
| Baseline scheduler, `experiments/runner/baseline.py` | `state.json` (sessions, baselines, blocks, records, status), rewritten in place after every change | start or resume a session; open, recover and close blocks; measure a condition; decide |
| Analysis of valid runs, `analysis.py` | none: reads evidence directories | count valid runs, decide CONTINUE or STOP |
| Experiment runner, `cli.py` | one evidence directory per run: `state.json` history, manifest, snapshots, gates, `summary.json`, report or `failure.json` | `_repeat`: preflight, log marker, warm-up, load, postflight, gates, summary |
| Kubernetes adapter, `kubernetes.py` | the cluster: pods, restart counts, readiness, the temporary marker pod | snapshots, gates, marker |
| Capacity discovery, `capacity.py` | `discovery.json` (points, reference latency, status) and the run directories | geometric search, binary refinement, reuse of points, resumption |
| Resilience, `resilience.py` | one evidence directory per repeat with `result.json`; a load generator as a child process whose container outlives it | launch some repeats; per repeat warm up, start the load, kill the orchestrator's pod, wait, compute the recovery from the error rate |
| Replica scaling, `replica_scaling.py` | none of its own | a loop over `_repeat`, from 1 in every launch |
| Profile comparison, `compare_profiles.py` | none | statistics |

The scheduler and the search call `Runner._repeat` and rely on three things: it
returns only with a summary on disk, it raises otherwise, and whatever happened the
evidence that exists stays. They also rely on directories being the durable truth:
after a crash, what `state.json` says and what the directories say may differ by the
run in progress.

### The workload (`services/`, Java)

| Part | State | Operations |
|---|---|---|
| Benchmark gateway | none | relays; turns answers of the orchestrator into its own |
| Orchestrator | per request | synchronous chain; fan-out in sequence or in parallel with a budget |
| Workload service (a, b, c) | threads of the server | one hop: check the deadline, work, call the next service |
| Producer | futures of a batch | publish tasks to Kafka, answer when all are acknowledged |
| Worker | bounded idempotency cache in memory | consume, recognise duplicates, work, publish a result |

The services call each other over HTTP without client timeouts, and through two Kafka
topics. `values.yaml` names the next service of each workload: a calls b, b calls c,
c calls itself.

### What is hard here

- **Crash and resumption.** The harness runs for days, is killed, and is resumed. Two
  durable records (state files and directories) are written one after the other, in
  place, and must be reconciled.
- **Operators.** Sessions share evidence: which session a run belongs to is a
  difference of counts taken at different times, and the operator chooses which
  session to resume.
- **The cluster moves.** Pods restart or are replaced in the window of a run; cleanups
  fail; leftovers of one run meet the next one.
- **Redelivery.** Kafka delivers again after a crash, a rebalance or an exception; the
  cache that recognises duplicates is local, bounded, and filled before the work.
- **Measuring a fault through samples.** The error rate that shows an outage is made of
  scrapes every 15 s, looked at every 10 s over 30 s: it shows the outage late, holds on
  to it, and before the first failure there is no series at all.
- **Deadlines and budgets.** They pass while calls wait for threads, while work is
  done and while answers travel back; threads are held meanwhile.

`PROJECT.json` lists each hazard at its line, with the properties that would catch it.

### What makes each part correct

- Scheduler: a valid run is credited once; a crash loses none; at most one run per
  condition waits for credit; the policy's bounds on valid runs hold; evidence is
  append-only; a session that is resumed ends; the campaign ends.
- Runner: no restart goes unnoticed; a valid run leaves nothing behind and has all its
  evidence; a leaked pod costs one run and not all of them.
- Search: what it says passed did pass, what it says failed did fail, across restarts;
  it ends with a narrow interval.
- Resilience: a reported recovery lies behind the outage, and not far behind; the next
  kill hits a pod that serves; foreign load is explained; a launch ends.
- Pipeline: acknowledged means there was an outcome, and so does `DUPLICATE`; work
  is repeated only with a reason; the backlog drains.
- Chain and fan-out: the answer says what happened; nothing begins late; somebody
  answers.

## 2. Modules

| Module | Models | Composes with |
|---|---|---|
| `EvidenceLedger` | abstract: valid runs are produced, and credited once each | implemented by `BaselineScheduler` |
| `BaselineScheduler` | `baseline.py`, the decision of `analysis.py`, the part of `_repeat` that files a summary | |
| `BaselineScheduler_proofs`, `_accounting` | theorems about the scheduler | |
| `CapacityDiscovery` | `capacity.py` | |
| `CapacityDiscovery_proofs` | theorems about the search | |
| `RunContract` | abstract: a run returns with a verdict, raises or dies | implemented by `RunLifecycle` |
| `RunLifecycle` | `Runner._repeat` with `kubernetes.py`, the pods, marker pods and k6 containers around it | |
| `RunLifecycle_proofs` | theorems about the runner | |
| `MCRunLifecycle` | symmetry for TLC | |
| `RecoveryMetric` | pure: the series of the error rate and `recovery_seconds` | used by `PodKill` |
| `PodKill` | `resilience.py`, its k6 containers, the pod it kills | |
| `PodKill_proofs` | theorems about the pod-kill study | |
| `AtLeastOnceQueue` | abstract: tasks are published, worked at least once, acknowledged | implemented by `AsyncPipeline` |
| `AsyncPipeline` | producer, worker, and the Kafka and listener container between them | |
| `AsyncPipeline_proofs` | theorems about the pipeline | |
| `SyncChain` | gateway, orchestrator and hops of a synchronous chain | |
| `MCSyncChain` | the sequence of services for TLC | |
| `Fanout` | `FanoutController` with its threads and targets | |
| `Fanout_proofs` | theorems about the fan-out | |
| `SyncChain_proofs` | theorems about the chain | |

The scheduler and the search do not instantiate `RunLifecycle`: they see of a run only
what `RunContract` allows (a summary with a verdict, an exception with or without a
summary, death with or without one), and `Run_repeats` checks that `RunLifecycle`
allows no more. So each is checked against the contract, and the product of their
state spaces is never explored.

Definitions named `Mut...` are plausible wrong versions of the definition that follows
them. No specification uses them; `PROJECT.json` says which property each would break.

### BaselineScheduler

`disk[c]` is the sequence of evidence directories of condition `c` (`repeat-001`, ...):
the verdict in its summary and, as history, the session whose process made it.
`sessions`, `ledger` and `status` are `state.json`; `readable` is whether a crash has
torn it. `precise` says for which conditions the interval of the analysis is narrow
enough, which numbers decide and the model leaves open. `at`, `todo`, `done`,
`assigned` and `run` are local variables of `execute_session`, lost in a crash.

| Action | Code |
|---|---|
| `StartSession`, `ResumeSession` | `baseline.py:145-165`: the baseline snapshot is taken once, at the start |
| `OpenBlock`, `SkipBlock` | `166-194`: completed conditions and `assigned` from the records |
| `Recover`, `NothingToRecover`, `BeginRuns` | `195-216`: a valid run that is not assigned is credited to this block |
| `SkipCondition`, `StartRun` | `216-230`: decision, next repeat number, `_repeat` makes the directory |
| `SummaryValid`, `SummaryInvalid`, `RunReturns`, `RunFails` | `cli.py:115-117`, `baseline.py:229-269` |
| `CloseBlock`, `CloseSession`, `Raise` | `270-281`, and the analysis that raises on a torn summary |
| `Crash`, `CrashInSummary`, `CrashInStateFile` | between writes, inside `summary.json`, inside `state.json` |

`Discipline` is the operator's: `"any"` resumes whatever session it likes, `"latest"`
the latest one, `"finish"` starts a new one only when the latest is finished. The code
enforces none of them; each run says which it assumes.

### CapacityDiscovery

`points`, `lowLoad`, `status` and `report` are `discovery.json`, `dirs` the run
directories, and the rest the local variables of `execute` and `run_point`, with one
action per branch of their loops. A rate is measured with any set of `SummaryFactors` and any of
`Latencies`; `Factors` and `Outcome` are `evaluate`. `readable` is whether a crash has torn
`discovery.json`, which is written in place: `Writes` says where the process is about to
write it, `CrashInStateFile` dies there (if `TornWrites`), and `Launch` needs a file that
`_load` can read. `Crash` is a death anywhere else.

### RunLifecycle

`runs` are the evidence directories (history, files, factors), `pods` the workload's,
`markers` the marker pods that exist, `k6` the load containers, and `factors`,
`before`, `after` what `_repeat` holds in memory. `window` is history: which services'
pods restarted in place and which were replaced since the preflight snapshot. Each
action is one call of `_repeat`, in its order, with the files it writes; every call
that can raise does in `Raises`, `LoadFails`, `MarkerFails` or `CompletionNotWritten`,
and `finally` and `except` are `DeleteMarker`, `DeleteMarkerFails` and `Fail`.
`ClusterGate`, `WindowGate`, `TelemetryGate` and `SummaryFactors` stand for the gates
that turn answers of Prometheus, Tempo, Loki, Hubble and k6 into factors; any answer is
possible, and their factors are one, `EXTERNAL`.

### RecoveryMetric and PodKill

Time is counted in ticks of 5 s from the start of the load, so that the intervals of the
code are 3 (scrape), 6 (range of the rate), 2 (evaluation step) and 3 (sustained). In a
tick all requests fail or none does; a rate is above 2% iff a failing tick lies between
the first and the last scrape in its range. `Points` is `error_rate_timeseries` from the
kill on: evaluation points are counted from the start of the load, and a point exists if
the counter of failed requests had two readings by then, for which somebody must have
failed before, in this load or ever (`counted`, which the load takes over when it starts). `Recovery` is `recovery_seconds`.

`evidence` are the directories, `done` those with a `result.json`; `k6` the repeats whose
container runs; `repeat`, `left`, `killed`, `report`, `exitCode` are variables of the
process. `foreign` and `struck` are history, copied into the result when it is written:
which containers of other repeats ran when the load started, and whether the pod served
when it was killed. The recovery in a result is kept as `NONE`, `AFTER` a fault that the
series shows, or `UNSEEN`.

| Action | Code (`resilience.py`) |
|---|---|
| `Launch`, `Make` | `main` 158-168 numbers the repeats by the directories there are; 112-122 |
| `EndWarmup`, `WarmupFails` | 122, `Runner._run_k6` |
| `StartLoad`, `Tick`, `Kill`, `KillFails` | 124-132, `kill_target_pod` 55-71 |
| `LoadBreaks`, `EndLoad`, `LoadHangs`, `TimeoutExpired` | 134 |
| `Measure`, `MeasureRaises` | 139-144 |
| `Write` | 146-155, and the loop of `main` |
| `Crash`; `OrphanEnds`, `StopServing`, `StartServing` | the process, and external: k6 and the cluster |

### AsyncPipeline

`request` and `send` belong to the producer, `log`, `committed`, `owner`, `position`
to Kafka, `batch`, `busy`, `member` to the listener container, `cache` to the worker;
`worked`, `results`, `lost` are what happened. `Send`, `SendThrows`, `Join` are
`publish`; `ConsumeNew`, `ConsumeDuplicate`, `Finish`, `Interrupt`, `ListenerThrows`
are `TaskWorker.consume` with `publishResult`. `Publish` may be refused at once (the bound on
a batch's bytes), and a send that has expired for the producer may still be appended by the
broker. Everything else is external and comes
from the defaults the code relies on: one thread, commits after the records of a poll,
a record whose listener threw is fetched again.

### SyncChain

The state is kept per hop: `stage[r][i]` is where the call of hop `i` of request `r` is
(called, working, waiting for the next hop, replied, or lost before a thread took it),
`reply[r][i]` its response, hop 0 the orchestrator, `answer[r]` what the gateway tells
the client. `Serve`, `WorkEnds`, `WorkFails`, `ReturnToHop` are `ChainHopController.hop`,
`Receive` and `ReturnToOrchestrator` the orchestrator, `Relay` the gateway. A hop holds a
thread of its service from `Serve` to its response (`Holds`), so `Threads` is the size of
a pool. `Expire` is the clock. `CallBreaks` breaks the connection to any hop of the path:
the caller throws and answers 500, and the hop is not told. It works and calls on, in its
thread, and nobody reads its response; only a call that no thread has taken may be lost.

### Fanout

`thread[i]` is how far `call(i, ...)` is, inline in sequential mode and in a virtual thread
in parallel mode; `future[i]` is the outcome that was set first, the call's or the
cancellation; `target[i]` what the target does about it; `spent` the deadline; `interrupt` an
interrupt of the request's own thread. `Refuse`, `Start`, `CallNext`, `TakeNext`, `GetResult`,
`GetTimesOut`, `GetInterrupted`, `Cancel`, `Answer` are the controller; `Check`, `Send`,
`EndCall`, `GiveUp` the threads, with the test of the deadline and the request to the target
as two steps. `cancel(true)` and `shutdownNow()` set an outcome and an interrupt and wait
for nobody: the thread of a cancelled call goes on until it notices, before or after the
response, and a target goes on with its work.

## 3. Runs

Passing runs:

| Run | Shows | Bounds |
|---|---|---|
| `Scheduler_campaign` | records agree with evidence (`Accounting`, the inductive invariant of the proofs); no run is recorded twice; policy bounds; `EvidenceLedger` is implemented; sessions end, and the campaign ends with a decision unless a file is torn or a session was abandoned | two conditions, two sessions of two blocks, two or three valid runs decide, one fault of any kind, torn writes, discipline `latest` |
| `Scheduler_any_order` | no session has more records than valid runs have come since its baseline, in whatever order sessions are resumed (`ClaimsCovered`) | one condition, three sessions of two blocks, two faults, torn writes, discipline `any` |
| `Capacity_search` | bracket, verdicts, what passed and failed; what is reported is the highest rate that passed, with a narrow interval above it; only an interruption, of a run or of the writing of `discovery.json`, keeps the search from a result | rates 20 and 40, four refinements, one invalid point, one crash or exception, torn writes, any number of launches |
| `Run_repeats` | a restart in the window invalidates; valid runs leave nothing; a leak costs one run; evidence is complete; `RunContract` is implemented | two runs of two conditions, one service, two faults, two restarts or replacements |
| `Podkill_repeats` | a reported recovery is a scrape interval or more behind the last failing request, unless it comes before a reading shows the outage and before a point that would; from two scrapes behind that request, or from the kill, it is less than a step late; the next kill hits a pod that serves; foreign load comes from an earlier repeat without a result; no launch is refused its number; a launch ends | two repeats in any launches, loads of 16 ticks (80 s), every phase of the scrapes, kill at tick 9 or 10, outage of any length, one raising call, hung or broken load, or crash |
| `Pipeline_delivery` | outcomes, of acknowledged tasks and of those answered `DUPLICATE`; causes of rework, `AtLeastOnceQueue`, the backlog drains | one batch of two tasks on one partition, two workers, cache of one key, polls of two, one failure, two moves (rebalance, expulsion, crash) |
| `Chain_answers` | the client is told what happened; no hop begins late; a request is answered, whatever breaks and whatever hops go on for nobody, unless self-calls have taken a pool | two requests of up to four hops, three services of one thread, one broken connection anywhere |
| `Fanout_outcomes` | outcomes are complete, in order and true; the status follows; after the response no call passes its deadline test; requests are answered | three targets, both modes, with and without partial answers, one interrupt of the request |

Why the bounds are enough for the cases that matter. Scheduler: the accounting goes
wrong, if it does, between the sessions of one condition (two sessions) or the blocks
of one (two blocks); two conditions let one of a block fail and the other go on; three
valid runs need both sessions; in any order, a third session makes one that is neither the
oldest nor the newest. Search:
rates of 20 and 40 reach every status, and with up to four refinements the search ends
either way: by a bracket that is narrow after three (35 to 37, 37 to 40) and by the number of
steps (27 to 30 is not narrow yet); midpoints become lower and upper ends, and a torn
file can come at every write. Runner: a leak, the run it fails and the run after
it are two directories and a marker of the other condition; a replaced pod that
restarts takes two disturbances. Pod kill: the intervals keep the ratios of the code;
the load starts more than a rate's range before the kill, as in the code, so that an
outage that the repeat before has left may be long over when the kill comes, and goes on
for longer than outage-free time is needed to report a recovery, so that outages end
early, late and not at all; a load that breaks off ends anywhere; the second repeat meets
a pod and containers in every state the first can leave them in. Pipeline: a cache of one key and two tasks is the
smallest in which a key is evicted while its record may return, and two moves give
a record to another worker and back. Chain: three services and four hops contain
contention without self-calls, and the self-call. Fan-out: three targets are the first
for which a done, a running and an unstarted future exist together.

Runs that end in a violation, each a statement of the repository that the code does not keep
(`PROJECT.json`, findings, quotes the lines):

| Run | Statement | What happens |
|---|---|---|
| `Capacity_resume` | the search can be resumed | a crash while a rate is measured leaves a directory without a point; the run id counts points, so every resumption asks for the same directory and raises `FileExistsError` |
| `Run_replaced_pod` | a restart invalidates a run | the pod is replaced: its new name has no count before, and zero restarts after |
| `Podkill_recovery` | a recovery is reported when the rate stays under the threshold for 15 s, and none if it never does | once requests have failed in an earlier load the series exists from the start of this one, and the first points after the kill do not contain a failing scrape yet: a recovery at the kill is reported for a pod that never comes back |
| `Chain_lost_deadline` | a request past its deadline is answered with 504 | at the second hop the 504 becomes an exception in the first, and 500 for the client |

Further divergences met while modelling, which need no run to be seen; the passing runs check what holds instead:

- `baseline.py:199`: `PORTFOLIO.md:679` says that resumption after a crash is tested against
  counting a run twice. With `Discipline = "any"` and no fault at all TLC finds
  `NoRunRecordedTwice` violated: session 1 is interrupted, session 2 measures a run,
  session 1 is resumed; its baseline is older than the run, which it takes for its own.
  `ClaimsCovered`, checked and proved for every order, is what holds then: no session
  claims more runs than have come since its baseline. The other runs and proofs assume one
  of the two other disciplines.
- `baseline.py:95` writes `state.json` in place. A crash inside the write leaves a file
  nobody can load. `SessionFinishes` and `CampaignDecided` name this as the only exception, with
  the torn `summary.json` that the analysis raises on. `capacity.py:102` does the same to
  `discovery.json`: with a torn file every launch raises in `_load`, and
  `OnlyInterruptionBlocks` names it beside the interrupted run.
- `baseline.py:227` bounds valid runs of a session and not attempts, which
  ADR-0014 bounds too. `YieldBounded` is what holds.
- `cli.py:246` calls a missed throughput criterion `TARGET_RATE_NOT_ACHIEVED`, and the search
  knows it as `ACHIEVED_TARGET_RATIO_BELOW_MINIMUM` (`capacity.py:13`): a rate that misses a
  criterion of ADR-0014 becomes INVALID, and the search stops. In the model it is
  a factor outside `CapacityFailureFactors`, as `TEMPO_TRACE_MISSING` is in `Capacity_search`.
- `kubernetes.py:420` swallows a failed deletion of the marker pod, and the next run starts;
  `docs/02-architecture.md:77` says it does not. `LeakCostsOneRun` is what holds.
- `TaskWorker` recognises a key in one process only: redelivery to another worker is
  worked again. `ReworkIsExplained` counts the causes.
- `values.yaml:71` lets the last workload call itself, so enough long chains hold its
  whole pool and wait for it, with no client timeout. `Exhausted` in `ChainAnswered`
  is exactly this, the calls included that go on after their caller's connection broke.
- `FanoutController:26` reads the budget before a sequential call and not during it: a
  target that does not answer holds the request. `SequentialAnswered`, a
  part of `RequestAnswered`, assumes that targets answer.
- `docs/checkpoints/phase-01-a4-fanout.md:15` lists the cancellation of pending tasks as
  done. `FanoutController:27` cancels and waits for nobody: a call that has passed its test of the
  deadline may still be sent when the response is out, and `cancel(true)` does not stop a
  target's work. `NoCallBegunLate` is what holds, and only for a request that was not
  interrupted: the `catch (Exception)` there takes an interrupt for a spent budget.
- The recoveries that were published for the pod-kill study (30 or 40 s) include the
  time for which the rate still holds scrapes of the outage: `RecoveryFollowsOutage` says
  that a report is a scrape interval (15 s) or more behind the last failing request (or
  comes before any reading shows it), and
  an overall error rate of 3.6% of 300 s is about 11 s of failures.
  `docs/evidence/performance/2026-08-03-phase10-resilience-results.md:33` attributes the
  size to the start of the JVM.
- `resilience.py:148` records the exit code of k6 and nothing looks at it, and nothing
  waits for the successor between two repeats. `KillHitsServing` names what a reader of
  the results can rely on: after a repeat with exit code 0 whose series shows a fault and
  then a recovery, the next kill hits a pod that serves. It rests on a deleted pod
  ceasing to serve within 5 s (section 4): with a longer grace the fault that a series
  shows may be that of the repeat before, and TLC finds the kill that hits nobody (three
  repeats, `Grace = 2`, `KillAt = 6`, `Duration = 16`).

### Deadlock

`Capacity_resume` checks for deadlock. The other runs do not: a torn
`state.json` stops the scheduler for good and a torn `discovery.json` the search, the number
of runs or sessions is spent, or every request has been answered and every record consumed;
there is then really nothing left to do.

### Fairness

- `BaselineScheduler!FairSpec`: weak fairness of the process's own steps, because a
  process that is not killed goes on and a measurement ends by its fixed duration; and
  strong fairness of the operator's return to an unfinished session. Strong, because
  the operator may run finished sessions again in between, which disables the return
  for a while. Faults are never promised.
- `CapacityDiscovery!FairSpec`: weak fairness of the process, and of launching the
  search while it has no result.
- `PodKill!FairSpec`: weak fairness of the study's own steps, the clock of the load among
  them, and of a deleted pod ceasing to serve. That the warm-up ends is among these
  steps, because it has no timeout; that the load ends is not needed, because it has one.
  Nothing is promised about the successor.
- `AsyncPipeline!FairSpec`: weak fairness of the broker for each send that is pending, and
  of each worker's loop (poll, listener, commit, rejoin). That is what a running consumer
  does; it is not promised that it is spared, nor that a send which has expired for the
  producer is appended after all.
- `SyncChain!FairSpec`: weak fairness of the next step of some request. Work has a fixed
  amount, and a free thread is given to a waiting call. No request is preferred: there are
  finitely many, each with finitely many steps, so all of them are taken unless a pool is
  exhausted. Neither the clock nor a broken connection is counted on.
- `Fanout!FairSpec`: weak fairness of the controller, of each thread and of the clock.
  Targets are not trusted, and an interrupted thread need not give up.

## 4. Proofs

Everything is proved for every value of the constants, from the assumptions that the
modules name (`ConditionsAssumption`, `PolicyAssumption`, `OperatorAssumption`;
`SearchAssumption`, `RunAssumption`, `PipelineAssumption`, `FanoutAssumption`, `ChainAssumption`,
`MetricAssumption` and `PodKillAssumption`), with no bound on sessions, faults, points,
targets, requests or repeats other than the constants. Where a theorem needs more, it
says so in its own ASSUME: an operator who resumes only the newest session, a pod that
soon stops serving.

**Scheduler.** `TypeCorrect` is the type invariant. The main result is `AccountsAgree`:
if no older session is resumed (`Discipline # "any"`, an assumption of the theorem that the
code does not enforce), `Accounting` is inductive. What a reader wants, `NoRunRecordedTwice` and
`AtMostOneUnrecorded`, is not inductive: whether `Recover` may credit the newest valid
run depends on three counts (the baseline snapshot, the valid runs on disk, the
records of the session) being about the same runs. `Accounting` ties them: records name runs
of their own session (`OwnRuns`), directories are numbered in the order of their
sessions (`DirectoriesInOrder`), the baseline counts exactly the runs of older sessions
(`BaselineCountsOlder`), an unrecorded run is the newest of its session
(`UnrecordedIsNewest`), and at each point of the loop the conditions already looked at
have nothing left to credit (`RecoveryAccount`, `RunsAccount`, `RunInProgress`). It
holds under the disciplines `latest` and `finish`, and not under `any` (section 3).
`NoDoubleCredit` and `OneRunWaits` follow.

For every order there is `ClaimsAreCovered`: the count of a session's records stays within
the valid runs since its baseline, because a process that recovers has counted the records
of its session when it opened the block, and one that holds a valid summary has added a
run that no record of its session counts (`ClaimsInProgress`).

On top of it, `Budget` bounds what a session yields: blocks are opened in order and none
beyond the planned ones (`BlocksInOrder`, `AtFrontier`), records lie in blocks that exist
(`RecordsInBlocks`) and complete a condition once in each (`OncePerBlock`), what is still
to do in a block has no record there (`TodoUncredited`), so that the runs of a condition,
with the one that waits for its record, never outnumber the blocks (`YieldInBlocks`,
`SessionYieldIsBounded`). `SchedulerImplementsLedger` is the refinement of
`EvidenceLedger`: a summary is a production, a record of a run not yet in the books a
credit, every other step a stutter; it needs `Accounting` for the guard of `Credit`.

`NeverTooManyRuns`, `CompletedMeansValid` and `EvidenceIsAppendOnly` hold under every
discipline and have an invariant of their own, `Measuring`, that says what a process in
the middle of a measurement knows.

**Search.** `IInv` is `TypeOK`, `Bracket`, `OneVerdictPerRate` and `Undecided` (a rate
that is being measured has no verdict yet). `SearchTypes`, `BracketIsReal` and
`DecidedOnce` follow. `CapacityIsABoundary` (`PassesBelowFailures`) needs more: why does a
search that is launched again, and has forgotten where it was, never measure a rate on
the wrong side of a point it finds? Because it replays the points. `Path` says that each
verdict is on the rate that the points before it ask for, `HasFirst` that a verdict still
to come has a first one before it, and `Replays` that the bounds of the process are those of some prefix of the points
(`OnTrack`). `ReportedCapacityHolds` adds that the process has come to the end of them
when it reports (`Exhausted`) and that each refinement step has halved the bracket
(`Halved`).

**Runner.** `IInv` of `RunLifecycle_proofs` says what `_repeat` knows at each point: the
history has not failed and can go on (`InProgress`), which files are written
(`EvidenceSoFar`), that a pod restarted since the first snapshot will be counted by the
gate, and one that was replaced is never again the one from before (`RestartsCounted`,
`RestartsSeen`), and that once the gates have looked the factors say so (`GatesClosed`).
What a directory says to whoever reads it later is `AllSound`. `RestartsInvalidate`,
`ValidRunsLeaveNothing`, `SummaryIsLast` and `TypeCorrect` follow. `LeaksAreAccountedFor`
counts: every marker that is around, and every run lost to one, is charged to a fault of
its own. `RunsKeepContract` is the refinement of `RunContract`, on which the scheduler
and the search rely.

**Pipeline.** `IInv` says where the records in a worker's hands come from and that a
member's are those behind the position of a partition it owns (`Shape`), that a key in a
cache is done or in work at that very worker (`CacheKnows`), and that everything before a
position is done (`PositionIsDone`), where done is worked, with an outcome published or a
result that was lost after it was sent. The last is why a commit may acknowledge.
`AcknowledgedTasksHaveOutcomes` follows, and with `DuplicateMeansWorked` that `DUPLICATE`
can be relied on. `ReworkHasItsCause` is a count of debts: `Owes(k)` adds to the times a
task was worked the workers at work on it, those expelled that still hold it and do not
know it, and one if it is yet to come to a partition or lies in one whose owner does not
know it; it never exceeds one more than the moves and evictions (`DebtIsPaid`), since each
step that would add a debt is paid for by one. `PipelineImplementsQueue` is the
refinement of `AtLeastOnceQueue`.

**Fan-out.** `IInv` adds to `TypeOK` and `OutcomesAreTrue` what a future says of its
target and its thread (`FuturesAreTrue`: a completed future's target answered, a failed one's
broke or its request was interrupted, and a timed-out or cancelled one exists only once the
budget is spent or the request interrupted), which futures are settled at each point of the
controller (`CollectedAreDone`), why a wait may be given up (`WaitIsOver`), and that the
answer is the status of complete outcomes (`AnswerIsStatus`). `OutcomesAlwaysTrue` and
`AnswersAlwaysTrue` follow. `NoLateCall`: after the response every future is settled, so a
call that has not tested the deadline was cancelled; if the request was not interrupted,
it was for a spent budget (`LateCallWasInterrupted`), and the test fails.

**Chain.** `IInv` says of each request on its own that one hop at a time is called or works
and the hops above it have done their work, whoever still waits for them (`Path`); that each
response is explained by the work, the deadline and the breaks behind it (`Replies`); that
nothing has begun since the deadline (`InTime`); and which part of the path the client still
hangs on (`Unbroken`). As long as no connection of the request broke, a hop that replied
has none at work below it (`Intact`); once one broke, the client has a 500, or one is on its
way up through callers that wait (`Doomed`), whatever the hops below go on doing. That is
why a broken request is never told 200 or 504. The pools are the part that relates requests:
a step makes no set of held threads larger except `Serve`, by one, after `ThreadFree`
(`PoolsShrink`, `PoolsGrow`, on cardinalities). `TypeCorrect`, `AnswersAreExplained` and
`NoLateWork` follow, for any number of requests, hops, services, threads and breaks.

**Pod kill.** Three layers. `IInv`: a launch has room for what it has left and works on
the newest directory (`Progress`), there is a kill only while a load is measured, and in
time (`KillInTime`), a container that runs belongs to a repeat without a result
(`Containers`), and what ran when the load started was started earlier (`ForeignOpen`);
`StudyTypes`, `LaunchGetsItsNumber` and `ForeignLoadIsExplained` follow. `Seen`: from the kill and the grace on,
every tick without a pod fails (`OutageSeen`), and what is written is the recovery of this
load (`Measured`). `PodHanded`: what a repeat with a trusted result leaves for the next.

`recovery_seconds` itself is the subject of lemmas that know nothing of the study. A rate
is made of exactly two readings, a scrape interval apart, and is above the threshold iff a
failing tick lies between them (`RateOfTwo`); so before a low rate the later reading is
older than an outage or the earlier one younger (`LowRate`); and a rate does not go away
again (`RateStays`). A report has a low rate, and so has the next point, if there is one:
were the readings of the one before the outage and those of the other behind it, they
would be two scrape intervals apart, and a step is no longer than one
(`ReportBehindOutage`). Two scrapes behind the last failure there are two readings, and no
failure between any later ones (`ReportInTime`). That gives `ReportFollowsOutage` and
`ReportIsNotLate`. They rest on `MetricAssumption`: the range of the rate is two scrape
intervals, and an evaluation step is no longer than a scrape interval or the sustained
time (30, 15, 10, 15 in the code).

The proofs corrected three statements that small instances had left standing. A report at
the very end of a load has no next point, so it need not lie behind the outage. An outage
that the repeat before has left may be over long before the kill, and then the kill is
what a report is late against. And `KillHitsServing` needs a bound on the grace: a pod
that is never there again has failing ticks from the grace on, which no report lies
behind, so the report comes before they show, less than two scrapes and grace after the
kill; for a fault to be seen before it, a step earlier and not before the kill, the grace
would have to be longer than two steps less a scrape interval. `NextKillHitsServing`
therefore assumes `GraceIsShort`, 5 s with the intervals of the code, and `LoadIsLong`, a
load that goes on a scrape, a step and the grace behind the latest kill. Both hold in the
run, with nothing to spare, and TLC finds `KillHitsServing` violated without either
(three repeats, kill at tick 6, no lag or fault: `Grace = 2` with 16 ticks of load,
`Grace = 1` with 9).

**Only proved.** `EvidencePreserved`, that no step changes or removes evidence
(`EvidenceIsAppendOnly`), and the types of the pod-kill study (`StudyTypes`): no run repeats
them.

**Only model-checked.** Liveness: `SessionFinishes`, `CampaignDecided`,
`OnlyInterruptionBlocks`, `LaunchEnds`, `BacklogDrains`, `ChainAnswered` and
`RequestAnswered`. Their proofs would need `ENABLED`, which the installed provers do not
handle. What a recursive definition computes would need induction over data, so the models
use none.

## 5. Not modelled

- Statistics of `analysis.py` and `compare_profiles.py` (bootstrap over floating-point
  samples). The scheduler model leaves their one result, precise or not, open.
- Telemetry queries and the thresholds on their numbers: one factor.
- `_latest_selected_run` sorts directory names (`baseline.py:134`), and the model takes the
  greatest number: the same below 100 directories of a condition.
- Pods of the chain that die, clocks that differ between pods, and the moment between the
  test of the deadline at a hop and the begin of its work, which are one step: it is the
  test that is checked. A Java `Error` in a thread of the fan-out.
- Peak and overall error rates of the pod-kill study, which are read off the series and
  judged by nobody; pods that die without being killed; more than one orchestrator pod.
- The chain-delay experiment of phase 10 is a baseline campaign with another work
  delay, so `BaselineScheduler` is its model.
- Replica scaling: a loop over `_repeat` that decides nothing. It starts at repeat 1 in every
  launch and so meets its own directories after an interruption, the mechanism that
  `Capacity_resume` shows.
- Correlation ids and headers of the services: values that no protocol step reads.
- The k6 script, the web console, charts,
  profiles and contracts: configuration, presentation, or no state of their own.
- Payload generation and checksums, ping and runtime configuration endpoints:
  stateless relays.

## 6. Plan

Order in which the models were written, and what is left:

1. Done: scheduler with ledger, its accounting, budget and refinement; capacity search
   with boundary and report; run lifecycle and contract; pipeline and queue, chain,
   fan-out; the pod-kill study with its metric. The safety properties and refinements of
   each are proved.
2. Left: a bound on how often a run is recorded when sessions are resumed in any order
   (`ClaimsCovered` bounds the records of each session); fairness-free progress of the search (each measured rate narrows the bracket);
   the same of the scheduler's blocks.

## 7. How to run

    tlc -workers 2 -config Scheduler_campaign.cfg BaselineScheduler.tla
    tlapm BaselineScheduler_accounting.tla

`PROJECT.json` lists each run with its module and configuration, the source lines of
every definition, and the theorems.
