-------------------------- MODULE BaselineScheduler --------------------------
(***************************************************************************)
(* The formal-measurement scheduler, src/experiments/baseline.py: sessions *)
(* of randomized blocks, each measuring every operating point once, with   *)
(* crash recovery from the evidence directories and a stopping rule        *)
(* computed from them (src/experiments/analysis.py).                       *)
(*                                                                         *)
(* Two pieces of durable state survive a crash and can disagree:           *)
(*   - disk: results/<prefix>-<condition>/repeat-NN, written by the runner;*)
(*   - state.json: sessions, blocks and run records, written by _write.    *)
(* Everything else lives in the process and is lost with it.               *)
(*                                                                         *)
(* Simplifications:                                                        *)
(*   - every change of state.json in memory is followed at once by _write, *)
(*     so the two are one variable; a crash inside _write is TornWrites;   *)
(*   - the run records of all blocks are one sequence, ledger, with their  *)
(*     session and block: the code searches the lists and only appends;    *)
(*   - a session is known by its position in creation order; its number    *)
(*     only seeds the block order, and a block visits the conditions in    *)
(*     any order (block_order is a permutation of them);                   *)
(*   - whether the confidence intervals are narrow enough is data: it may  *)
(*     change when a valid run is added, and only then.                    *)
(***************************************************************************)
EXTENDS Integers, FiniteSets, Sequences

CONSTANTS
  Conditions,   \* operating points of the campaign
  MinValid,     \* POLICY minimumValidRuns
  MaxValid,     \* POLICY maximumValidRuns
  MinBlocks,    \* bound: smallest --blocks that the operator gives
  MaxBlocks,    \* largest --blocks the command line accepts
  Discipline,   \* how the operator picks sessions: "any", "latest", "finish"
  TornWrites,   \* may a crash leave a half-written JSON file behind?
  MaxSessions,  \* bound: sessions started
  MaxFaults     \* bound: crashes, failed runs and invalid runs together

ASSUME ConditionsAssumption == IsFiniteSet(Conditions) /\ Conditions # {}
ASSUME PolicyAssumption ==
  /\ MinValid \in Nat \ {0}
  /\ MaxValid \in Nat
  /\ MinValid <= MaxValid
  /\ MinBlocks \in Nat \ {0}
  /\ MaxBlocks \in Nat \ {0}
ASSUME OperatorAssumption ==
  /\ Discipline \in {"any", "latest", "finish"}
  /\ TornWrites \in BOOLEAN
  /\ MaxSessions \in Nat
  /\ MaxFaults \in Nat

VARIABLES
  disk,      \* disk[c]: repeat index -> evidence of that run directory
  precise,   \* precise[c]: are the intervals over the valid runs narrow enough?
  sessions,  \* state.json "sessions", in creation order
  ledger,    \* state.json run records of all blocks, in the order appended
  status,    \* state.json "status"
  readable,  \* does state.json parse?
  pc,        \* where the scheduler process is; "idle": no process
  at,        \* process: session, number of blocks asked for, current block
  todo,      \* process: conditions the current loop has still to visit
  done,      \* process: completed_conditions of the current block
  assigned,  \* process: assigned, computed when the block was opened
  run,       \* process: condition and repeat of the run in progress
  faults     \* bound: faults injected so far

durable == <<disk, precise, sessions, ledger, status, readable>>
local == <<at, todo, done, assigned, run>>
vars == <<durable, pc, local, faults>>

-----------------------------------------------------------------------------
\* Evidence and the stopping rule.

\* The verdict of a run directory: no summary.json, a summary that is valid,
\* invalid or half written, or a valid one of another config fingerprint.
\* "by" is a history value: the session whose process made the directory.
Verdicts == {"NONE", "COMPLETED", "INVALID", "TORN", "FOREIGN"}
Evidence == [verdict : Verdicts, by : Nat]

Valid(c) == {r \in DOMAIN disk[c] : disk[c][r].verdict = "COMPLETED"}
ValidRuns(c) == Cardinality(Valid(c))

\* analyze() raises on a summary that does not parse.
Analyzable(c) == \A r \in DOMAIN disk[c] : disk[c][r].verdict # "TORN"

MutDecisionOffByOne(c) ==
  IF ValidRuns(c) >= MinValid /\ (precise[c] \/ ValidRuns(c) > MaxValid)
    THEN "STOP" ELSE "CONTINUE"

\* STOP_PRECISION_REACHED and INCONCLUSIVE_MAX_RUNS stop a condition alike.
Decision(c) ==
  IF ValidRuns(c) >= MinValid /\ (precise[c] \/ ValidRuns(c) >= MaxValid)
    THEN "STOP" ELSE "CONTINUE"

Greatest(S) == CHOOSE n \in S : \A m \in S : m <= n

NextRepeat(c) == Greatest(DOMAIN disk[c] \cup {0}) + 1

\* The code takes the last of the sorted names, repeat-01, repeat-02, ...: the same run
\* as long as there are fewer than 100 directories.
LatestSelectedRun(c) == Greatest(Valid(c))

MutZeroBaseline == [c \in Conditions |-> 0]

Baseline == [c \in Conditions |-> ValidRuns(c)]

\* File `e` under index r of the run directories f.
Put(f, r, e) == [x \in DOMAIN f \cup {r} |-> IF x = r THEN e ELSE f[x]]

-----------------------------------------------------------------------------
\* The run records of state.json.

RecordStatus == {"COMPLETED", "INVALID", "FAILED", "SKIPPED"}

\* Positions of the COMPLETED records of condition c in session s.
Recorded(s, c) ==
  {i \in DOMAIN ledger : /\ ledger[i].session = s
                         /\ ledger[i].condition = c
                         /\ ledger[i].status = "COMPLETED"}

MutForgetsBlock(s, b) == {}

CompletedIn(s, b) ==
  {c \in Conditions : \E i \in Recorded(s, c) : ledger[i].block = b}

MutCountsThisBlock(s) ==
  [c \in Conditions |->
     Cardinality({i \in Recorded(s, c) : ledger[i].block = at.block})]

Assigned(s) == [c \in Conditions |-> Cardinality(Recorded(s, c))]

Record(c, stat, r) ==
  ledger' = Append(ledger, [session |-> at.session, block |-> at.block,
                            condition |-> c, status |-> stat, repeat |-> r])

-----------------------------------------------------------------------------

NoRun == [condition |-> CHOOSE c \in Conditions : TRUE, repeat |-> 0]
Nowhere == [session |-> 0, planned |-> 0, block |-> 0]

\* The process is gone, with everything it held.
Exit ==
  /\ pc' = "idle"
  /\ at' = Nowhere
  /\ todo' = {}
  /\ done' = {}
  /\ assigned' = [c \in Conditions |-> 0]
  /\ run' = NoRun

MutZeroBasedBlocks(s, b) ==
  /\ pc' = "open"
  /\ at' = [session |-> s, planned |-> b - 1, block |-> 0]
  /\ UNCHANGED <<todo, done, assigned, run>>

\* The process starts on session s with blocks 1 .. b to go through.
Enter(s, b) ==
  /\ pc' = "open"
  /\ at' = [session |-> s, planned |-> b, block |-> 1]
  /\ UNCHANGED <<todo, done, assigned, run>>

Fault == /\ faults < MaxFaults
         /\ faults' = faults + 1

Init ==
  /\ disk \in [Conditions ->
                 {<<>>, <<[verdict |-> "FOREIGN", by |-> 0]>>}]
  /\ precise = [c \in Conditions |-> FALSE]
  /\ sessions = <<>>
  /\ ledger = <<>>
  /\ status = "READY"
  /\ readable = TRUE
  /\ pc = "idle"
  /\ at = Nowhere
  /\ todo = {}
  /\ done = {}
  /\ assigned = [c \in Conditions |-> 0]
  /\ run = NoRun
  /\ faults = 0

-----------------------------------------------------------------------------
\* The operator's command line.

\* A session number that state.json does not hold yet: snapshot the baseline.
StartSession(b) ==
  /\ pc = "idle"
  /\ readable
  /\ Len(sessions) < MaxSessions
  /\ Discipline = "finish" /\ sessions # <<>> =>
       sessions[Len(sessions)].status = "COMPLETED"
  /\ \A c \in Conditions : Analyzable(c)
  /\ sessions' = Append(sessions, [baseline |-> Baseline, blocks |-> <<>>,
                                   status |-> "RUNNING"])
  /\ status' = "RUNNING"
  /\ Enter(Len(sessions) + 1, b)
  /\ UNCHANGED <<disk, precise, ledger, readable, faults>>

\* A session number that it does hold: go through its blocks again.
ResumeSession(s, b) ==
  /\ pc = "idle"
  /\ readable
  /\ Discipline # "any" => s = Len(sessions)
  /\ status' = "RUNNING"
  /\ Enter(s, b)
  /\ UNCHANGED <<disk, precise, sessions, ledger, readable, faults>>

-----------------------------------------------------------------------------
\* execute_session, one action per step that a crash can separate.

BlockStatus(s, b) ==
  IF b \in DOMAIN sessions[s].blocks THEN sessions[s].blocks[b] ELSE "ABSENT"

MutSkipStays ==
  /\ pc = "open"
  /\ at.block <= at.planned
  /\ BlockStatus(at.session, at.block) = "COMPLETED"
  /\ UNCHANGED vars

SkipBlock ==
  /\ pc = "open"
  /\ at.block <= at.planned
  /\ BlockStatus(at.session, at.block) = "COMPLETED"
  /\ at' = [at EXCEPT !.block = @ + 1]
  /\ UNCHANGED <<durable, pc, todo, done, assigned, run, faults>>

\* Reuse the unfinished block or append a new one, then take stock of it.
OpenBlock ==
  LET s == at.session
      b == at.block
  IN /\ pc = "open"
     /\ b <= at.planned
     /\ BlockStatus(s, b) # "COMPLETED"
     /\ sessions' = [sessions EXCEPT ![s].blocks =
                       IF BlockStatus(s, b) = "ABSENT"
                         THEN Append(@, "RUNNING") ELSE @]
     /\ done' = CompletedIn(s, b)
     /\ assigned' = Assigned(s)
     /\ todo' = Conditions
     /\ pc' = "recover"
     /\ UNCHANGED <<disk, precise, ledger, status, readable, at, run, faults>>

NewValidRuns(c) == ValidRuns(c) - sessions[at.session].baseline[c]

MustRecover(c) == c \notin done /\ NewValidRuns(c) > assigned[c]

\* Recovery loop: more valid runs appeared since the session started than its
\* records account for, so the newest one becomes this block's result.
Recover(c) ==
  /\ pc = "recover"
  /\ c \in todo
  /\ Analyzable(c)
  /\ MustRecover(c)
  /\ Record(c, "COMPLETED", LatestSelectedRun(c))
  /\ done' = done \cup {c}
  /\ todo' = todo \ {c}
  /\ UNCHANGED <<disk, precise, sessions, status, readable, pc, at, assigned,
                 run, faults>>

NothingToRecover(c) ==
  /\ pc = "recover"
  /\ c \in todo
  /\ Analyzable(c)
  /\ ~MustRecover(c)
  /\ todo' = todo \ {c}
  /\ UNCHANGED <<durable, pc, at, done, assigned, run, faults>>

BeginRuns ==
  /\ pc = "recover"
  /\ todo = {}
  /\ todo' = Conditions \ done
  /\ pc' = "run"
  /\ UNCHANGED <<durable, at, done, assigned, run, faults>>

\* Run loop: the stopping rule has already decided this condition.
SkipCondition(c) ==
  /\ pc = "run"
  /\ c \in todo
  /\ Analyzable(c)
  /\ Decision(c) # "CONTINUE"
  /\ Record(c, "SKIPPED", 0)
  /\ todo' = todo \ {c}
  /\ UNCHANGED <<disk, precise, sessions, status, readable, pc, at, done,
                 assigned, run, faults>>

\* Run loop: Runner._repeat makes the directory and starts measuring.
StartRun(c) ==
  /\ pc = "run"
  /\ c \in todo
  /\ Analyzable(c)
  /\ Decision(c) = "CONTINUE"
  /\ disk' = [disk EXCEPT ![c] =
                Put(@, NextRepeat(c), [verdict |-> "NONE", by |-> at.session])]
  /\ run' = [condition |-> c, repeat |-> NextRepeat(c)]
  /\ pc' = "measuring"
  /\ UNCHANGED <<precise, sessions, ledger, status, readable, at, todo, done,
                 assigned, faults>>

FileSummary(v) ==
  disk' = [disk EXCEPT ![run.condition] =
             Put(@, run.repeat, [verdict |-> v, by |-> at.session])]

\* Runner._repeat writes a valid summary.json; report.md is still to come.
SummaryValid ==
  /\ pc = "measuring"
  /\ FileSummary("COMPLETED")
  /\ \E p \in BOOLEAN : precise' = [precise EXCEPT ![run.condition] = p]
  /\ pc' = "summarised"
  /\ UNCHANGED <<sessions, ledger, status, readable, local, faults>>

\* Runner._repeat writes a summary.json that some gate made INVALID.
SummaryInvalid ==
  /\ pc = "measuring"
  /\ Fault
  /\ FileSummary("INVALID")
  /\ pc' = "summarised"
  /\ UNCHANGED <<precise, sessions, ledger, status, readable, local>>

\* Back to the loop with the record of the run that just ended.
RunRecorded(stat) ==
  /\ Record(run.condition, stat, run.repeat)
  /\ todo' = todo \ {run.condition}
  /\ run' = NoRun
  /\ pc' = "run"
  /\ UNCHANGED <<disk, precise, sessions, status, readable, at, done, assigned>>

\* Runner._repeat raises: before the summary, or after it (report.md, the last
\* transition). The record says FAILED either way.
RunFails ==
  /\ pc \in {"measuring", "summarised"}
  /\ Fault
  /\ RunRecorded("FAILED")

RunReturns ==
  /\ pc = "summarised"
  /\ RunRecorded(disk[run.condition][run.repeat].verdict)
  /\ UNCHANGED faults

CloseBlock ==
  /\ pc = "run"
  /\ todo = {}
  /\ sessions' = [sessions EXCEPT ![at.session].blocks[at.block] = "COMPLETED"]
  /\ at' = [at EXCEPT !.block = @ + 1]
  /\ done' = {}
  /\ assigned' = [c \in Conditions |-> 0]
  /\ pc' = "open"
  /\ UNCHANGED <<disk, precise, ledger, status, readable, todo, run, faults>>

CloseSession ==
  /\ pc = "open"
  /\ at.block > at.planned
  /\ \A c \in Conditions : Analyzable(c)
  /\ sessions' = [sessions EXCEPT ![at.session].status = "COMPLETED"]
  /\ status' = IF \A c \in Conditions : Decision(c) # "CONTINUE"
                 THEN "COMPLETED" ELSE "SESSION_COMPLETED"
  /\ Exit
  /\ UNCHANGED <<disk, precise, ledger, readable, faults>>

\* _decision raises outside the try of the run loop: the process ends.
Raise ==
  /\ pc \in {"recover", "run", "open"}
  /\ \E c \in Conditions : ~Analyzable(c)
  /\ pc = "open" => at.block > at.planned
  /\ pc # "open" => \E c \in todo : ~Analyzable(c)
  /\ Exit
  /\ UNCHANGED <<durable, faults>>

-----------------------------------------------------------------------------
\* The host.

\* Power loss, OOM kill, operator's Ctrl-C: the process dies between writes.
Crash ==
  /\ pc # "idle"
  /\ Fault
  /\ Exit
  /\ UNCHANGED durable

\* ... or inside the write_text of summary.json.
CrashInSummary ==
  /\ TornWrites
  /\ pc = "measuring"
  /\ Fault
  /\ FileSummary("TORN")
  /\ Exit
  /\ UNCHANGED <<precise, sessions, ledger, status, readable>>

\* ... or inside the write_text of state.json.
CrashInStateFile ==
  /\ TornWrites
  /\ pc # "idle"
  /\ Fault
  /\ readable' = FALSE
  /\ Exit
  /\ UNCHANGED <<disk, precise, sessions, ledger, status>>

-----------------------------------------------------------------------------

Operator ==
  \E b \in MinBlocks .. MaxBlocks :
    \/ StartSession(b)
    \/ \E s \in DOMAIN sessions : ResumeSession(s, b)

Step ==
  \/ SkipBlock \/ OpenBlock \/ BeginRuns
  \/ \E c \in Conditions : \/ Recover(c)
                           \/ NothingToRecover(c)
                           \/ SkipCondition(c)
                           \/ StartRun(c)
  \/ SummaryValid \/ SummaryInvalid \/ RunFails \/ RunReturns
  \/ CloseBlock \/ CloseSession \/ Raise

Host == Crash \/ CrashInSummary \/ CrashInStateFile

Next == Operator \/ Step \/ Host

Spec == Init /\ [][Next]_vars

(***************************************************************************)
(* A process that is not killed keeps going: every step of its loops is    *)
(* taken, and a measurement ends because k6 runs for a fixed duration. The *)
(* operator comes back to an unfinished session, and otherwise starts      *)
(* another one until the campaign is decided; strong fairness, because     *)
(* rerunning a finished session first, any number of times, is allowed but *)
(* not for ever. Crashes, failures and invalid runs are never promised and *)
(* never ruled out.                                                        *)
(***************************************************************************)
Unfinished == sessions # <<>> /\ sessions[Len(sessions)].status # "COMPLETED"

Return ==
  \E b \in MinBlocks .. MaxBlocks :
    \/ Unfinished /\ ResumeSession(Len(sessions), b)
    \/ ~Unfinished /\ status # "COMPLETED" /\ StartSession(b)

FairSpec == Spec /\ WF_vars(Step) /\ SF_vars(Return)

-----------------------------------------------------------------------------
\* Properties.

RunRecord == [session : Nat \ {0}, block : Nat \ {0}, condition : Conditions,
              status : RecordStatus, repeat : Nat]
Session == [baseline : [Conditions -> Nat],
            blocks : Seq({"RUNNING", "COMPLETED"}),
            status : {"RUNNING", "COMPLETED"}]

\* The shape of the state, and where the process can point to in it.
TypeOK ==
  /\ disk \in [Conditions -> Seq(Evidence)]
  /\ precise \in [Conditions -> BOOLEAN]
  /\ sessions \in Seq(Session)
  /\ ledger \in Seq(RunRecord)
  /\ status \in {"READY", "RUNNING", "SESSION_COMPLETED", "COMPLETED"}
  /\ readable \in BOOLEAN
  /\ pc \in {"idle", "open", "recover", "run", "measuring", "summarised"}
  /\ at \in [session : Nat, planned : Nat, block : Nat]
  /\ todo \subseteq Conditions
  /\ done \subseteq Conditions
  /\ assigned \in [Conditions -> Nat]
  /\ run \in [condition : Conditions, repeat : Nat]
  /\ faults \in Nat
  /\ pc # "idle" => at.session \in DOMAIN sessions
  /\ pc = "open" => at.block \in 1 .. Len(sessions[at.session].blocks) + 1
  /\ pc \in {"recover", "run", "measuring", "summarised"} =>
       at.block \in DOMAIN sessions[at.session].blocks
  /\ pc \in {"measuring", "summarised"} =>
       run.repeat \in DOMAIN disk[run.condition]
  /\ pc = "summarised" =>
       disk[run.condition][run.repeat].verdict \in {"COMPLETED", "INVALID"}

\* A record that says COMPLETED names a run whose evidence is valid for this
\* configuration, whether it was measured or recovered after a crash.
RecordsNameValidRuns ==
  \A i \in DOMAIN ledger :
    ledger[i].status = "COMPLETED" =>
      ledger[i].repeat \in Valid(ledger[i].condition)

\* No run is counted twice: two COMPLETED records, of any blocks of any
\* sessions, never name the same run directory. The baseline snapshot and
\* assigned are there for this (baseline.py:149-153, 187-194).
NoRunRecordedTwice ==
  \A i, j \in DOMAIN ledger :
    /\ ledger[i].status = "COMPLETED"
    /\ ledger[j].status = "COMPLETED"
    /\ ledger[i].condition = ledger[j].condition
    /\ ledger[i].repeat = ledger[j].repeat
    => i = j

\* In whatever order the operator resumes sessions, the COMPLETED records of a session
\* are never more than the valid runs that have come since its baseline: what goes
\* wrong when an older session is resumed is that two sessions, or two blocks, take the
\* same run, and never that a session claims more than there is (baseline.py:197-199).
ClaimsCovered ==
  \A s \in DOMAIN sessions, c \in Conditions :
    Cardinality(Recorded(s, c)) <= ValidRuns(c) - sessions[s].baseline[c]

\* The valid runs that the processes of session s produced for condition c.
Yield(s, c) == {r \in Valid(c) : disk[c][r].by = s}

CreditedRuns(c) ==
  {ledger[i].repeat : i \in {j \in DOMAIN ledger : /\ ledger[j].condition = c
                                                   /\ ledger[j].status = "COMPLETED"}}

\* A crash, or a failure after the summary was written, leaves at most one
\* valid run of a condition without a record, however many of them a session
\* goes through: the next block takes it up before it measures again.
AtMostOneUnrecorded ==
  \A c \in Conditions, s \in DOMAIN sessions :
    Cardinality(Yield(s, c) \ CreditedRuns(c)) <= 1

\* Why no run is recorded twice: the inductive invariant behind
\* NoRunRecordedTwice and AtMostOneUnrecorded when no older session is resumed.
\* It ties the two durable states together: a record names a run of its own
\* session; directories are numbered in the order of their sessions; the
\* baseline counts the valid runs of the sessions before; a run without a
\* record is the newest of its session; and the process, wherever it is, only
\* measures a condition all of whose runs have been credited.
Settled(c) == Yield(Len(sessions), c) \subseteq CreditedRuns(c)

OwnRuns ==
  \A i \in DOMAIN ledger :
    ledger[i].status = "COMPLETED" =>
      ledger[i].repeat \in Yield(ledger[i].session, ledger[i].condition)

DirectoriesInOrder ==
  \A c \in Conditions : \A r \in DOMAIN disk[c] :
    /\ disk[c][r].by <= Len(sessions)
    /\ \A q \in DOMAIN disk[c] : r <= q => disk[c][r].by <= disk[c][q].by

BaselineCountsOlder ==
  sessions # <<>> =>
    \A c \in Conditions :
      sessions[Len(sessions)].baseline[c] =
        Cardinality(Valid(c) \ Yield(Len(sessions), c))

UnrecordedIsNewest ==
  \A c \in Conditions, s \in DOMAIN sessions :
    \A r \in Yield(s, c) \ CreditedRuns(c) :
      \A q \in Yield(s, c) : q <= r

Books == /\ NoRunRecordedTwice
         /\ OwnRuns
         /\ DirectoriesInOrder
         /\ BaselineCountsOlder
         /\ UnrecordedIsNewest

RecoveryAccount ==
  pc = "recover" =>
    /\ \A c \in todo : assigned[c] = Cardinality(Recorded(Len(sessions), c))
    /\ \A c \in Conditions \ (todo \cup done) : Settled(c)

RunsAccount ==
  /\ pc \in {"run", "measuring"} => \A c \in todo : Settled(c)
  /\ pc = "summarised" => \A c \in todo \ {run.condition} : Settled(c)

RunInProgress ==
  /\ pc \in {"measuring", "summarised"} =>
       /\ run.condition \in todo
       /\ run.repeat = Len(disk[run.condition])
       /\ disk[run.condition][run.repeat].by = Len(sessions)
       /\ run.repeat \notin CreditedRuns(run.condition)
  /\ pc = "measuring" => disk[run.condition][run.repeat].verdict = "NONE"

Accounting ==
  Discipline # "any" =>
    /\ Books
    /\ pc # "idle" => at.session = Len(sessions)
    /\ RecoveryAccount
    /\ RunsAccount
    /\ RunInProgress

\* maximumRunsPerSession: one session never adds more than MaxBlocks valid
\* runs to a condition, whatever crashes, failures and restarts it sees.
YieldBounded ==
  \A c \in Conditions, s \in DOMAIN sessions :
    Cardinality(Yield(s, c)) <= MaxBlocks

\* maximumValidRuns: measuring stops at the bound.
ValidRunsBounded == \A c \in Conditions : ValidRuns(c) <= MaxValid

\* Evidence is append-only: a directory is never reused and a verdict, once
\* written, never changes.
EvidencePreserved ==
  [][\A c \in Conditions : \A r \in DOMAIN disk[c] :
       /\ r \in DOMAIN disk'[c]
       /\ disk'[c][r].by = disk[c][r].by
       /\ disk[c][r].verdict # "NONE" =>
            disk'[c][r].verdict = disk[c][r].verdict]_disk

\* The scheduler implements EvidenceLedger: its valid runs are what was
\* produced, its COMPLETED records are the credits.
Credited(c) ==
  LET entries == {i \in DOMAIN ledger : /\ ledger[i].condition = c
                                        /\ ledger[i].status = "COMPLETED"}
  IN [i \in entries |-> ledger[i].repeat]

Abstract ==
  INSTANCE EvidenceLedger WITH
    produced <- [c \in Conditions |-> Valid(c)],
    credited <- [c \in Conditions |-> Credited(c)]

ImplementsLedger == Abstract!Spec

\* A session that was started is finished, unless the operator moves on to another
\* one. Only a crash inside a write can prevent it: state.json or a summary.json is
\* then torn, and whoever reads it raises (baseline.py:95, cli.py:117).
FilesWhole == readable /\ \A c \in Conditions : Analyzable(c)

SessionFinishes ==
  \A s \in 1 .. MaxSessions :
    Len(sessions) = s ~>
      Len(sessions) > s \/ (Len(sessions) = s /\ ~Unfinished) \/ ~FilesWhole

\* The campaign ends with every condition decided, unless a session is left
\* unfinished for a newer one: no accounting error makes sessions go by without
\* new measurements (PORTFOLIO.md, item 4).
Abandoned ==
  \E s \in DOMAIN sessions : s < Len(sessions) /\ sessions[s].status # "COMPLETED"

CampaignDecided == <>(status = "COMPLETED" \/ ~FilesWhole \/ Abandoned)

=============================================================================
