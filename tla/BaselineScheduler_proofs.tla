---------------------- MODULE BaselineScheduler_proofs ----------------------
(***************************************************************************)
(* Proofs about BaselineScheduler: type correctness, the bound on valid    *)
(* runs, records that name valid runs, and evidence that is append-only,   *)
(* for every set of conditions, policy, operator discipline and number of  *)
(* faults, with and without torn writes.                                   *)
(***************************************************************************)
EXTENDS BaselineScheduler, FiniteSetTheorems, WellFoundedInduction, TLAPS

-----------------------------------------------------------------------------
\* The helpers.

\* A finite non-empty set of integers has a greatest element, so Greatest
\* returns it. The witness comes from the smallest of the sets of elements
\* from some x upwards, which exists because finite sets are well-founded
\* under strict inclusion.
LEMMA GreatestOfFinite ==
  ASSUME NEW S \in SUBSET Int, IsFiniteSet(S), S # {}
  PROVE  /\ Greatest(S) \in S
         /\ \A m \in S : m <= Greatest(S)
<1> DEFINE From(x) == {y \in S : x <= y}
           Froms == {From(x) : x \in S}
<1>1. Froms \subseteq FiniteSubsetsOf(S) /\ Froms # {}
  <2>1. ASSUME NEW x \in S
        PROVE  From(x) \in SUBSET S
    OBVIOUS
  <2>2. ASSUME NEW x \in S
        PROVE  IsFiniteSet(From(x))
    BY <2>1, FS_Subset
  <2> QED BY <2>1, <2>2 DEF FiniteSubsetsOf
<1>2. PICK U \in Froms :
        \A T \in Froms : <<T, U>> \notin StrictSubsetOrdering(S)
  <2>1. IsWellFoundedOn(StrictSubsetOrdering(S), FiniteSubsetsOf(S))
    BY FS_StrictSubsetOrderingWellFounded
  <2> HIDE DEF Froms
  <2> QED BY <1>1, <2>1, WFMin
<1>3. PICK x \in S : U = From(x)
  OBVIOUS
<1>4. ASSUME NEW z \in S, ~(z <= x)
      PROVE  FALSE
  <2>1. From(z) \in Froms /\ U \in Froms
    OBVIOUS
  <2>2. From(z) \subseteq U /\ x \in U /\ x \notin From(z)
    <3>1. x \in Int /\ z \in Int /\ \A y \in S : y \in Int
      OBVIOUS
    <3>2. x < z /\ x <= x
      BY <1>4, <3>1
    <3>3. \A y \in S : z <= y => x <= y
      BY <3>1, <3>2
    <3>4. From(z) \subseteq From(x)
      BY <3>3
    <3>5. x \in From(x) /\ x \notin From(z)
      BY <3>1, <3>2
    <3> QED BY <1>3, <3>4, <3>5
  <2>3. From(z) \in SUBSET S /\ U \in SUBSET S
    BY <1>3
  <2>4. <<From(z), U>> \in StrictSubsetOrdering(S)
    BY <2>2, <2>3 DEF StrictSubsetOrdering
  <2> QED BY <1>2, <2>1, <2>4
<1>5. \E n \in S : \A m \in S : m <= n
  BY <1>4
<1> QED BY <1>5 DEF Greatest

\* Filing evidence under an index of a sequence, or just past its end, gives
\* a sequence again.
LEMMA PutInSequence ==
  ASSUME NEW T, NEW f \in Seq(T), NEW e \in T, NEW r \in 1 .. Len(f) + 1
  PROVE  /\ Put(f, r, e) \in Seq(T)
         /\ DOMAIN Put(f, r, e) = 1 .. IF r = Len(f) + 1 THEN r ELSE Len(f)
         /\ \A x \in DOMAIN Put(f, r, e) :
              Put(f, r, e)[x] = IF x = r THEN e ELSE f[x]
<1>1. DOMAIN f \cup {r} = 1 .. IF r = Len(f) + 1 THEN r ELSE Len(f)
  OBVIOUS
<1>2. Put(f, r, e) \in [1 .. IF r = Len(f) + 1 THEN r ELSE Len(f) -> T]
  BY <1>1 DEF Put
<1>3. (IF r = Len(f) + 1 THEN r ELSE Len(f)) \in Nat
  OBVIOUS
<1>4. Put(f, r, e) \in Seq(T)
  BY <1>2, <1>3
<1> QED BY <1>1, <1>4 DEF Put

LEMMA GreatestOfInterval ==
  ASSUME NEW n \in Nat
  PROVE  Greatest(0 .. n) = n
<1>1. IsFiniteSet(0 .. n) /\ 0 .. n \in SUBSET Int /\ 0 .. n # {}
  <2>1. IsFiniteSet(0 .. n)
    BY FS_Interval
  <2>2. 0 .. n \in SUBSET Int /\ 0 \in 0 .. n
    OBVIOUS
  <2> QED BY <2>1, <2>2
<1>2. Greatest(0 .. n) \in 0 .. n /\ \A m \in 0 .. n : m <= Greatest(0 .. n)
  BY <1>1, GreatestOfFinite
<1> QED BY <1>2

\* The directories of a condition are numbered without gaps, so _next_repeat
\* is the number of directories plus one.
LEMMA NextRepeatFresh ==
  ASSUME TypeOK, NEW c \in Conditions
  PROVE  NextRepeat(c) = Len(disk[c]) + 1
<1>1. disk[c] \in Seq(Evidence)
  BY DEF TypeOK
<1>2. Len(disk[c]) \in Nat /\ DOMAIN disk[c] = 1 .. Len(disk[c])
  BY <1>1
<1>3. DOMAIN disk[c] \cup {0} = 0 .. Len(disk[c])
  BY <1>2
<1> QED BY <1>2, <1>3, GreatestOfInterval DEF NextRepeat

\* The valid runs of a condition are finitely many.
LEMMA ValidFinite ==
  ASSUME TypeOK, NEW c \in Conditions
  PROVE  /\ IsFiniteSet(Valid(c))
         /\ ValidRuns(c) \in Nat
         /\ Valid(c) \subseteq DOMAIN disk[c]
         /\ Valid(c) \subseteq Nat \ {0}
         /\ ValidRuns(c) > 0 <=> Valid(c) # {}
<1>1. disk[c] \in Seq(Evidence)
  BY DEF TypeOK
<1>2. DOMAIN disk[c] = 1 .. Len(disk[c]) /\ Len(disk[c]) \in Nat
  BY <1>1
<1>3. IsFiniteSet(DOMAIN disk[c])
  BY <1>2, FS_Interval
<1>4. Valid(c) \subseteq DOMAIN disk[c]
  BY DEF Valid
<1>5. IsFiniteSet(Valid(c))
  BY <1>3, <1>4, FS_Subset
<1>6. ValidRuns(c) \in Nat
  BY <1>5, FS_CardinalityType DEF ValidRuns
<1>7. ValidRuns(c) = 0 <=> Valid(c) = {}
  BY <1>5, FS_EmptySet DEF ValidRuns
<1> QED BY <1>2, <1>4, <1>5, <1>6, <1>7

LEMMA RecordedFinite ==
  ASSUME TypeOK, NEW s, NEW c \in Conditions
  PROVE  /\ IsFiniteSet(Recorded(s, c))
         /\ Cardinality(Recorded(s, c)) \in Nat
<1>1. DOMAIN ledger = 1 .. Len(ledger) /\ Len(ledger) \in Nat
  BY DEF TypeOK
<1>2. IsFiniteSet(DOMAIN ledger)
  BY <1>1, FS_Interval
<1>3. Recorded(s, c) \in SUBSET DOMAIN ledger
  BY DEF Recorded
<1> QED BY <1>2, <1>3, FS_Subset, FS_CardinalityType

\* Recovery finds a run to recover: it is a valid one.
LEMMA LatestIsValid ==
  ASSUME TypeOK, NEW c \in Conditions, Valid(c) # {}
  PROVE  /\ LatestSelectedRun(c) \in Valid(c)
         /\ \A r \in Valid(c) : r <= LatestSelectedRun(c)
BY ValidFinite, GreatestOfFinite DEF LatestSelectedRun

\* Replacing the entry of one session.
LEMMA SessionUpdate ==
  ASSUME NEW ss \in Seq(Session), NEW s \in DOMAIN ss, NEW x \in Session
  PROVE  /\ [ss EXCEPT ![s] = x] \in Seq(Session)
         /\ DOMAIN [ss EXCEPT ![s] = x] = DOMAIN ss
         /\ Len([ss EXCEPT ![s] = x]) = Len(ss)
         /\ [ss EXCEPT ![s] = x][s] = x
         /\ \A t \in DOMAIN ss : t # s => [ss EXCEPT ![s] = x][t] = ss[t]
OBVIOUS

LEMMA NoRunType == NoRun \in [condition : Conditions, repeat : Nat]
BY ConditionsAssumption DEF NoRun

-----------------------------------------------------------------------------
\* Type correctness.

LEMMA InitTypeOK == Init => TypeOK
<1> SUFFICES ASSUME Init
             PROVE  TypeOK
  OBVIOUS
<1>1. [verdict |-> "FOREIGN", by |-> 0] \in Evidence
  BY DEF Evidence, Verdicts
<1>2. <<>> \in Seq(Evidence) /\ <<[verdict |-> "FOREIGN", by |-> 0]>> \in Seq(Evidence)
  BY <1>1
<1>3. disk \in [Conditions -> Seq(Evidence)]
  BY <1>2 DEF Init
<1> QED BY <1>3, NoRunType DEF Init, TypeOK, Nowhere

\* Operator actions.
LEMMA OperatorTypeOK ==
  ASSUME TypeOK, Operator
  PROVE  TypeOK'
<1> USE DEF TypeOK
<1>1. ASSUME NEW b \in MinBlocks .. MaxBlocks, StartSession(b)
      PROVE  TypeOK'
  <2> DEFINE new == [baseline |-> Baseline, blocks |-> <<>>, status |-> "RUNNING"]
  <2>1. Baseline \in [Conditions -> Nat]
    BY ValidFinite DEF Baseline
  <2>2. new \in Session
    BY <2>1 DEF Session
  <2>3. sessions' = Append(sessions, new)
    BY <1>1 DEF StartSession
  <2> HIDE DEF new
  <2>4. /\ sessions' \in Seq(Session)
        /\ DOMAIN sessions' = 1 .. Len(sessions) + 1
        /\ sessions'[Len(sessions) + 1] = new
    BY <2>2, <2>3
  <2>5. /\ at' \in [session : Nat, planned : Nat, block : Nat]
        /\ at'.session = Len(sessions) + 1
        /\ at'.block = 1
        /\ pc' = "open"
    BY <1>1, PolicyAssumption DEF StartSession, Enter
  <2>6. sessions'[at'.session].blocks = <<>>
    BY <2>4, <2>5 DEF new
  <2> QED BY <1>1, <2>4, <2>5, <2>6 DEF StartSession, Enter
<1>2. ASSUME NEW b \in MinBlocks .. MaxBlocks, NEW s \in DOMAIN sessions, ResumeSession(s, b)
      PROVE  TypeOK'
  <2>1. /\ at' \in [session : Nat, planned : Nat, block : Nat]
        /\ at'.session = s
        /\ at'.block = 1
    BY <1>2, PolicyAssumption DEF ResumeSession, Enter
  <2>2. 1 \in 1 .. Len(sessions[s].blocks) + 1
    <3>1. sessions[s] \in Session
      BY DEF TypeOK
    <3>2. sessions[s].blocks \in Seq({"RUNNING", "COMPLETED"})
      BY <3>1 DEF Session
    <3> QED BY <3>2
  <2>3. /\ pc' = "open" /\ status' = "RUNNING"
        /\ UNCHANGED <<disk, precise, sessions, ledger, readable, faults,
                       todo, done, assigned, run>>
    BY <1>2 DEF ResumeSession, Enter
  <2> QED BY <2>1, <2>2, <2>3
<1> QED BY <1>1, <1>2 DEF Operator

\* Every record appended while a block is open is well formed.
LEMMA RecordType ==
  ASSUME TypeOK, pc \in {"recover", "run", "measuring", "summarised"},
         NEW c \in Conditions, NEW stat \in RecordStatus, NEW r \in Nat,
         Record(c, stat, r)
  PROVE  /\ ledger' \in Seq(RunRecord)
         /\ DOMAIN ledger' = 1 .. Len(ledger) + 1
         /\ ledger'[Len(ledger) + 1] =
              [session |-> at.session, block |-> at.block, condition |-> c,
               status |-> stat, repeat |-> r]
         /\ \A i \in DOMAIN ledger : ledger'[i] = ledger[i]
<1> DEFINE e == [session |-> at.session, block |-> at.block, condition |-> c,
                 status |-> stat, repeat |-> r]
<1>1. at.session \in Nat \ {0}
  BY DEF TypeOK
<1>2. at.block \in Nat \ {0}
  <2>1. sessions[at.session] \in Session
    BY DEF TypeOK
  <2>2. sessions[at.session].blocks \in Seq({"RUNNING", "COMPLETED"})
    BY <2>1 DEF Session
  <2>3. at.block \in DOMAIN sessions[at.session].blocks
    BY DEF TypeOK
  <2> QED BY <2>2, <2>3
<1>3. e \in RunRecord
  BY <1>1, <1>2 DEF RunRecord
<1>4. ledger \in Seq(RunRecord) /\ ledger' = Append(ledger, e)
  BY DEF TypeOK, Record
<1> HIDE DEF e
<1>5. /\ ledger' \in Seq(RunRecord)
      /\ DOMAIN ledger' = 1 .. Len(ledger) + 1
      /\ ledger'[Len(ledger) + 1] = e
      /\ \A i \in DOMAIN ledger : ledger'[i] = ledger[i]
  BY <1>3, <1>4
<1> QED BY <1>5 DEF e

\* Filing a summary keeps the directories a gap-free sequence.
LEMMA FileSummaryType ==
  ASSUME TypeOK, pc = "measuring", NEW v \in Verdicts, FileSummary(v)
  PROVE  /\ disk' \in [Conditions -> Seq(Evidence)]
         /\ \A c \in Conditions : DOMAIN disk'[c] = DOMAIN disk[c]
         /\ disk'[run.condition][run.repeat].verdict = v
<1> DEFINE c == run.condition
           e == [verdict |-> v, by |-> at.session]
<1>1. /\ c \in Conditions
      /\ disk[c] \in Seq(Evidence)
      /\ run.repeat \in 1 .. Len(disk[c])
      /\ e \in Evidence
  <2>1. c \in Conditions /\ run.repeat \in DOMAIN disk[c] /\ at.session \in Nat
    BY DEF TypeOK
  <2>2. disk[c] \in Seq(Evidence)
    BY <2>1 DEF TypeOK
  <2>3. e \in Evidence
    BY <2>1 DEF Evidence
  <2> HIDE DEF c, e
  <2> QED BY <2>1, <2>2, <2>3
<1>2. disk' = [disk EXCEPT ![c] = Put(disk[c], run.repeat, e)]
  BY DEF FileSummary
<1> HIDE DEF c, e
<1>3. /\ Put(disk[c], run.repeat, e) \in Seq(Evidence)
      /\ DOMAIN Put(disk[c], run.repeat, e) = DOMAIN disk[c]
      /\ Put(disk[c], run.repeat, e)[run.repeat] = e
  <2>1. run.repeat \in 1 .. Len(disk[c]) + 1 /\ run.repeat # Len(disk[c]) + 1
    BY <1>1
  <2> QED BY <1>1, <2>1, PutInSequence, SMTT(30)
<1>4. /\ disk' \in [Conditions -> Seq(Evidence)]
      /\ \A d \in Conditions : DOMAIN disk'[d] = DOMAIN disk[d]
      /\ disk'[c][run.repeat] = e
  BY <1>1, <1>2, <1>3 DEF TypeOK
<1> QED BY <1>4 DEF c, e

\* Steps of the process between opening and closing a block.
LEMMA LoopTypeOK ==
  ASSUME TypeOK, NEW c \in Conditions,
         \/ Recover(c) \/ NothingToRecover(c) \/ SkipCondition(c) \/ StartRun(c)
  PROVE  TypeOK'
<1>1. CASE Recover(c)
  <2>1. LatestSelectedRun(c) \in Nat
    <3>1. ValidRuns(c) \in Nat /\ sessions[at.session].baseline[c] \in Nat
          /\ assigned[c] \in Nat
      <4>1. sessions[at.session] \in Session
        BY <1>1 DEF TypeOK, Recover
      <4> QED BY <4>1, ValidFinite DEF TypeOK, Session
    <3>2. ValidRuns(c) > 0
      BY <1>1, <3>1 DEF Recover, MustRecover, NewValidRuns
    <3> QED BY <3>2, ValidFinite, LatestIsValid
  <2>2. ledger' \in Seq(RunRecord)
    <3>1. pc \in {"recover", "run", "measuring", "summarised"}
      BY <1>1 DEF Recover
    <3>2. Record(c, "COMPLETED", LatestSelectedRun(c))
      BY <1>1 DEF Recover
    <3>3. "COMPLETED" \in RecordStatus
      BY DEF RecordStatus
    <3> QED BY <2>1, <3>1, <3>2, <3>3, RecordType
  <2> QED BY <1>1, <2>2 DEF TypeOK, Recover
<1>2. CASE NothingToRecover(c)
  BY <1>2 DEF TypeOK, NothingToRecover, durable
<1>3. CASE SkipCondition(c)
  <2>1. ledger' \in Seq(RunRecord)
    <3>1. pc \in {"recover", "run", "measuring", "summarised"}
      BY <1>3 DEF SkipCondition
    <3>2. Record(c, "SKIPPED", 0)
      BY <1>3 DEF SkipCondition
    <3>3. "SKIPPED" \in RecordStatus
      BY DEF RecordStatus
    <3> QED BY <3>1, <3>2, <3>3, RecordType
  <2> QED BY <1>3, <2>1 DEF TypeOK, SkipCondition
<1>4. CASE StartRun(c)
  <2> DEFINE r == NextRepeat(c)
             e == [verdict |-> "NONE", by |-> at.session]
  <2>1. /\ disk[c] \in Seq(Evidence)
        /\ r \in 1 .. Len(disk[c]) + 1
        /\ r \in Nat
        /\ e \in Evidence
    <3>1. disk[c] \in Seq(Evidence) /\ at.session \in Nat
      BY DEF TypeOK
    <3>2. r = Len(disk[c]) + 1
      BY NextRepeatFresh
    <3>3. e \in Evidence
      BY <3>1 DEF Evidence, Verdicts
    <3> HIDE DEF r, e
    <3> QED BY <3>1, <3>2, <3>3
  <2>2. disk' = [disk EXCEPT ![c] = Put(disk[c], r, e)]
    BY <1>4 DEF StartRun
  <2>3. run' = [condition |-> c, repeat |-> r]
    BY <1>4 DEF StartRun
  <2> HIDE DEF r, e
  <2>4. Put(disk[c], r, e) \in Seq(Evidence) /\ r \in DOMAIN Put(disk[c], r, e)
    <3>1. Put(disk[c], r, e) \in Seq(Evidence)
      BY <2>1, PutInSequence
    <3>2. r \in DOMAIN Put(disk[c], r, e)
      BY DEF Put
    <3> QED BY <3>1, <3>2
  <2>5. /\ disk' \in [Conditions -> Seq(Evidence)]
        /\ run'.repeat \in DOMAIN disk'[run'.condition]
        /\ run' \in [condition : Conditions, repeat : Nat]
    BY <2>1, <2>2, <2>3, <2>4 DEF TypeOK
  <2> QED BY <1>4, <2>5 DEF TypeOK, StartRun
<1> QED BY <1>1, <1>2, <1>3, <1>4

\* The other steps of the process.
LEMMA ProcessTypeOK ==
  ASSUME TypeOK,
         \/ SkipBlock \/ OpenBlock \/ BeginRuns \/ SummaryValid
         \/ SummaryInvalid \/ RunFails \/ RunReturns \/ CloseBlock
         \/ CloseSession \/ Raise
  PROVE  TypeOK'
<1>1. CASE SkipBlock
  <2>1. at.block \in DOMAIN sessions[at.session].blocks
    BY <1>1 DEF SkipBlock, BlockStatus
  <2>2. at' = [at EXCEPT !.block = @ + 1]
    BY <1>1 DEF SkipBlock
  <2>3. sessions[at.session].blocks \in Seq({"RUNNING", "COMPLETED"})
    <3>1. sessions[at.session] \in Session
      BY <1>1 DEF TypeOK, SkipBlock
    <3> QED BY <3>1 DEF Session
  <2>4. at'.block = at.block + 1 /\ at'.session = at.session
        /\ at' \in [session : Nat, planned : Nat, block : Nat]
    <3>1. at \in [session : Nat, planned : Nat, block : Nat]
      BY DEF TypeOK
    <3> QED BY <2>2, <3>1
  <2>5. at'.block \in 1 .. Len(sessions[at'.session].blocks) + 1
    BY <2>1, <2>3, <2>4
  <2> QED BY <1>1, <2>4, <2>5 DEF TypeOK, SkipBlock, durable
<1>2. CASE OpenBlock
  <2> DEFINE s == at.session
             b == at.block
             old == sessions[s].blocks
             new == IF BlockStatus(s, b) = "ABSENT" THEN Append(old, "RUNNING") ELSE old
  <2>1. s \in DOMAIN sessions /\ b \in 1 .. Len(old) + 1 /\ sessions[s] \in Session
    BY <1>2 DEF OpenBlock, TypeOK
  <2>2. old \in Seq({"RUNNING", "COMPLETED"})
    BY <2>1 DEF Session
  <2>3. new \in Seq({"RUNNING", "COMPLETED"}) /\ b \in DOMAIN new
    BY <2>1, <2>2 DEF BlockStatus
  <2>4. sessions' = [sessions EXCEPT ![s].blocks = new]
    BY <1>2 DEF OpenBlock
  <2> HIDE DEF new
  <2>5. /\ sessions' \in Seq(Session)
        /\ DOMAIN sessions' = DOMAIN sessions
        /\ sessions'[s].blocks = new
    <3> DEFINE x == [sessions[s] EXCEPT !.blocks = new]
    <3>1. x \in Session /\ x.blocks = new
      BY <2>1, <2>3 DEF Session
    <3>2. sessions' = [sessions EXCEPT ![s] = x]
      BY <2>4
    <3> HIDE DEF x
    <3> QED BY <2>1, <3>1, <3>2, SessionUpdate DEF TypeOK
  <2>6. assigned' \in [Conditions -> Nat]
    BY <1>2, RecordedFinite DEF OpenBlock, Assigned
  <2>7. done' \subseteq Conditions
    BY <1>2 DEF OpenBlock, CompletedIn
  <2> QED BY <1>2, <2>1, <2>3, <2>5, <2>6, <2>7 DEF TypeOK, OpenBlock
<1>3. CASE BeginRuns
  BY <1>3 DEF TypeOK, BeginRuns, durable
<1>4. CASE SummaryValid
  <2>1. "COMPLETED" \in Verdicts /\ pc = "measuring" /\ FileSummary("COMPLETED")
    BY <1>4 DEF SummaryValid, Verdicts
  <2>2. /\ disk' \in [Conditions -> Seq(Evidence)]
        /\ \A c \in Conditions : DOMAIN disk'[c] = DOMAIN disk[c]
        /\ disk'[run.condition][run.repeat].verdict = "COMPLETED"
    BY <2>1, FileSummaryType
  <2> QED BY <1>4, <2>2 DEF TypeOK, SummaryValid, local
<1>5. CASE SummaryInvalid
  <2>1. "INVALID" \in Verdicts /\ pc = "measuring" /\ FileSummary("INVALID")
    BY <1>5 DEF SummaryInvalid, Verdicts
  <2>2. /\ disk' \in [Conditions -> Seq(Evidence)]
        /\ \A c \in Conditions : DOMAIN disk'[c] = DOMAIN disk[c]
        /\ disk'[run.condition][run.repeat].verdict = "INVALID"
    BY <2>1, FileSummaryType
  <2> QED BY <1>5, <2>2 DEF TypeOK, SummaryInvalid, Fault, local
<1>6. ASSUME NEW stat \in RecordStatus, pc \in {"measuring", "summarised"},
             RunRecorded(stat), faults' \in Nat
      PROVE  TypeOK'
  <2>1. run.condition \in Conditions /\ run.repeat \in Nat
    BY DEF TypeOK
  <2>2. Record(run.condition, stat, run.repeat)
    BY <1>6 DEF RunRecorded
  <2>3. ledger' \in Seq(RunRecord)
    BY <1>6, <2>1, <2>2, RecordType
  <2> QED BY <1>6, <2>3, NoRunType DEF TypeOK, RunRecorded
<1>7. CASE RunFails
  <2>1. "FAILED" \in RecordStatus /\ faults' \in Nat
    BY <1>7 DEF RunFails, Fault, RecordStatus, TypeOK
  <2> QED BY <1>6, <1>7, <2>1 DEF RunFails
<1>8. CASE RunReturns
  <2> DEFINE v == disk[run.condition][run.repeat].verdict
  <2>1. v \in RecordStatus /\ RunRecorded(v) /\ faults' \in Nat /\ pc = "summarised"
    BY <1>8 DEF RunReturns, RecordStatus, TypeOK
  <2> HIDE DEF v
  <2> QED BY <1>6, <2>1
<1>9. CASE CloseBlock
  <2> DEFINE s == at.session
             b == at.block
  <2>1. s \in DOMAIN sessions /\ b \in DOMAIN sessions[s].blocks /\ sessions[s] \in Session
    BY <1>9 DEF CloseBlock, TypeOK
  <2>2. /\ sessions' \in Seq(Session)
        /\ DOMAIN sessions' = DOMAIN sessions
        /\ Len(sessions'[s].blocks) = Len(sessions[s].blocks)
    <3> DEFINE x == [sessions[s] EXCEPT !.blocks[b] = "COMPLETED"]
    <3>1. x \in Session /\ Len(x.blocks) = Len(sessions[s].blocks)
      <4>1. sessions[s].blocks \in Seq({"RUNNING", "COMPLETED"})
        BY <2>1 DEF Session
      <4> DEFINE bs == [sessions[s].blocks EXCEPT ![b] = "COMPLETED"]
      <4>2. bs \in Seq({"RUNNING", "COMPLETED"}) /\ Len(bs) = Len(sessions[s].blocks)
        BY <2>1, <4>1
      <4>3. x = [sessions[s] EXCEPT !.blocks = bs]
        OBVIOUS
      <4> HIDE DEF bs, x
      <4> QED BY <2>1, <4>2, <4>3 DEF Session
    <3>2. sessions' = [sessions EXCEPT ![s] = x]
      BY <1>9 DEF CloseBlock
    <3> HIDE DEF x
    <3> QED BY <2>1, <3>1, <3>2, SessionUpdate DEF TypeOK
  <2>3. at' = [at EXCEPT !.block = b + 1]
    BY <1>9 DEF CloseBlock
  <2>4. b + 1 \in 1 .. Len(sessions'[s].blocks) + 1
    <3>1. Len(sessions[s].blocks) \in Nat /\ b \in 1 .. Len(sessions[s].blocks)
      BY <2>1 DEF Session
    <3> HIDE DEF s, b
    <3> QED BY <2>2, <3>1
  <2>5. at' \in [session : Nat, planned : Nat, block : Nat]
        /\ at'.session = s /\ at'.block = b + 1
    <3>1. at \in [session : Nat, planned : Nat, block : Nat]
      BY DEF TypeOK
    <3> QED BY <2>3, <3>1
  <2> HIDE DEF s, b
  <2> QED BY <1>9, <2>1, <2>2, <2>4, <2>5 DEF TypeOK, CloseBlock
<1>10. CASE CloseSession
  <2>1. at.session \in DOMAIN sessions /\ sessions[at.session] \in Session
    BY <1>10 DEF CloseSession, TypeOK
  <2>2. sessions' \in Seq(Session) /\ DOMAIN sessions' = DOMAIN sessions
    <3> DEFINE x == [sessions[at.session] EXCEPT !.status = "COMPLETED"]
    <3>1. x \in Session
      BY <2>1 DEF Session
    <3>2. sessions' = [sessions EXCEPT ![at.session] = x]
      BY <1>10 DEF CloseSession
    <3> HIDE DEF x
    <3> QED BY <2>1, <3>1, <3>2, SessionUpdate DEF TypeOK
  <2> QED BY <1>10, <2>2, NoRunType DEF TypeOK, CloseSession, Exit, Nowhere
<1>11. CASE Raise
  BY <1>11, NoRunType DEF TypeOK, Raise, Exit, Nowhere, durable
<1> QED BY <1>1, <1>2, <1>3, <1>4, <1>5, <1>7, <1>8, <1>9, <1>10, <1>11

\* What the process leaves behind when it is gone.
LEMMA ExitType ==
  ASSUME Exit
  PROVE  /\ pc' = "idle"
         /\ at' \in [session : Nat, planned : Nat, block : Nat]
         /\ todo' = {} /\ done' = {}
         /\ assigned' \in [Conditions -> Nat]
         /\ run' \in [condition : Conditions, repeat : Nat]
BY NoRunType DEF Exit, Nowhere

LEMMA HostTypeOK ==
  ASSUME TypeOK, Host
  PROVE  TypeOK'
<1>1. CASE Crash
  BY <1>1, NoRunType DEF TypeOK, Crash, Fault, Exit, Nowhere, durable
<1>2. CASE CrashInSummary
  <2>1. "TORN" \in Verdicts /\ pc = "measuring" /\ FileSummary("TORN")
    BY <1>2 DEF CrashInSummary, Verdicts
  <2>2. disk' \in [Conditions -> Seq(Evidence)]
    BY <2>1, FileSummaryType
  <2> QED BY <1>2, <2>2, NoRunType, SMTT(30) DEF TypeOK, CrashInSummary, Fault, Exit, Nowhere
<1>3. CASE CrashInStateFile
  <2>1. Exit /\ readable' \in BOOLEAN /\ faults' \in Nat
    <3>1. Exit
      BY <1>3 DEF CrashInStateFile
    <3>2. readable' \in BOOLEAN
      BY <1>3, Zenon DEF CrashInStateFile
    <3>3. faults' \in Nat
      BY <1>3 DEF CrashInStateFile, Fault, TypeOK
    <3> QED BY <3>1, <3>2, <3>3
  <2> QED BY <1>3, <2>1, ExitType DEF TypeOK, CrashInStateFile
<1> QED BY <1>1, <1>2, <1>3 DEF Host

LEMMA NextTypeOK == TypeOK /\ [Next]_vars => TypeOK'
<1> SUFFICES ASSUME TypeOK, [Next]_vars
             PROVE  TypeOK'
  OBVIOUS
<1>1. CASE Operator
  BY <1>1, OperatorTypeOK
<1>2. CASE Step
  BY <1>2, LoopTypeOK, ProcessTypeOK DEF Step
<1>3. CASE Host
  BY <1>3, HostTypeOK
<1>4. CASE UNCHANGED vars
  BY <1>4 DEF TypeOK, vars, durable, local
<1> QED BY <1>1, <1>2, <1>3, <1>4 DEF Next

\* The state keeps its shape: in particular the process always points at a
\* session, a block and a run directory that state.json and the disk hold.
THEOREM TypeCorrect == Spec => []TypeOK
BY InitTypeOK, NextTypeOK, PTL DEF Spec

-----------------------------------------------------------------------------
\* The evidence, under every operator discipline, also when old sessions are
\* resumed in any order. The inductive invariant is Measuring: the process only
\* measures into a blank directory of its own, and only while there is room for
\* another valid run.

BlankDirectory ==
  pc = "measuring" =>
    disk[run.condition][run.repeat] = [verdict |-> "NONE", by |-> at.session]

RoomForAnother ==
  pc = "measuring" => ValidRuns(run.condition) < MaxValid

Measuring == /\ BlankDirectory
             /\ RoomForAnother
             /\ ValidRunsBounded
             /\ RecordsNameValidRuns

-----------------------------------------------------------------------------

\* Filing evidence adds at most the filed run to the valid ones.
LEMMA FilingGrows ==
  ASSUME TypeOK, NEW c \in Conditions, NEW r, NEW e,
         disk' = [disk EXCEPT ![c] = Put(@, r, e)]
  PROVE  \A d \in Conditions :
           Valid(d)' \subseteq Valid(d) \cup
                                 IF d = c /\ e.verdict = "COMPLETED" THEN {r} ELSE {}
<1>1. disk'[c] = Put(disk[c], r, e) /\ \A d \in Conditions \ {c} : disk'[d] = disk[d]
  BY DEF TypeOK
<1>2. \A q \in DOMAIN disk'[c] :
        IF q = r THEN disk'[c][q] = e ELSE q \in DOMAIN disk[c] /\ disk'[c][q] = disk[c][q]
  BY <1>1 DEF Put
<1>3. ASSUME NEW d \in Conditions, NEW q \in Valid(d)'
      PROVE  q \in Valid(d) \/ (d = c /\ e.verdict = "COMPLETED" /\ q = r)
  <2>1. q \in DOMAIN disk'[d] /\ disk'[d][q].verdict = "COMPLETED"
    BY DEF Valid
  <2>2. CASE d # c
    BY <1>1, <2>1, <2>2 DEF Valid
  <2>3. CASE d = c
    BY <1>2, <2>1, <2>3 DEF Valid
  <2> QED BY <2>2, <2>3
<1> QED BY <1>3

\* ... so their number grows by one at most, and only for that condition.
LEMMA FilingCounts ==
  ASSUME TypeOK, NEW c \in Conditions, NEW r, NEW e,
         disk' = [disk EXCEPT ![c] = Put(@, r, e)], NEW d \in Conditions
  PROVE  /\ ValidRuns(d)' \in Nat
         /\ ValidRuns(d)' <= ValidRuns(d) +
                                IF d = c /\ e.verdict = "COMPLETED" THEN 1 ELSE 0
<1> DEFINE V == Valid(d)
           W == Valid(d)'
           more == IF d = c /\ e.verdict = "COMPLETED" THEN {r} ELSE {}
<1>1. W \subseteq V \cup more /\ IsFiniteSet(V) /\ Cardinality(V) \in Nat
  BY FilingGrows, ValidFinite DEF ValidRuns
<1>2. ASSUME more = {}
      PROVE  Cardinality(W) <= Cardinality(V) /\ Cardinality(W) \in Nat
  <2> HIDE DEF V, W, more
  <2>1. W \in SUBSET V
    BY <1>1, <1>2
  <2> QED BY <1>1, <2>1, FS_Subset, FS_CardinalityType
<1>3. ASSUME more = {r}
      PROVE  Cardinality(W) <= Cardinality(V) + 1 /\ Cardinality(W) \in Nat
  <2> HIDE DEF V, W, more
  <2>1. Cardinality(W) <= Cardinality(V) + 1 /\ Cardinality(W) \in Nat
    <3>1. W \in SUBSET (V \cup {r})
      BY <1>1, <1>3
    <3>2. IsFiniteSet(V \cup {r}) /\ Cardinality(V \cup {r}) <= Cardinality(V) + 1
      <4>1. /\ IsFiniteSet(V \cup {r})
            /\ Cardinality(V \cup {r}) = IF r \in V THEN Cardinality(V)
                                                   ELSE Cardinality(V) + 1
        BY <1>1, FS_AddElement
      <4> QED BY <1>1, <4>1
    <3>3. Cardinality(W) <= Cardinality(V \cup {r})
      BY <3>1, <3>2, FS_Subset
    <3>4. Cardinality(W) \in Nat /\ Cardinality(V \cup {r}) \in Nat
      <4>1. IsFiniteSet(W)
        BY <3>1, <3>2, FS_Subset
      <4> QED BY <3>2, <4>1, FS_CardinalityType
    <3> QED BY <1>1, <3>2, <3>3, <3>4
  <2> QED BY <2>1
<1>4. ValidRuns(d)' = Cardinality(W) /\ ValidRuns(d) = Cardinality(V)
  BY DEF ValidRuns
<1>5. IF d = c /\ e.verdict = "COMPLETED" THEN more = {r} ELSE more = {}
  OBVIOUS
<1> HIDE DEF V, W, more
<1> QED BY <1>1, <1>2, <1>3, <1>4, <1>5

\* Filing over a directory that is blank, or not there yet, keeps the others'
\* verdicts and origins, and with them every valid run.
LEMMA FilingKeeps ==
  ASSUME TypeOK, NEW c \in Conditions, NEW r, NEW e,
         disk' = [disk EXCEPT ![c] = Put(@, r, e)],
         r \in DOMAIN disk[c] => /\ disk[c][r].verdict = "NONE"
                                 /\ disk[c][r].by = e.by
  PROVE  /\ \A d \in Conditions : \A q \in DOMAIN disk[d] :
              /\ q \in DOMAIN disk'[d]
              /\ disk'[d][q].by = disk[d][q].by
              /\ disk[d][q].verdict # "NONE" =>
                   disk'[d][q].verdict = disk[d][q].verdict
         /\ \A d \in Conditions : Valid(d) \subseteq Valid(d)'
<1>1. disk'[c] = Put(disk[c], r, e) /\ \A d \in Conditions \ {c} : disk'[d] = disk[d]
  BY DEF TypeOK
<1>2. \A q \in DOMAIN disk[c] :
        /\ q \in DOMAIN disk'[c]
        /\ disk'[c][q] = IF q = r THEN e ELSE disk[c][q]
  BY <1>1 DEF Put
<1>3. ASSUME NEW d \in Conditions, NEW q \in DOMAIN disk[d]
      PROVE  /\ q \in DOMAIN disk'[d]
             /\ disk'[d][q].by = disk[d][q].by
             /\ disk[d][q].verdict # "NONE" =>
                  disk'[d][q].verdict = disk[d][q].verdict
  <2>1. CASE d # c
    BY <1>1, <2>1
  <2>2. CASE d = c
    BY <1>2, <2>2
  <2> QED BY <2>1, <2>2
<1>4. \A d \in Conditions : Valid(d) \subseteq Valid(d)'
  BY <1>3 DEF Valid
<1> QED BY <1>3, <1>4

-----------------------------------------------------------------------------

\* Steps that leave evidence, records and the run in progress alone.
LEMMA QuietMeasuring ==
  ASSUME Measuring, UNCHANGED <<disk, ledger>>, pc' # "measuring"
  PROVE  Measuring'
<1>1. \A c \in Conditions : Valid(c)' = Valid(c) /\ ValidRuns(c)' = ValidRuns(c)
  BY DEF Valid, ValidRuns
<1>2. RecordsNameValidRuns'
  BY DEF Measuring, RecordsNameValidRuns, Valid
<1> QED BY <1>1, <1>2 DEF Measuring, BlankDirectory, RoomForAnother, ValidRunsBounded

\* Records stay true when valid runs stay valid.
LEMMA RecordsKept ==
  ASSUME TypeOK, RecordsNameValidRuns, UNCHANGED ledger,
         \A d \in Conditions : Valid(d) \subseteq Valid(d)'
  PROVE  RecordsNameValidRuns'
<1>1. ASSUME NEW i \in DOMAIN ledger, ledger[i].status = "COMPLETED"
      PROVE  ledger[i].repeat \in Valid(ledger[i].condition)'
  <2>1. ledger[i].condition \in Conditions
    <3>1. ledger[i] \in RunRecord
      BY DEF TypeOK
    <3> QED BY <3>1 DEF RunRecord
  <2>2. ledger[i].repeat \in Valid(ledger[i].condition)
    BY <1>1 DEF RecordsNameValidRuns
  <2>3. Valid(ledger[i].condition) \subseteq Valid(ledger[i].condition)'
    BY <2>1
  <2> QED BY <2>2, <2>3
<1> QED BY <1>1 DEF RecordsNameValidRuns, Valid

\* A new record keeps the claim if the run it credits, if any, is valid.
LEMMA RecordMeasuring ==
  ASSUME TypeOK, Measuring, UNCHANGED disk, pc' # "measuring",
         pc \in {"recover", "run", "measuring", "summarised"},
         NEW c \in Conditions, NEW stat \in RecordStatus, NEW r \in Nat,
         Record(c, stat, r),
         stat = "COMPLETED" => r \in Valid(c)
  PROVE  Measuring'
<1>1. \A d \in Conditions : Valid(d)' = Valid(d) /\ ValidRuns(d)' = ValidRuns(d)
  BY DEF Valid, ValidRuns
<1>2. RecordsNameValidRuns'
  <2>1. ASSUME NEW i \in DOMAIN ledger', ledger'[i].status = "COMPLETED"
        PROVE  ledger'[i].repeat \in Valid(ledger'[i].condition)
    <3>1. /\ DOMAIN ledger' = 1 .. Len(ledger) + 1
          /\ ledger'[Len(ledger) + 1] =
               [session |-> at.session, block |-> at.block, condition |-> c,
                status |-> stat, repeat |-> r]
          /\ \A j \in DOMAIN ledger : ledger'[j] = ledger[j]
      BY RecordType
    <3>2. CASE i = Len(ledger) + 1
      BY <2>1, <3>1, <3>2
    <3>3. CASE i # Len(ledger) + 1
      <4>1. i \in DOMAIN ledger
        BY <3>1, <3>3 DEF TypeOK
      <4> QED BY <2>1, <3>1, <4>1 DEF Measuring, RecordsNameValidRuns
    <3> QED BY <3>2, <3>3
  <2> QED BY <2>1 DEF RecordsNameValidRuns, Valid
<1> QED BY <1>1, <1>2 DEF Measuring, BlankDirectory, RoomForAnother, ValidRunsBounded

LEMMA InitMeasuring == Init => Measuring
<1> SUFFICES ASSUME Init
             PROVE  Measuring
  OBVIOUS
<1>1. \A c \in Conditions : Valid(c) = {}
  BY DEF Init, Valid
<1>2. \A c \in Conditions : ValidRuns(c) = 0
  BY <1>1, FS_EmptySet DEF ValidRuns
<1>3. ValidRunsBounded
  BY <1>2, PolicyAssumption DEF ValidRunsBounded
<1>4. pc = "idle" /\ ledger = <<>>
  BY DEF Init
<1> QED BY <1>3, <1>4 DEF Measuring, BlankDirectory, RoomForAnother, RecordsNameValidRuns

\* A run is started only while the policy leaves room for another valid one.
LEMMA StartMeasuring ==
  ASSUME TypeOK, Measuring, NEW c \in Conditions, StartRun(c)
  PROVE  Measuring'
<1> DEFINE r == NextRepeat(c)
           e == [verdict |-> "NONE", by |-> at.session]
<1>1. disk' = [disk EXCEPT ![c] = Put(@, r, e)] /\ e.verdict = "NONE"
  BY DEF StartRun
<1>2. /\ pc = "run" /\ pc' = "measuring"
      /\ run' = [condition |-> c, repeat |-> r]
      /\ UNCHANGED <<ledger, precise, at>>
  BY DEF StartRun
<1>3. r \notin DOMAIN disk[c]
  BY NextRepeatFresh DEF TypeOK
<1> HIDE DEF r
<1>4. BlankDirectory'
  <2>1. disk'[c] = Put(disk[c], r, e)
    BY <1>1 DEF TypeOK
  <2>2. disk'[c][r] = e
    BY <2>1 DEF Put
  <2> QED BY <1>2, <2>2 DEF BlankDirectory
<1>5. \A d \in Conditions :
        ValidRuns(d)' \in Nat /\ ValidRuns(d) \in Nat /\ ValidRuns(d)' <= ValidRuns(d)
  <2> HIDE DEF e
  <2>1. ASSUME NEW d \in Conditions
        PROVE  /\ ValidRuns(d)' \in Nat /\ ValidRuns(d) \in Nat
               /\ ValidRuns(d)' <= ValidRuns(d)
    <3>1. /\ ValidRuns(d)' \in Nat
          /\ ValidRuns(d)' <= ValidRuns(d) +
                                IF d = c /\ e.verdict = "COMPLETED" THEN 1 ELSE 0
      BY <1>1, FilingCounts
    <3>2. ValidRuns(d) \in Nat
      BY ValidFinite
    <3>3. e.verdict # "COMPLETED"
      BY <1>1
    <3> QED BY <3>1, <3>2, <3>3
  <2> QED BY <2>1
<1>6. ValidRuns(c) < MaxValid
  <2>1. Decision(c) = "CONTINUE" /\ ValidRuns(c) \in Nat
    BY ValidFinite DEF StartRun
  <2> QED BY <2>1, PolicyAssumption DEF Decision
<1>7. RoomForAnother'
  <2>1. ValidRuns(c)' < MaxValid
    BY <1>5, <1>6, PolicyAssumption
  <2> QED BY <1>2, <2>1 DEF RoomForAnother, ValidRuns, Valid
<1>8. ValidRunsBounded'
  BY <1>5, PolicyAssumption DEF Measuring, ValidRunsBounded
<1>9. RecordsNameValidRuns'
  BY <1>1, <1>2, <1>3, FilingKeeps, RecordsKept DEF Measuring
<1> QED BY <1>4, <1>7, <1>8, <1>9 DEF Measuring

\* A summary is filed over the blank directory of the run in progress.
LEMMA SummaryFiling ==
  ASSUME TypeOK, Measuring, pc = "measuring", NEW v \in Verdicts, FileSummary(v)
  PROVE  /\ \A d \in Conditions : \A q \in DOMAIN disk[d] :
              /\ q \in DOMAIN disk'[d]
              /\ disk'[d][q].by = disk[d][q].by
              /\ disk[d][q].verdict # "NONE" =>
                   disk'[d][q].verdict = disk[d][q].verdict
         /\ \A d \in Conditions : Valid(d) \subseteq Valid(d)'
         /\ ValidRunsBounded'
<1> DEFINE c == run.condition
           r == run.repeat
           e == [verdict |-> v, by |-> at.session]
<1>1. c \in Conditions /\ disk' = [disk EXCEPT ![c] = Put(@, r, e)]
  BY DEF FileSummary, TypeOK
<1>2. disk[c][r].verdict = "NONE" /\ disk[c][r].by = at.session /\ e.by = at.session
  BY DEF Measuring, BlankDirectory
<1>3. ValidRuns(c) < MaxValid
  BY DEF Measuring, RoomForAnother
<1> HIDE DEF c, r, e
<1>4. ValidRunsBounded'
  <2>1. ASSUME NEW d \in Conditions
        PROVE  ValidRuns(d)' <= MaxValid
    <3>1. /\ ValidRuns(d)' \in Nat /\ ValidRuns(d) \in Nat
          /\ ValidRuns(d)' <= ValidRuns(d) +
                                IF d = c /\ e.verdict = "COMPLETED" THEN 1 ELSE 0
          /\ ValidRuns(d) <= MaxValid
      BY <1>1, FilingCounts, ValidFinite DEF Measuring, ValidRunsBounded
    <3> QED BY <1>3, <3>1, PolicyAssumption
  <2> QED BY <2>1 DEF ValidRunsBounded
<1> QED BY <1>1, <1>2, <1>4, FilingKeeps

LEMMA SummaryMeasuring ==
  ASSUME TypeOK, Measuring, SummaryValid \/ SummaryInvalid \/ CrashInSummary
  PROVE  Measuring'
<1>1. pc = "measuring" /\ pc' # "measuring" /\ UNCHANGED ledger
  BY DEF SummaryValid, SummaryInvalid, CrashInSummary, Exit
<1>2. PICK v \in Verdicts : FileSummary(v)
  BY DEF SummaryValid, SummaryInvalid, CrashInSummary, Verdicts
<1>3. ValidRunsBounded' /\ \A d \in Conditions : Valid(d) \subseteq Valid(d)'
  BY <1>1, <1>2, SummaryFiling
<1>4. RecordsNameValidRuns'
  BY <1>1, <1>3, RecordsKept DEF Measuring
<1> QED BY <1>1, <1>3, <1>4 DEF Measuring, BlankDirectory, RoomForAnother

\* The records of the scheduler name valid runs: the newest valid one when it
\* recovers, the one just summarised when it measures.
LEMMA LoopMeasuring ==
  ASSUME TypeOK, Measuring,
         \/ \E c \in Conditions : Recover(c) \/ SkipCondition(c)
         \/ RunFails \/ RunReturns
  PROVE  Measuring'
<1>1. ASSUME NEW c \in Conditions, Recover(c)
      PROVE  Measuring'
  <2>1. LatestSelectedRun(c) \in Valid(c) /\ LatestSelectedRun(c) \in Nat
    <3>1. sessions[at.session] \in Session
      BY <1>1 DEF TypeOK, Recover
    <3>2. ValidRuns(c) \in Nat /\ assigned[c] \in Nat
          /\ sessions[at.session].baseline[c] \in Nat
      BY <3>1, ValidFinite DEF TypeOK, Session
    <3>3. ValidRuns(c) > 0
      BY <1>1, <3>2 DEF Recover, MustRecover, NewValidRuns
    <3>4. LatestSelectedRun(c) \in Valid(c) /\ Valid(c) \subseteq Nat \ {0}
      BY <3>3, ValidFinite, LatestIsValid
    <3> QED BY <3>4
  <2>2. /\ pc = "recover" /\ pc' = "recover" /\ UNCHANGED disk
        /\ Record(c, "COMPLETED", LatestSelectedRun(c))
        /\ "COMPLETED" \in RecordStatus
    BY <1>1 DEF Recover, RecordStatus
  <2> QED BY <2>1, <2>2, RecordMeasuring
<1>2. ASSUME NEW c \in Conditions, SkipCondition(c)
      PROVE  Measuring'
  <2>1. /\ pc = "run" /\ pc' = "run" /\ UNCHANGED disk
        /\ Record(c, "SKIPPED", 0)
        /\ "SKIPPED" \in RecordStatus /\ "SKIPPED" # "COMPLETED"
    BY <1>2 DEF SkipCondition, RecordStatus
  <2> QED BY <2>1, RecordMeasuring
<1>3. ASSUME NEW stat \in RecordStatus, RunRecorded(stat),
             pc \in {"measuring", "summarised"},
             stat = "COMPLETED" => run.repeat \in Valid(run.condition)
      PROVE  Measuring'
  <2>1. /\ pc' = "run" /\ UNCHANGED disk
        /\ Record(run.condition, stat, run.repeat)
        /\ run.condition \in Conditions /\ run.repeat \in Nat
    BY <1>3 DEF RunRecorded, TypeOK
  <2> QED BY <1>3, <2>1, RecordMeasuring
<1>4. CASE RunFails
  BY <1>3, <1>4 DEF RunFails, RecordStatus
<1>5. CASE RunReturns
  <2> DEFINE v == disk[run.condition][run.repeat].verdict
  <2>1. /\ pc = "summarised" /\ RunRecorded(v) /\ v \in {"COMPLETED", "INVALID"}
        /\ run.repeat \in DOMAIN disk[run.condition]
    BY <1>5 DEF RunReturns, TypeOK
  <2>2. v \in RecordStatus /\ (v = "COMPLETED" => run.repeat \in Valid(run.condition))
    BY <2>1 DEF RecordStatus, Valid
  <2> QED BY <1>3, <2>1, <2>2
<1> QED BY <1>1, <1>2, <1>4, <1>5

LEMMA NextMeasuring == TypeOK /\ Measuring /\ [Next]_vars => Measuring'
<1> SUFFICES ASSUME TypeOK, Measuring, [Next]_vars
             PROVE  Measuring'
  OBVIOUS
<1>1. CASE Operator
  BY <1>1, QuietMeasuring
     DEF Operator, StartSession, ResumeSession, Enter
<1>2. CASE SkipBlock \/ OpenBlock \/ BeginRuns \/ CloseBlock \/ CloseSession \/ Raise
  BY <1>2, QuietMeasuring
     DEF SkipBlock, OpenBlock, BeginRuns, CloseBlock, CloseSession, Raise, Exit, durable
<1>3. ASSUME NEW c \in Conditions, NothingToRecover(c)
      PROVE  Measuring'
  BY <1>3, QuietMeasuring DEF NothingToRecover, durable
<1>4. CASE Crash \/ CrashInStateFile
  BY <1>4, QuietMeasuring DEF Crash, CrashInStateFile, Exit, durable
<1>5. CASE UNCHANGED vars
  <2>1. UNCHANGED <<disk, ledger, pc, run, at>>
    BY <1>5 DEF vars, durable, local
  <2> QED BY <2>1 DEF Measuring, BlankDirectory, RoomForAnother, ValidRunsBounded,
                      RecordsNameValidRuns, ValidRuns, Valid
<1> QED BY <1>1, <1>2, <1>3, <1>4, <1>5, StartMeasuring, SummaryMeasuring, LoopMeasuring
        DEF Next, Step, Host

LEMMA MeasuringInvariant == Spec => [](TypeOK /\ Measuring)
<1>1. Init => TypeOK /\ Measuring
  BY InitTypeOK, InitMeasuring
<1>2. TypeOK /\ Measuring /\ [Next]_vars => (TypeOK /\ Measuring)'
  BY NextTypeOK, NextMeasuring
<1> QED BY <1>1, <1>2, PTL DEF Spec

\* No condition has more valid runs than the policy's maximum (analysis.py:11-26).
THEOREM NeverTooManyRuns == Spec => []ValidRunsBounded
<1>1. Measuring => ValidRunsBounded
  BY DEF Measuring
<1> QED BY <1>1, MeasuringInvariant, PTL

\* A COMPLETED record names a run with valid evidence, even when the same run
\* is credited twice (baseline.py:195-215, 255-269).
THEOREM CompletedMeansValid == Spec => []RecordsNameValidRuns
<1>1. Measuring => RecordsNameValidRuns
  BY DEF Measuring
<1> QED BY <1>1, MeasuringInvariant, PTL

\* Evidence is append-only, through crashes and restarts (baseline.py:102-110,
\* runner/cli.py:56-59).
THEOREM EvidenceIsAppendOnly == Spec => EvidencePreserved
<1> DEFINE Keeps ==
      \A c \in Conditions : \A r \in DOMAIN disk[c] :
        /\ r \in DOMAIN disk'[c]
        /\ disk'[c][r].by = disk[c][r].by
        /\ disk[c][r].verdict # "NONE" => disk'[c][r].verdict = disk[c][r].verdict
<1>1. TypeOK /\ Measuring /\ [Next]_vars => [Keeps]_disk
  <2> SUFFICES ASSUME TypeOK, Measuring, [Next]_vars, disk' # disk
               PROVE  Keeps
    OBVIOUS
  <2>1. CASE \E c \in Conditions : StartRun(c)
    <3>1. PICK c \in Conditions : StartRun(c)
      BY <2>1
    <3> DEFINE r == NextRepeat(c)
               e == [verdict |-> "NONE", by |-> at.session]
    <3>2. disk' = [disk EXCEPT ![c] = Put(@, r, e)]
      BY <3>1 DEF StartRun
    <3>3. r \notin DOMAIN disk[c]
      BY NextRepeatFresh DEF TypeOK
    <3> HIDE DEF r, e
    <3> QED BY <3>2, <3>3, FilingKeeps
  <2>2. CASE SummaryValid \/ SummaryInvalid \/ CrashInSummary
    <3>1. PICK v \in Verdicts : FileSummary(v)
      BY <2>2 DEF SummaryValid, SummaryInvalid, CrashInSummary, Verdicts
    <3>2. pc = "measuring"
      BY <2>2 DEF SummaryValid, SummaryInvalid, CrashInSummary
    <3> QED BY <3>1, <3>2, SummaryFiling
  <2>3. CASE Operator
    BY <2>3 DEF Operator, StartSession, ResumeSession
  <2>4. CASE SkipBlock \/ OpenBlock \/ BeginRuns \/ CloseBlock \/ CloseSession \/ Raise
    BY <2>4 DEF SkipBlock, OpenBlock, BeginRuns, CloseBlock, CloseSession, Raise, durable
  <2>5. CASE \E c \in Conditions : Recover(c) \/ NothingToRecover(c) \/ SkipCondition(c)
    BY <2>5 DEF Recover, NothingToRecover, SkipCondition, durable
  <2>6. CASE RunFails \/ RunReturns
    BY <2>6 DEF RunFails, RunReturns, RunRecorded
  <2>7. CASE Crash \/ CrashInStateFile
    BY <2>7 DEF Crash, CrashInStateFile, durable
  <2>8. CASE UNCHANGED vars
    BY <2>8 DEF vars, durable
  <2> QED BY <2>1, <2>2, <2>3, <2>4, <2>5, <2>6, <2>7, <2>8 DEF Next, Step, Host
<1>2. Spec => [][Keeps]_disk
  BY <1>1, MeasuringInvariant, PTL DEF Spec
<1> QED BY <1>2 DEF EvidencePreserved

=============================================================================
