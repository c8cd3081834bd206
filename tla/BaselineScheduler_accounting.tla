-------------------- MODULE BaselineScheduler_accounting --------------------
(***************************************************************************)
(* What the scheduler promises when only the newest session is ever        *)
(* resumed (Discipline # "any"): no run is recorded twice and at most one  *)
(* valid run of a session waits for its record (invariant Accounting), one *)
(* session yields no more runs than it has blocks (Budget), and the        *)
(* scheduler implements EvidenceLedger. At the end, what holds in whatever *)
(* order sessions are resumed: no session claims more runs than have come  *)
(* since its baseline (Claims).                                            *)
(***************************************************************************)
EXTENDS BaselineScheduler_proofs, SequenceTheorems

-----------------------------------------------------------------------------
\* What the books say in one state.

LEMMA YieldFinite ==
  ASSUME TypeOK, NEW c \in Conditions, NEW s
  PROVE  /\ Yield(s, c) \in SUBSET Valid(c)
         /\ IsFiniteSet(Yield(s, c))
         /\ Cardinality(Yield(s, c)) \in Nat
<1>1. Yield(s, c) \in SUBSET Valid(c)
  BY DEF Yield
<1>2. IsFiniteSet(Valid(c))
  BY ValidFinite
<1> QED BY <1>1, <1>2, FS_Subset, FS_CardinalityType

\* assigned, the number of COMPLETED records of a session, is the number of
\* its valid runs that are credited: records and runs match one to one.
LEMMA RecordsMatchRuns ==
  ASSUME TypeOK, OwnRuns, NoRunRecordedTwice, NEW c \in Conditions, NEW s
  PROVE  /\ Cardinality(Recorded(s, c)) = Cardinality(Yield(s, c) \cap CreditedRuns(c))
         /\ Cardinality(Recorded(s, c)) \in Nat
<1> DEFINE R == Recorded(s, c)
           T == Yield(s, c) \cap CreditedRuns(c)
           f == [i \in R |-> ledger[i].repeat]
<1>1. \A i \in R : f[i] \in T
  BY DEF OwnRuns, Recorded, CreditedRuns
<1>2. \A i, j \in R : f[i] = f[j] => i = j
  BY DEF NoRunRecordedTwice, Recorded
<1>3. ASSUME NEW t \in T
      PROVE  \E i \in R : f[i] = t
  <2>1. PICK i \in DOMAIN ledger : /\ ledger[i].condition = c
                                   /\ ledger[i].status = "COMPLETED"
                                   /\ ledger[i].repeat = t
    BY DEF CreditedRuns
  <2>2. t \in Yield(ledger[i].session, c) /\ t \in Yield(s, c)
    BY <2>1 DEF OwnRuns
  <2>3. ledger[i].session = s
    BY <2>2 DEF Yield
  <2> QED BY <2>1, <2>3 DEF Recorded
<1>4. f \in [R -> T]
  BY <1>1
<1> HIDE DEF R, T
<1>5. f \in Bijection(R, T)
  BY <1>2, <1>3, <1>4 DEF Bijection, Injection, Surjection, IsInjective
<1>6. ExistsBijection(R, T)
  BY <1>5 DEF ExistsBijection
<1>7. IsFiniteSet(R) /\ Cardinality(R) \in Nat
  BY RecordedFinite DEF R
<1> QED BY <1>6, <1>7, FS_Bijection DEF R, T

\* The number of new valid runs, as the recovery loop computes it from the
\* baseline, is the number of valid runs of the newest session.
LEMMA NewRunsAreYield ==
  ASSUME TypeOK, BaselineCountsOlder, sessions # <<>>, NEW c \in Conditions
  PROVE  ValidRuns(c) - sessions[Len(sessions)].baseline[c] =
           Cardinality(Yield(Len(sessions), c))
<1> DEFINE V == Valid(c)
           Y == Yield(Len(sessions), c)
<1>1. IsFiniteSet(V) /\ Y \in SUBSET V
  BY ValidFinite, YieldFinite
<1>2. Cardinality(V) \in Nat /\ Cardinality(Y) \in Nat
  BY ValidFinite, YieldFinite DEF ValidRuns
<1>3. sessions[Len(sessions)].baseline[c] = Cardinality(V \ Y)
  BY DEF BaselineCountsOlder
<1> HIDE DEF V, Y
<1>4. V \cap Y = Y
  BY <1>1
<1>5. Cardinality(V \ Y) = Cardinality(V) - Cardinality(Y)
  BY <1>1, <1>4, FS_Difference
<1> QED BY <1>2, <1>3, <1>5 DEF V, Y, ValidRuns

\* The recovery test compares what was produced with what was recorded: it
\* finds nothing exactly when every run of the session has been credited.
LEMMA RecoveryTest ==
  ASSUME TypeOK, Books, sessions # <<>>, NEW c \in Conditions,
         NEW n, n = Cardinality(Recorded(Len(sessions), c))
  PROVE  ValidRuns(c) - sessions[Len(sessions)].baseline[c] > n <=> ~Settled(c)
<1> DEFINE Y == Yield(Len(sessions), c)
           K == Y \cap CreditedRuns(c)
<1>1. /\ n = Cardinality(K)
      /\ ValidRuns(c) - sessions[Len(sessions)].baseline[c] = Cardinality(Y)
      /\ Cardinality(Y) \in Nat
      /\ Cardinality(K) \in Nat
  BY RecordsMatchRuns, NewRunsAreYield, YieldFinite DEF Books
<1>2. IsFiniteSet(Y) /\ K \in SUBSET Y
  BY YieldFinite
<1>3. Settled(c) <=> K = Y
  BY DEF Settled
<1> HIDE DEF Y, K
<1>4. Cardinality(K) <= Cardinality(Y) /\ (Cardinality(Y) = Cardinality(K) => Y = K)
  BY <1>2, FS_Subset
<1> QED BY <1>1, <1>3, <1>4

\* When a run of the newest session waits for its record, _latest_selected_run
\* returns that run: it is valid, of this session and not yet credited.
LEMMA LatestIsUnrecorded ==
  ASSUME TypeOK, Books, sessions # <<>>, NEW c \in Conditions, ~Settled(c)
  PROVE  LatestSelectedRun(c) \in Yield(Len(sessions), c) \ CreditedRuns(c)
<1> DEFINE L == Len(sessions)
           m == LatestSelectedRun(c)
<1>1. PICK r \in Yield(L, c) \ CreditedRuns(c) : TRUE
  BY DEF Settled
<1>2. r \in Valid(c) /\ disk[c][r].by = L
  BY <1>1 DEF Yield
<1>3. m \in Valid(c) /\ r <= m
  BY <1>2, LatestIsValid
<1>4. m \in Yield(L, c)
  <2>1. r \in DOMAIN disk[c] /\ m \in DOMAIN disk[c]
    BY <1>2, <1>3 DEF Valid
  <2>2. disk[c][r].by <= disk[c][m].by /\ disk[c][m].by <= L
    BY <1>3, <2>1 DEF Books, DirectoriesInOrder
  <2>3. disk[c][m].by \in Nat /\ L \in Nat
    <3>1. disk[c][m] \in Evidence
      BY <2>1 DEF TypeOK
    <3> QED BY <3>1 DEF Evidence, TypeOK
  <2>4. disk[c][m].by = L
    BY <1>2, <2>2, <2>3
  <2> QED BY <1>3, <2>4 DEF Yield
<1>5. L \in DOMAIN sessions
  BY DEF TypeOK
<1>6. m <= r
  BY <1>1, <1>4, <1>5 DEF Books, UnrecordedIsNewest
<1>7. m = r
  <2>1. m \in Nat /\ r \in Nat
    BY <1>2, <1>3, ValidFinite
  <2> QED BY <1>3, <1>6, <2>1
<1> QED BY <1>1, <1>7

-----------------------------------------------------------------------------
\* The initial state and the steps that touch neither the evidence nor the
\* records.

LEMMA InitAccounting == Init => Accounting
<1> SUFFICES ASSUME Init
             PROVE  Accounting
  OBVIOUS
<1>1. ledger = <<>> /\ sessions = <<>> /\ pc = "idle"
  BY DEF Init
<1>2. \A c \in Conditions : \A r \in DOMAIN disk[c] : disk[c][r].by = 0
  BY DEF Init
<1>3. NoRunRecordedTwice /\ OwnRuns /\ BaselineCountsOlder /\ UnrecordedIsNewest
  BY <1>1 DEF NoRunRecordedTwice, OwnRuns, BaselineCountsOlder, UnrecordedIsNewest
<1>4. DirectoriesInOrder
  BY <1>1, <1>2 DEF DirectoriesInOrder
<1> QED
  BY <1>1, <1>3, <1>4 DEF Accounting, Books, RecoveryAccount, RunsAccount, RunInProgress

LEMMA BooksUnchanged ==
  ASSUME TypeOK, Books, UNCHANGED <<disk, ledger>>,
         DOMAIN sessions' = DOMAIN sessions,
         Len(sessions') = Len(sessions),
         sessions # <<>> => sessions'[Len(sessions)].baseline =
                              sessions[Len(sessions)].baseline
  PROVE  /\ Books'
         /\ \A c \in Conditions : /\ Settled(c)' = Settled(c)
                                   /\ CreditedRuns(c)' = CreditedRuns(c)
                                   /\ \A s : Recorded(s, c)' = Recorded(s, c)
<1>1. \A c \in Conditions : /\ Valid(c)' = Valid(c)
                            /\ CreditedRuns(c)' = CreditedRuns(c)
                            /\ \A s : /\ Yield(s, c)' = Yield(s, c)
                                      /\ Recorded(s, c)' = Recorded(s, c)
  BY DEF Valid, CreditedRuns, Yield, Recorded
<1>2. NoRunRecordedTwice' /\ OwnRuns'
  BY DEF Books, NoRunRecordedTwice, OwnRuns, Yield, Valid
<1>3. DirectoriesInOrder' /\ UnrecordedIsNewest'
  BY <1>1 DEF Books, DirectoriesInOrder, UnrecordedIsNewest
<1>4. BaselineCountsOlder'
  <2>1. sessions' # <<>> => sessions # <<>>
    BY DEF TypeOK
  <2> QED BY <1>1, <2>1 DEF Books, BaselineCountsOlder
<1> QED BY <1>1, <1>2, <1>3, <1>4 DEF Books, Settled

\* A running process works on a session that exists.
LEMMA RunningSession ==
  ASSUME TypeOK, pc # "idle"
  PROVE  sessions # <<>> /\ Len(sessions) \in DOMAIN sessions
BY DEF TypeOK

\* A step that keeps the books and ends the process keeps the accounts.
LEMMA ExitAccounting ==
  ASSUME Books', pc' = "idle"
  PROVE  Accounting'
BY DEF Accounting, RecoveryAccount, RunsAccount, RunInProgress

LEMMA OperatorAccounting ==
  ASSUME TypeOK, Accounting, Operator
  PROVE  Accounting'
<1> SUFFICES ASSUME Discipline # "any"
             PROVE  Accounting'
  BY DEF Accounting
<1>0. Books
  BY DEF Accounting
<1>1. ASSUME NEW b \in MinBlocks .. MaxBlocks, StartSession(b)
      PROVE  Accounting'
  <2> DEFINE L == Len(sessions)
  <2>1. /\ UNCHANGED <<disk, ledger>>
        /\ Len(sessions') = L + 1
        /\ DOMAIN sessions' = 1 .. L + 1
        /\ sessions'[L + 1].baseline = Baseline
        /\ L \in Nat
        /\ DOMAIN sessions = 1 .. L
    BY <1>1 DEF StartSession, TypeOK
  <2>2. \A c \in Conditions : /\ Valid(c)' = Valid(c)
                              /\ CreditedRuns(c)' = CreditedRuns(c)
                              /\ \A s : Yield(s, c)' = Yield(s, c)
    BY <2>1 DEF Valid, CreditedRuns, Yield
  <2>3. ASSUME NEW c \in Conditions
        PROVE  Yield(L + 1, c) = {}
    <3>1. ASSUME NEW r \in DOMAIN disk[c]
          PROVE  disk[c][r].by # L + 1
      <4>1. disk[c][r].by <= L
        BY <1>0 DEF Books, DirectoriesInOrder
      <4>2. disk[c][r] \in Evidence
        BY DEF TypeOK
      <4> QED BY <2>1, <4>1, <4>2 DEF Evidence
    <3> QED BY <3>1 DEF Yield, Valid
  <2>4. NoRunRecordedTwice' /\ OwnRuns'
    BY <1>0, <2>1 DEF Books, NoRunRecordedTwice, OwnRuns, Yield, Valid
  <2>5. DirectoriesInOrder'
    <3>1. ASSUME NEW c \in Conditions, NEW r \in DOMAIN disk[c]
          PROVE  disk[c][r].by <= L + 1
      <4>1. disk[c][r].by <= L
        BY <1>0 DEF Books, DirectoriesInOrder
      <4>2. disk[c][r] \in Evidence
        BY DEF TypeOK
      <4> QED BY <2>1, <4>1, <4>2 DEF Evidence
    <3> QED BY <1>0, <2>1, <3>1 DEF Books, DirectoriesInOrder
  <2>6. BaselineCountsOlder'
    <3>1. ASSUME NEW c \in Conditions
          PROVE  sessions'[L + 1].baseline[c] = Cardinality(Valid(c) \ Yield(L + 1, c))
      <4>1. Valid(c) \ Yield(L + 1, c) = Valid(c)
        BY <2>3
      <4> QED BY <2>1, <4>1 DEF Baseline, ValidRuns
    <3> QED BY <2>1, <2>2, <3>1 DEF BaselineCountsOlder
  <2>7. UnrecordedIsNewest'
    <3>1. ASSUME NEW c \in Conditions, NEW s \in DOMAIN sessions',
                 NEW r \in Yield(s, c) \ CreditedRuns(c), NEW q \in Yield(s, c)
          PROVE  q <= r
      <4>1. s # L + 1
        BY <2>3
      <4>2. s \in DOMAIN sessions
        BY <2>1, <4>1
      <4> QED BY <1>0, <4>2 DEF Books, UnrecordedIsNewest
    <3> QED BY <2>2, <3>1 DEF UnrecordedIsNewest
  <2>8. Books'
    BY <2>4, <2>5, <2>6, <2>7 DEF Books
  <2>9. pc' = "open" /\ at'.session = L + 1
    BY <1>1 DEF StartSession, Enter
  <2> QED BY <2>1, <2>8, <2>9 DEF Accounting, RecoveryAccount, RunsAccount, RunInProgress
<1>2. ASSUME NEW b \in MinBlocks .. MaxBlocks, NEW s \in DOMAIN sessions, ResumeSession(s, b)
      PROVE  Accounting'
  <2>1. Books'
    BY <1>0, <1>2, BooksUnchanged DEF ResumeSession
  <2>2. pc' = "open" /\ at'.session = Len(sessions')
    BY <1>2 DEF ResumeSession, Enter
  <2> QED BY <2>1, <2>2 DEF Accounting, RecoveryAccount, RunsAccount, RunInProgress
<1> QED BY <1>1, <1>2 DEF Operator

\* Updating the blocks or the status of a session leaves its baseline alone.
LEMMA BaselineKept ==
  ASSUME TypeOK, NEW s \in DOMAIN sessions, NEW x,
         \/ sessions' = [sessions EXCEPT ![s].blocks = x]
         \/ sessions' = [sessions EXCEPT ![s].status = x]
  PROVE  /\ DOMAIN sessions' = DOMAIN sessions
         /\ Len(sessions') = Len(sessions)
         /\ sessions'[s].baseline = sessions[s].baseline
<1>1. sessions[s] \in Session /\ sessions \in Seq(Session)
  BY DEF TypeOK
<1>2. PICK y : sessions' = [sessions EXCEPT ![s] = y] /\ y.baseline = sessions[s].baseline
  <2>1. CASE sessions' = [sessions EXCEPT ![s].blocks = x]
    <3> DEFINE y == [sessions[s] EXCEPT !.blocks = x]
    <3>1. sessions' = [sessions EXCEPT ![s] = y] /\ y.baseline = sessions[s].baseline
      BY <1>1, <2>1 DEF Session
    <3> QED BY <3>1
  <2>2. CASE sessions' = [sessions EXCEPT ![s].status = x]
    <3> DEFINE y == [sessions[s] EXCEPT !.status = x]
    <3>1. sessions' = [sessions EXCEPT ![s] = y] /\ y.baseline = sessions[s].baseline
      BY <1>1, <2>2 DEF Session
    <3> QED BY <3>1
  <2> QED BY <2>1, <2>2
<1>3. DOMAIN sessions' = DOMAIN sessions /\ sessions'[s] = y
  BY <1>2
<1>4. Len(sessions') = Len(sessions)
  BY <1>1, <1>2
<1> QED BY <1>2, <1>3, <1>4

\* Steps that only move the process.
LEMMA QuietAccounting ==
  ASSUME TypeOK, Accounting,
         \/ SkipBlock \/ OpenBlock \/ BeginRuns \/ CloseBlock \/ CloseSession
         \/ Raise \/ Crash \/ CrashInStateFile
         \/ \E c \in Conditions : NothingToRecover(c)
  PROVE  Accounting'
<1> SUFFICES ASSUME Discipline # "any"
             PROVE  Accounting'
  BY DEF Accounting
<1>0. /\ Books
      /\ pc # "idle" => at.session = Len(sessions)
  BY DEF Accounting
<1>1. CASE SkipBlock
  <2>1. Books'
    BY <1>0, <1>1, BooksUnchanged DEF SkipBlock, durable
  <2>2. pc' = "open" /\ sessions' = sessions /\ at'.session = at.session
    <3>1. at \in [session : Nat, planned : Nat, block : Nat]
      BY DEF TypeOK
    <3> QED BY <1>1, <3>1 DEF SkipBlock, durable
  <2> QED BY <1>0, <1>1, <2>1, <2>2
          DEF Accounting, RecoveryAccount, RunsAccount, RunInProgress, SkipBlock
<1>2. CASE OpenBlock
  <2> DEFINE s == at.session
  <2>1. s = Len(sessions) /\ s \in DOMAIN sessions
    BY <1>0, <1>2 DEF OpenBlock, TypeOK
  <2>2. /\ DOMAIN sessions' = DOMAIN sessions
        /\ Len(sessions') = Len(sessions)
        /\ sessions'[s].baseline = sessions[s].baseline
        /\ UNCHANGED <<disk, ledger>>
    <3>1. sessions' = [sessions EXCEPT ![s].blocks =
                         IF BlockStatus(s, at.block) = "ABSENT"
                           THEN Append(sessions[s].blocks, "RUNNING")
                           ELSE sessions[s].blocks]
      BY <1>2 DEF OpenBlock
    <3>2. UNCHANGED <<disk, ledger>>
      BY <1>2 DEF OpenBlock
    <3> QED BY <2>1, <3>1, <3>2, BaselineKept
  <2>3. Books' /\ \A c \in Conditions : Recorded(s, c)' = Recorded(s, c)
    <3>1. \A c \in Conditions : Recorded(s, c)' = Recorded(s, c)
      BY <1>2, <2>2 DEF Recorded, OpenBlock
    <3> QED BY <1>0, <2>1, <2>2, <3>1, BooksUnchanged
  <2>4. /\ pc' = "recover" /\ todo' = Conditions /\ at' = at
        /\ assigned' = Assigned(s)
    BY <1>2 DEF OpenBlock
  <2>5. \A c \in Conditions : assigned'[c] = Cardinality(Recorded(Len(sessions), c)')
    BY <2>1, <2>2, <2>3, <2>4 DEF Assigned
  <2>6. RecoveryAccount'
    BY <2>4, <2>5 DEF RecoveryAccount
  <2> QED BY <2>1, <2>2, <2>3, <2>4, <2>6 DEF Accounting, RunsAccount, RunInProgress
<1>3. CASE BeginRuns
  <2>1. Books' /\ \A c \in Conditions : Settled(c)' = Settled(c)
    BY <1>0, <1>3, BooksUnchanged DEF BeginRuns, durable
  <2>2. \A c \in Conditions \ done : Settled(c)
    BY <1>3 DEF BeginRuns, Accounting, RecoveryAccount
  <2>3. /\ pc' = "run" /\ todo' = Conditions \ done
        /\ at' = at /\ sessions' = sessions /\ pc = "recover"
    BY <1>3 DEF BeginRuns, durable
  <2> QED BY <1>0, <2>1, <2>2, <2>3
          DEF Accounting, RecoveryAccount, RunsAccount, RunInProgress
<1>4. CASE CloseBlock
  <2> DEFINE s == at.session
             b == at.block
  <2>1. s = Len(sessions) /\ s \in DOMAIN sessions
    BY <1>0, <1>4 DEF CloseBlock, TypeOK
  <2>2. /\ DOMAIN sessions' = DOMAIN sessions
        /\ Len(sessions') = Len(sessions)
        /\ sessions'[s].baseline = sessions[s].baseline
        /\ UNCHANGED <<disk, ledger>>
    <3>1. sessions' = [sessions EXCEPT ![s].blocks =
                         [sessions[s].blocks EXCEPT ![b] = "COMPLETED"]]
      BY <1>4 DEF CloseBlock
    <3>2. UNCHANGED <<disk, ledger>>
      BY <1>4 DEF CloseBlock
    <3> QED BY <2>1, <3>1, <3>2, BaselineKept
  <2>3. Books'
    BY <1>0, <2>1, <2>2, BooksUnchanged
  <2>4. pc' = "open" /\ at'.session = s
    <3>1. at \in [session : Nat, planned : Nat, block : Nat]
      BY DEF TypeOK
    <3> QED BY <1>4, <3>1 DEF CloseBlock
  <2> QED BY <2>1, <2>2, <2>3, <2>4
          DEF Accounting, RecoveryAccount, RunsAccount, RunInProgress
<1>5. CASE CloseSession
  <2> DEFINE s == at.session
  <2>1. s = Len(sessions) /\ s \in DOMAIN sessions
    BY <1>0, <1>5 DEF CloseSession, TypeOK
  <2>2. /\ DOMAIN sessions' = DOMAIN sessions
        /\ Len(sessions') = Len(sessions)
        /\ sessions'[s].baseline = sessions[s].baseline
        /\ UNCHANGED <<disk, ledger>>
    <3>1. sessions' = [sessions EXCEPT ![s].status = "COMPLETED"]
      BY <1>5 DEF CloseSession
    <3>2. UNCHANGED <<disk, ledger>>
      BY <1>5 DEF CloseSession
    <3> QED BY <2>1, <3>1, <3>2, BaselineKept
  <2>3. Books'
    BY <1>0, <2>1, <2>2, BooksUnchanged
  <2> QED BY <1>5, <2>3, ExitAccounting DEF CloseSession, Exit
<1>6. CASE Raise \/ Crash \/ CrashInStateFile
  <2>1. UNCHANGED <<disk, ledger, sessions>> /\ pc' = "idle"
    BY <1>6 DEF Raise, Crash, CrashInStateFile, Exit, durable
  <2>2. Books'
    BY <1>0, <2>1, BooksUnchanged
  <2> QED BY <2>1, <2>2, ExitAccounting
<1>7. ASSUME NEW c \in Conditions, NothingToRecover(c)
      PROVE  Accounting'
  <2>1. /\ pc = "recover" /\ pc' = "recover" /\ c \in todo
        /\ todo' = todo \ {c} /\ done' = done /\ assigned' = assigned
        /\ at' = at /\ UNCHANGED <<disk, ledger, sessions>>
        /\ ~MustRecover(c)
    BY <1>7 DEF NothingToRecover, durable
  <2>2. /\ Books'
        /\ \A d \in Conditions : /\ Settled(d)' = Settled(d)
                                 /\ \A s : Recorded(s, d)' = Recorded(s, d)
    BY <1>0, <2>1, BooksUnchanged
  <2>3. sessions # <<>> /\ at.session = Len(sessions)
    BY <1>0, <2>1, RunningSession
  <2>4. /\ \A d \in todo : assigned[d] = Cardinality(Recorded(Len(sessions), d))
        /\ \A d \in Conditions \ (todo \cup done) : Settled(d)
    BY <2>1 DEF Accounting, RecoveryAccount
  <2>5. c \in done \/ Settled(c)
    BY <1>0, <2>1, <2>3, <2>4, RecoveryTest DEF MustRecover, NewValidRuns
  <2>6. RecoveryAccount'
    <3>1. \A d \in todo' : assigned'[d] = Cardinality(Recorded(Len(sessions), d)')
      BY <2>1, <2>2, <2>4 DEF TypeOK
    <3>2. \A d \in Conditions \ (todo' \cup done') : Settled(d)'
      BY <2>1, <2>2, <2>4, <2>5
    <3> QED BY <3>1, <3>2 DEF RecoveryAccount
  <2> QED BY <2>1, <2>2, <2>3, <2>6 DEF Accounting, RunsAccount, RunInProgress
<1> QED BY <1>1, <1>2, <1>3, <1>4, <1>5, <1>6, <1>7

-----------------------------------------------------------------------------
\* The steps that append a record.

\* What a new record changes: COMPLETED credits its run and nothing else does.
LEMMA RecordCredits ==
  ASSUME TypeOK, pc \in {"recover", "run", "measuring", "summarised"},
         NEW c \in Conditions, NEW stat \in RecordStatus, NEW r \in Nat,
         Record(c, stat, r)
  PROVE  /\ CreditedRuns(c)' = CreditedRuns(c) \cup (IF stat = "COMPLETED" THEN {r} ELSE {})
         /\ \A d \in Conditions \ {c} :
              /\ CreditedRuns(d)' = CreditedRuns(d)
              /\ \A s : Recorded(s, d)' = Recorded(s, d)
<1> DEFINE n == Len(ledger) + 1
<1>1. /\ DOMAIN ledger' = DOMAIN ledger \cup {n}
      /\ n \notin DOMAIN ledger
      /\ ledger'[n].condition = c
      /\ ledger'[n].status = stat
      /\ ledger'[n].repeat = r
      /\ \A i \in DOMAIN ledger : ledger'[i] = ledger[i]
  <2>1. /\ DOMAIN ledger' = 1 .. n
        /\ ledger'[n] = [session |-> at.session, block |-> at.block,
                         condition |-> c, status |-> stat, repeat |-> r]
        /\ \A i \in DOMAIN ledger : ledger'[i] = ledger[i]
    BY RecordType
  <2>2. DOMAIN ledger = 1 .. Len(ledger) /\ Len(ledger) \in Nat
    BY DEF TypeOK
  <2> QED BY <2>1, <2>2
<1> HIDE DEF n
<1>2. CreditedRuns(c)' = CreditedRuns(c) \cup (IF stat = "COMPLETED" THEN {r} ELSE {})
  BY <1>1 DEF CreditedRuns
<1>3. ASSUME NEW d \in Conditions \ {c}
      PROVE  CreditedRuns(d)' = CreditedRuns(d)
  BY <1>1 DEF CreditedRuns
<1>4. ASSUME NEW d \in Conditions \ {c}, NEW s
      PROVE  Recorded(s, d)' = Recorded(s, d)
  BY <1>1 DEF Recorded
<1> QED BY <1>2, <1>3, <1>4

\* A record of the running session keeps the books, provided that one that
\* says COMPLETED names a valid run of that session without a record. It
\* settles the condition, because at most one run was waiting for it.
LEMMA RecordKeepsBooks ==
  ASSUME TypeOK, Books, UNCHANGED <<disk, sessions>>,
         pc \in {"recover", "run", "measuring", "summarised"},
         at.session = Len(sessions),
         NEW c \in Conditions, NEW stat \in RecordStatus, NEW r \in Nat,
         Record(c, stat, r),
         stat = "COMPLETED" => r \in Yield(Len(sessions), c) \ CreditedRuns(c)
  PROVE  /\ Books'
         /\ \A d \in Conditions : Settled(d) => Settled(d)'
         /\ stat = "COMPLETED" => Settled(c)'
<1> DEFINE n == Len(ledger) + 1
           L == Len(sessions)
<1>1. /\ DOMAIN ledger' = DOMAIN ledger \cup {n}
      /\ n \notin DOMAIN ledger
      /\ ledger'[n].session = L
      /\ ledger'[n].condition = c
      /\ ledger'[n].status = stat
      /\ ledger'[n].repeat = r
      /\ \A i \in DOMAIN ledger : ledger'[i] = ledger[i]
  <2>1. /\ DOMAIN ledger' = 1 .. n
        /\ ledger'[n] = [session |-> at.session, block |-> at.block,
                         condition |-> c, status |-> stat, repeat |-> r]
        /\ \A i \in DOMAIN ledger : ledger'[i] = ledger[i]
    BY RecordType
  <2>2. DOMAIN ledger = 1 .. Len(ledger) /\ Len(ledger) \in Nat
    BY DEF TypeOK
  <2> QED BY <2>1, <2>2
<1>2. L \in DOMAIN sessions
  BY RunningSession
<1>3. \A d \in Conditions : /\ Valid(d)' = Valid(d)
                            /\ \A s : Yield(s, d)' = Yield(s, d)
  BY DEF Valid, Yield
<1>4. /\ \A d \in Conditions : CreditedRuns(d) \subseteq CreditedRuns(d)'
      /\ stat = "COMPLETED" => r \in CreditedRuns(c)'
  BY RecordCredits
<1> HIDE DEF n
<1>5. NoRunRecordedTwice'
  <2>1. ASSUME NEW i \in DOMAIN ledger, ledger[i].status = "COMPLETED",
               ledger[i].condition = c, ledger[i].repeat = r, stat = "COMPLETED"
        PROVE  FALSE
    BY <2>1 DEF CreditedRuns
  <2> QED BY <1>1, <2>1 DEF Books, NoRunRecordedTwice
<1>6. OwnRuns'
  <2>1. ASSUME NEW i \in DOMAIN ledger', ledger'[i].status = "COMPLETED"
        PROVE  ledger'[i].repeat \in Yield(ledger'[i].session, ledger'[i].condition)
    <3>1. CASE i = n
      <4>1. r \in Yield(L, c)
        BY <1>1, <2>1, <3>1
      <4>2. ledger'[i].repeat = r /\ ledger'[i].session = L /\ ledger'[i].condition = c
        BY <1>1, <3>1
      <4> QED BY <4>1, <4>2
    <3>2. CASE i \in DOMAIN ledger
      <4>1. /\ ledger'[i] = ledger[i]
            /\ ledger[i].repeat \in Yield(ledger[i].session, ledger[i].condition)
        BY <1>1, <2>1, <3>2 DEF Books, OwnRuns
      <4> QED BY <4>1
    <3> QED BY <1>1, <3>1, <3>2
  <2> QED BY <2>1 DEF OwnRuns, Yield, Valid
<1>7. DirectoriesInOrder' /\ BaselineCountsOlder'
  BY <1>3 DEF Books, DirectoriesInOrder, BaselineCountsOlder
<1>8. UnrecordedIsNewest'
  BY <1>3, <1>4 DEF Books, UnrecordedIsNewest
<1>9. ASSUME NEW d \in Conditions, Settled(d)
      PROVE  Settled(d)'
  BY <1>3, <1>4, <1>9 DEF Settled
<1>10. ASSUME stat = "COMPLETED"
       PROVE  Settled(c)'
  <2>1. ASSUME NEW x \in Yield(L, c), x \notin CreditedRuns(c)'
        PROVE  FALSE
    <3>1. x \notin CreditedRuns(c) /\ x # r
      BY <1>4, <1>10, <2>1
    <3>2. x <= r /\ r <= x
      BY <1>2, <1>10, <3>1, <2>1 DEF Books, UnrecordedIsNewest
    <3>3. x \in Nat
      BY ValidFinite DEF Yield
    <3> QED BY <3>1, <3>2, <3>3
  <2>2. Yield(L, c)' = Yield(L, c) /\ sessions' = sessions
    BY <1>3
  <2>3. Yield(L, c)' \subseteq CreditedRuns(c)'
    BY <2>1, <2>2
  <2> QED BY <2>2, <2>3 DEF Settled
<1> QED BY <1>5, <1>6, <1>7, <1>8, <1>9, <1>10 DEF Books

\* The recovery loop credits the run of the newest session that waits.
LEMMA RecoveredRun ==
  ASSUME TypeOK, Accounting, Discipline # "any", NEW c \in Conditions, Recover(c)
  PROVE  /\ LatestSelectedRun(c) \in Yield(Len(sessions), c) \ CreditedRuns(c)
         /\ LatestSelectedRun(c) \in Nat
<1>1. Books /\ RecoveryAccount /\ pc = "recover" /\ c \in todo /\ MustRecover(c)
  BY DEF Accounting, Recover
<1>2. sessions # <<>> /\ at.session = Len(sessions)
  BY <1>1, RunningSession DEF Accounting
<1>3. assigned[c] = Cardinality(Recorded(Len(sessions), c))
  BY <1>1 DEF RecoveryAccount
<1>4. ~Settled(c)
  BY <1>1, <1>2, <1>3, RecoveryTest DEF MustRecover, NewValidRuns
<1>5. LatestSelectedRun(c) \in Yield(Len(sessions), c) \ CreditedRuns(c)
  BY <1>1, <1>2, <1>4, LatestIsUnrecorded
<1> QED BY <1>5, ValidFinite DEF Yield

LEMMA RecordAccounting ==
  ASSUME TypeOK, Accounting,
         \/ \E c \in Conditions : Recover(c) \/ SkipCondition(c)
         \/ RunFails \/ RunReturns
  PROVE  Accounting'
<1> SUFFICES ASSUME Discipline # "any"
             PROVE  Accounting'
  BY DEF Accounting
<1>0. /\ Books
      /\ pc # "idle" => at.session = Len(sessions)
      /\ RecoveryAccount
      /\ RunsAccount
      /\ RunInProgress
  BY DEF Accounting
<1>1. ASSUME NEW c \in Conditions, Recover(c)
      PROVE  Accounting'
  <2> DEFINE r == LatestSelectedRun(c)
  <2>1. /\ pc = "recover" /\ pc' = "recover" /\ c \in todo
        /\ todo' = todo \ {c} /\ done' = done \cup {c}
        /\ assigned' = assigned /\ at' = at
        /\ UNCHANGED <<disk, sessions>>
        /\ Record(c, "COMPLETED", r)
        /\ MustRecover(c)
    BY <1>1 DEF Recover
  <2>2. sessions # <<>> /\ at.session = Len(sessions)
    BY <1>0, <2>1, RunningSession
  <2>3. r \in Yield(Len(sessions), c) \ CreditedRuns(c) /\ r \in Nat
    BY <1>1, RecoveredRun
  <2> HIDE DEF r
  <2>5. "COMPLETED" \in RecordStatus
    BY DEF RecordStatus
  <2>6. Books' /\ \A d \in Conditions : Settled(d) => Settled(d)'
    BY <1>0, <2>1, <2>2, <2>3, <2>5, RecordKeepsBooks
  <2>7. \A d \in Conditions \ {c} : \A s : Recorded(s, d)' = Recorded(s, d)
    BY <2>1, <2>3, <2>5, RecordCredits
  <2>8. RecoveryAccount'
    <3>1. \A d \in todo' : assigned'[d] = Cardinality(Recorded(Len(sessions), d)')
      BY <1>0, <2>1, <2>7 DEF RecoveryAccount, TypeOK
    <3>2. \A d \in Conditions \ (todo' \cup done') : Settled(d)'
      BY <1>0, <2>1, <2>6 DEF RecoveryAccount
    <3> QED BY <2>1, <3>1, <3>2 DEF RecoveryAccount
  <2> QED BY <2>1, <2>2, <2>6, <2>8 DEF Accounting, RunsAccount, RunInProgress
<1>2. ASSUME NEW c \in Conditions, SkipCondition(c)
      PROVE  Accounting'
  <2>1. /\ pc = "run" /\ pc' = "run" /\ todo' = todo \ {c} /\ at' = at
        /\ UNCHANGED <<disk, sessions>>
        /\ Record(c, "SKIPPED", 0)
    BY <1>2 DEF SkipCondition
  <2>2. "SKIPPED" \in RecordStatus /\ "SKIPPED" # "COMPLETED"
    BY DEF RecordStatus
  <2>3. at.session = Len(sessions)
    BY <1>0, <2>1
  <2>4. Books' /\ \A d \in Conditions : Settled(d) => Settled(d)'
    BY <1>0, <2>1, <2>2, <2>3, RecordKeepsBooks
  <2>5. \A d \in todo' : Settled(d)'
    BY <1>0, <2>1, <2>4 DEF RunsAccount, TypeOK
  <2> QED BY <2>1, <2>3, <2>4, <2>5
          DEF Accounting, RecoveryAccount, RunsAccount, RunInProgress
<1>3. ASSUME NEW stat \in RecordStatus, RunRecorded(stat),
             pc \in {"measuring", "summarised"},
             stat = "COMPLETED" =>
               run.repeat \in Yield(Len(sessions), run.condition) \ CreditedRuns(run.condition)
      PROVE  Accounting'
  <2>1. /\ pc' = "run" /\ todo' = todo \ {run.condition} /\ at' = at
        /\ UNCHANGED <<disk, sessions>>
        /\ Record(run.condition, stat, run.repeat)
    BY <1>3 DEF RunRecorded
  <2>2. run.condition \in Conditions /\ run.repeat \in Nat
    BY DEF TypeOK
  <2>3. at.session = Len(sessions)
    BY <1>0, <1>3
  <2>4. Books' /\ \A d \in Conditions : Settled(d) => Settled(d)'
    BY <1>0, <1>3, <2>1, <2>2, <2>3, RecordKeepsBooks
  <2>5. \A d \in todo' : Settled(d)'
    BY <1>0, <1>3, <2>1, <2>4 DEF RunsAccount, TypeOK
  <2> QED BY <2>1, <2>3, <2>4, <2>5
          DEF Accounting, RecoveryAccount, RunsAccount, RunInProgress
<1>4. CASE RunFails
  BY <1>3, <1>4 DEF RunFails, RecordStatus
<1>5. CASE RunReturns
  <2> DEFINE c == run.condition
             r == run.repeat
             v == disk[c][r].verdict
  <2>1. pc = "summarised" /\ RunRecorded(v) /\ v \in {"COMPLETED", "INVALID"}
    BY <1>5 DEF RunReturns, TypeOK
  <2>2. c \in Conditions /\ r \in DOMAIN disk[c] /\ disk[c][r].by = Len(sessions)
        /\ r \notin CreditedRuns(c)
    BY <1>0, <2>1 DEF TypeOK, RunInProgress
  <2>3. v = "COMPLETED" => r \in Yield(Len(sessions), c) \ CreditedRuns(c)
    BY <2>2 DEF Yield, Valid
  <2>4. v \in RecordStatus
    BY <2>1 DEF RecordStatus
  <2> QED BY <1>3, <2>1, <2>3, <2>4
<1> QED BY <1>1, <1>2, <1>4, <1>5

-----------------------------------------------------------------------------
\* The steps that change the evidence.

\* A new directory comes last and is not valid yet.
LEMMA NewDirectory ==
  ASSUME TypeOK, pc = "run", NEW c \in Conditions, StartRun(c)
  PROVE  /\ DOMAIN disk'[c] = DOMAIN disk[c] \cup {Len(disk[c]) + 1}
         /\ Len(disk'[c]) = Len(disk[c]) + 1
         /\ disk'[c][Len(disk[c]) + 1] = [verdict |-> "NONE", by |-> at.session]
         /\ \A q \in DOMAIN disk[c] : disk'[c][q] = disk[c][q]
         /\ \A d \in Conditions \ {c} : disk'[d] = disk[d]
         /\ \A d \in Conditions : /\ Valid(d)' = Valid(d)
                                  /\ \A s : Yield(s, d)' = Yield(s, d)
<1> DEFINE r == Len(disk[c]) + 1
           e == [verdict |-> "NONE", by |-> at.session]
<1>1. disk[c] \in Seq(Evidence) /\ at.session \in Nat
  BY DEF TypeOK
<1>2. e \in Evidence
  BY <1>1 DEF Evidence, Verdicts
<1>3. disk' = [disk EXCEPT ![c] = Put(disk[c], r, e)]
  BY NextRepeatFresh DEF StartRun
<1>4. disk'[c] = Put(disk[c], r, e) /\ \A d \in Conditions \ {c} : disk'[d] = disk[d]
  BY <1>3 DEF TypeOK
<1>5. r \in 1 .. Len(disk[c]) + 1 /\ r \in Nat /\ r - 1 = Len(disk[c])
      /\ DOMAIN disk[c] = 1 .. Len(disk[c])
  BY <1>1
<1>6. /\ disk'[c] \in Seq(Evidence)
      /\ DOMAIN disk'[c] = 1 .. r
      /\ \A x \in DOMAIN disk'[c] : disk'[c][x] = IF x = r THEN e ELSE disk[c][x]
  <2> HIDE DEF r, e
  <2>1. DOMAIN Put(disk[c], r, e) = 1 .. r
    <3>1. DOMAIN Put(disk[c], r, e) = 1 .. IF r = Len(disk[c]) + 1 THEN r ELSE Len(disk[c])
      BY <1>1, <1>2, <1>5, PutInSequence
    <3> QED BY <3>1 DEF r
  <2>2. Put(disk[c], r, e) \in Seq(Evidence)
    BY <1>1, <1>2, <1>5, PutInSequence
  <2>3. \A x \in DOMAIN Put(disk[c], r, e) :
          Put(disk[c], r, e)[x] = IF x = r THEN e ELSE disk[c][x]
    BY DEF Put
  <2> QED BY <1>4, <2>1, <2>2, <2>3
<1>7. /\ DOMAIN disk'[c] = DOMAIN disk[c] \cup {r}
      /\ r \notin DOMAIN disk[c]
      /\ Len(disk'[c]) = r
  BY <1>5, <1>6
<1>8. disk'[c][r] = e /\ \A q \in DOMAIN disk[c] : disk'[c][q] = disk[c][q]
  BY <1>6, <1>7
<1>9. e.verdict # "COMPLETED"
  OBVIOUS
<1> HIDE DEF r
<1>10. \A d \in Conditions : Valid(d)' = Valid(d)
  BY <1>4, <1>7, <1>8, <1>9 DEF Valid
<1>11. \A d \in Conditions : \A s : Yield(s, d)' = Yield(s, d)
  BY <1>4, <1>7, <1>8, <1>10 DEF Yield, Valid
<1> QED BY <1>4, <1>7, <1>8, <1>10, <1>11 DEF r

\* A summary changes the verdict of the run in progress and nothing else.
LEMMA NewVerdict ==
  ASSUME TypeOK, pc = "measuring", RunInProgress, at.session = Len(sessions),
         NEW v \in Verdicts, FileSummary(v)
  PROVE  /\ \A d \in Conditions :
              /\ DOMAIN disk'[d] = DOMAIN disk[d]
              /\ \A q \in DOMAIN disk[d] : disk'[d][q].by = disk[d][q].by
              /\ Valid(d)' = Valid(d) \cup IF d = run.condition /\ v = "COMPLETED"
                                             THEN {run.repeat} ELSE {}
         /\ disk'[run.condition][run.repeat] = [verdict |-> v, by |-> Len(sessions)]
         /\ Len(disk'[run.condition]) = Len(disk[run.condition])
<1> DEFINE c == run.condition
           r == run.repeat
           e == [verdict |-> v, by |-> Len(sessions)]
<1>1. c \in Conditions /\ r \in DOMAIN disk[c] /\ at.session \in Nat
      /\ disk[c][r].by = Len(sessions) /\ disk[c][r].verdict = "NONE"
  BY DEF TypeOK, RunInProgress
<1>2. disk[c] \in Seq(Evidence)
  BY <1>1 DEF TypeOK
<1>3. disk' = [disk EXCEPT ![c] = Put(disk[c], r, e)]
  BY DEF FileSummary
<1>4. disk'[c] = Put(disk[c], r, e) /\ \A d \in Conditions \ {c} : disk'[d] = disk[d]
  BY <1>1, <1>3 DEF TypeOK
<1>5. /\ DOMAIN disk'[c] = DOMAIN disk[c]
      /\ disk'[c][r] = e
      /\ \A q \in DOMAIN disk[c] : q # r => disk'[c][q] = disk[c][q]
  BY <1>1, <1>4 DEF Put
<1>6. Len(disk'[c]) = Len(disk[c])
  <2>1. disk'[c] \in [1 .. Len(disk[c]) -> {disk'[c][q] : q \in 1 .. Len(disk[c])}]
    BY <1>2, <1>4, <1>5 DEF Put
  <2> QED BY <1>2, <1>5, <2>1
<1>7. e.verdict = v /\ e.by = Len(sessions)
  OBVIOUS
<1> HIDE DEF c, r, e
<1>8. \A d \in Conditions :
        /\ DOMAIN disk'[d] = DOMAIN disk[d]
        /\ \A q \in DOMAIN disk[d] : disk'[d][q].by = disk[d][q].by
  BY <1>1, <1>4, <1>5, <1>7
<1>9. ASSUME NEW d \in Conditions
      PROVE  Valid(d)' = Valid(d) \cup IF d = c /\ v = "COMPLETED" THEN {r} ELSE {}
  <2>1. CASE d # c
    BY <1>4, <2>1 DEF Valid
  <2>2. CASE d = c
    BY <1>1, <1>5, <1>7, <2>2 DEF Valid
  <2> QED BY <2>1, <2>2
<1> QED BY <1>5, <1>6, <1>8, <1>9 DEF c, r, e

LEMMA StartAccounting ==
  ASSUME TypeOK, Accounting, NEW c \in Conditions, StartRun(c)
  PROVE  Accounting'
<1> SUFFICES ASSUME Discipline # "any"
             PROVE  Accounting'
  BY DEF Accounting
<1> DEFINE n == Len(disk[c]) + 1
           L == Len(sessions)
<1>0. /\ Books /\ RunsAccount
      /\ pc = "run" /\ c \in todo /\ at.session = L
  BY DEF Accounting, StartRun
<1>1. /\ UNCHANGED <<sessions, ledger, at, todo>>
      /\ pc' = "measuring"
      /\ run' = [condition |-> c, repeat |-> n]
  BY NextRepeatFresh DEF StartRun
<1>2. /\ DOMAIN disk'[c] = DOMAIN disk[c] \cup {n}
      /\ Len(disk'[c]) = n
      /\ disk'[c][n] = [verdict |-> "NONE", by |-> L]
      /\ \A q \in DOMAIN disk[c] : disk'[c][q] = disk[c][q]
      /\ \A d \in Conditions \ {c} : disk'[d] = disk[d]
      /\ \A d \in Conditions : /\ Valid(d)' = Valid(d)
                               /\ \A s : Yield(s, d)' = Yield(s, d)
  BY <1>0, NewDirectory
<1>3. DOMAIN disk[c] = 1 .. Len(disk[c]) /\ Len(disk[c]) \in Nat /\ L \in Nat
  BY DEF TypeOK
<1>4. \A d \in Conditions : CreditedRuns(d)' = CreditedRuns(d)
  BY <1>1 DEF CreditedRuns
<1>5. NoRunRecordedTwice'
  BY <1>0, <1>1 DEF Books, NoRunRecordedTwice
<1>6. OwnRuns'
  <2>1. ASSUME NEW i \in DOMAIN ledger, ledger[i].status = "COMPLETED"
        PROVE  ledger[i].repeat \in Yield(ledger[i].session, ledger[i].condition)'
    <3>1. ledger[i].condition \in Conditions
      <4>1. ledger[i] \in RunRecord
        BY DEF TypeOK
      <4> QED BY <4>1 DEF RunRecord
    <3> DEFINE d == ledger[i].condition
               s == ledger[i].session
               q == ledger[i].repeat
    <3>2. q \in Yield(s, d)
      BY <1>0, <2>1 DEF Books, OwnRuns
    <3>3. q \in DOMAIN disk[d] /\ disk[d][q].verdict = "COMPLETED" /\ disk[d][q].by = s
      BY <3>2 DEF Yield, Valid
    <3>4. q \in DOMAIN disk'[d] /\ disk'[d][q] = disk[d][q]
      BY <1>2, <3>1, <3>3
    <3>5. q \in {x \in {y \in DOMAIN disk'[d] : disk'[d][y].verdict = "COMPLETED"} :
                   disk'[d][x].by = s}
      BY <3>3, <3>4
    <3> QED BY <1>1, <3>5 DEF Yield, Valid
  <2> QED BY <1>1, <2>1 DEF OwnRuns
<1>7. DirectoriesInOrder'
  <2>1. ASSUME NEW d \in Conditions, NEW r \in DOMAIN disk'[d]
        PROVE  /\ disk'[d][r].by <= L
               /\ \A q \in DOMAIN disk'[d] : r <= q => disk'[d][r].by <= disk'[d][q].by
    <3>1. CASE d # c
      BY <1>0, <1>2, <3>1 DEF Books, DirectoriesInOrder
    <3>2. CASE d = c /\ r # n
      <4>1. r \in DOMAIN disk[c] /\ disk'[c][r] = disk[c][r] /\ disk[c][r].by <= L
        BY <1>0, <1>2, <3>2 DEF Books, DirectoriesInOrder
      <4>2. ASSUME NEW q \in DOMAIN disk[c], r <= q
            PROVE  disk'[c][r].by <= disk'[c][q].by
        BY <1>0, <1>2, <4>1, <4>2 DEF Books, DirectoriesInOrder
      <4>3. disk'[c][r].by <= disk'[c][n].by
        BY <1>2, <4>1
      <4> QED BY <1>2, <3>2, <4>1, <4>2, <4>3
    <3>3. CASE d = c /\ r = n
      <4>1. \A q \in DOMAIN disk'[c] : n <= q => q = n
        BY <1>2, <1>3
      <4>2. disk'[c][n].by = L /\ L <= L
        BY <1>2, <1>3
      <4> QED BY <3>3, <4>1, <4>2
    <3> QED BY <3>1, <3>2, <3>3
  <2> QED BY <1>1, <2>1 DEF DirectoriesInOrder
<1>8. BaselineCountsOlder' /\ UnrecordedIsNewest'
  BY <1>0, <1>1, <1>2, <1>4 DEF Books, BaselineCountsOlder, UnrecordedIsNewest
<1>9. \A d \in todo' : Settled(d)'
  BY <1>0, <1>1, <1>2, <1>4 DEF RunsAccount, Settled, TypeOK
<1>10. n \notin CreditedRuns(c)
  <2>1. n \notin DOMAIN disk[c]
    BY <1>3
  <2>2. CreditedRuns(c) \subseteq DOMAIN disk[c]
    BY <1>0 DEF Books, OwnRuns, CreditedRuns, Yield, Valid
  <2> QED BY <2>1, <2>2
<1>11. RunInProgress'
  <2>1. run'.condition = c /\ run'.repeat = n
    BY <1>1
  <2>2. /\ c \in todo' /\ n = Len(disk'[c])
        /\ disk'[c][n].by = Len(sessions') /\ disk'[c][n].verdict = "NONE"
    BY <1>0, <1>1, <1>2
  <2>3. n \notin CreditedRuns(c)'
    BY <1>4, <1>10
  <2> HIDE DEF n
  <2>4. run'.repeat \notin {ledger'[i].repeat : i \in
                              {j \in DOMAIN ledger' : /\ ledger'[j].condition = run'.condition
                                                      /\ ledger'[j].status = "COMPLETED"}}
    BY <2>1, <2>3 DEF CreditedRuns
  <2> QED BY <2>1, <2>2, <2>4 DEF RunInProgress, CreditedRuns
<1> QED BY <1>0, <1>1, <1>5, <1>6, <1>7, <1>8, <1>9, <1>11
        DEF Accounting, Books, RecoveryAccount, RunsAccount

\* Filing the verdict of the run in progress keeps the books. A valid verdict
\* adds one run to the newest session, and that run is its only one without a
\* record, because the process measures settled conditions only.
LEMMA VerdictKeepsBooks ==
  ASSUME TypeOK, Books, RunsAccount, RunInProgress, pc = "measuring",
         at.session = Len(sessions), UNCHANGED <<sessions, ledger>>,
         NEW v \in Verdicts, FileSummary(v)
  PROVE  /\ Books'
         /\ \A d \in Conditions \ {run.condition} : Settled(d) => Settled(d)'
<1> DEFINE c == run.condition
           n == run.repeat
           L == Len(sessions)
           add == IF v = "COMPLETED" THEN {n} ELSE {}
<1>1. /\ c \in Conditions /\ c \in todo
      /\ n \in DOMAIN disk[c] /\ n = Len(disk[c])
      /\ disk[c][n].by = L
      /\ Settled(c)
      /\ L \in Nat
  BY DEF TypeOK, RunInProgress, RunsAccount
<1>2. \A d \in Conditions :
        /\ DOMAIN disk'[d] = DOMAIN disk[d]
        /\ \A q \in DOMAIN disk[d] : disk'[d][q].by = disk[d][q].by
        /\ Valid(d)' = Valid(d) \cup IF d = c THEN add ELSE {}
  BY NewVerdict
<1>3. \A d \in Conditions : CreditedRuns(d)' = CreditedRuns(d)
  BY DEF CreditedRuns
<1>4. \A d \in Conditions :
        \A s : Yield(s, d)' = Yield(s, d) \cup IF d = c /\ s = L THEN add ELSE {}
  <2>1. ASSUME NEW d \in Conditions, NEW s
        PROVE  Yield(s, d)' = Yield(s, d) \cup IF d = c /\ s = L THEN add ELSE {}
    <3>1. Yield(s, d)' = {r \in Valid(d)' : disk'[d][r].by = s}
      BY DEF Yield
    <3>2. Valid(d)' \subseteq DOMAIN disk[d] /\ Valid(d) \subseteq DOMAIN disk[d]
      BY <1>1, <1>2 DEF Valid
    <3>3. Yield(s, d)' = {r \in Valid(d)' : disk[d][r].by = s}
      BY <1>2, <3>1, <3>2
    <3> HIDE DEF c, n, L
    <3>4. CASE d # c
      BY <1>2, <3>3, <3>4 DEF Yield
    <3>5. CASE d = c
      BY <1>1, <1>2, <3>3, <3>5 DEF Yield
    <3> QED BY <3>4, <3>5
  <2> QED BY <2>1
<1> HIDE DEF c, n
<1>5. NoRunRecordedTwice'
  BY DEF Books, NoRunRecordedTwice
<1>6. OwnRuns'
  <2>1. ASSUME NEW i \in DOMAIN ledger, ledger[i].status = "COMPLETED"
        PROVE  ledger[i].repeat \in Yield(ledger[i].session, ledger[i].condition)'
    <3> DEFINE d == ledger[i].condition
               s == ledger[i].session
               q == ledger[i].repeat
    <3>1. d \in Conditions
      <4>1. ledger[i] \in RunRecord
        BY DEF TypeOK
      <4> QED BY <4>1 DEF RunRecord
    <3>2. q \in Yield(s, d)
      BY <2>1 DEF Books, OwnRuns
    <3>3. q \in Valid(d) /\ q \in DOMAIN disk[d] /\ disk[d][q].by = s
      BY <3>2 DEF Yield, Valid
    <3>4. q \in Valid(d)' /\ disk'[d][q].by = s
      BY <1>2, <3>1, <3>3
    <3>5. q \in {x \in {y \in DOMAIN disk'[d] : disk'[d][y].verdict = "COMPLETED"} :
                   disk'[d][x].by = s}
      BY <3>4 DEF Valid
    <3> QED BY <3>5 DEF Yield, Valid
  <2> QED BY <2>1 DEF OwnRuns
<1>7. DirectoriesInOrder'
  BY <1>2 DEF Books, DirectoriesInOrder
<1>8. BaselineCountsOlder'
  <2>1. \A d \in Conditions : (Valid(d) \ Yield(L, d))' = Valid(d) \ Yield(L, d)
    <3>1. ASSUME NEW d \in Conditions
          PROVE  Valid(d)' \ Yield(L, d)' = Valid(d) \ Yield(L, d)
      <4>1. CASE d # c
        BY <1>2, <1>4, <4>1
      <4>2. CASE d = c
        <5>1. n \in Valid(c) => n \in Yield(L, c)
          BY <1>1 DEF Yield
        <5> QED BY <1>2, <1>4, <4>2, <5>1
      <4> QED BY <4>1, <4>2
    <3> QED BY <3>1
  <2> QED BY <2>1 DEF Books, BaselineCountsOlder
<1>9. UnrecordedIsNewest'
  <2>1. ASSUME NEW d \in Conditions, NEW s \in DOMAIN sessions,
               NEW r \in Yield(s, d)' \ CreditedRuns(d)', NEW q \in Yield(s, d)'
        PROVE  q <= r
    <3>1. CASE d = c /\ s = L
      <4>1. r = n
        BY <1>1, <1>3, <1>4, <3>1 DEF Settled
      <4>2. q \in DOMAIN disk[c]
        <5>1. q \in Valid(d)'
          BY DEF Yield
        <5>2. q \in DOMAIN disk'[d]
          BY <5>1 DEF Valid
        <5> QED BY <1>2, <3>1, <5>2
      <4>3. disk[c] \in Seq(Evidence)
        BY <1>1 DEF TypeOK
      <4> QED BY <1>1, <4>1, <4>2, <4>3
    <3>2. CASE ~(d = c /\ s = L)
      BY <1>3, <1>4, <3>2 DEF Books, UnrecordedIsNewest
    <3> QED BY <3>1, <3>2
  <2> QED BY <2>1 DEF UnrecordedIsNewest
<1>10. \A d \in Conditions \ {c} : Settled(d) => Settled(d)'
  BY <1>3, <1>4 DEF Settled
<1> QED BY <1>5, <1>6, <1>7, <1>8, <1>9, <1>10 DEF Books, c

LEMMA SummaryAccounting ==
  ASSUME TypeOK, Accounting, SummaryValid \/ SummaryInvalid \/ CrashInSummary
  PROVE  Accounting'
<1> SUFFICES ASSUME Discipline # "any"
             PROVE  Accounting'
  BY DEF Accounting
<1>0. /\ Books /\ RunsAccount /\ RunInProgress
      /\ pc = "measuring" /\ at.session = Len(sessions)
      /\ UNCHANGED <<sessions, ledger>>
  BY DEF Accounting, SummaryValid, SummaryInvalid, CrashInSummary
<1>1. PICK v \in Verdicts : FileSummary(v)
  BY DEF SummaryValid, SummaryInvalid, CrashInSummary, Verdicts
<1>2. /\ Books'
      /\ \A d \in Conditions \ {run.condition} : Settled(d) => Settled(d)'
  BY <1>0, <1>1, VerdictKeepsBooks
<1>3. CASE SummaryValid \/ SummaryInvalid
  <2>1. pc' = "summarised" /\ UNCHANGED <<at, todo, run>>
    BY <1>3 DEF SummaryValid, SummaryInvalid, local
  <2>2. RunsAccount'
    BY <1>0, <1>2, <2>1 DEF RunsAccount, TypeOK
  <2>3. RunInProgress'
    <3>1. /\ disk'[run.condition][run.repeat].by = Len(sessions)
          /\ Len(disk'[run.condition]) = Len(disk[run.condition])
      <4>1. /\ disk'[run.condition][run.repeat] = [verdict |-> v, by |-> Len(sessions)]
            /\ Len(disk'[run.condition]) = Len(disk[run.condition])
        BY <1>0, <1>1, NewVerdict
      <4> QED BY <4>1
    <3> QED BY <1>0, <2>1, <3>1 DEF RunInProgress, CreditedRuns
  <2> QED BY <1>0, <1>2, <2>1, <2>2, <2>3 DEF Accounting, RecoveryAccount
<1>4. CASE CrashInSummary
  BY <1>2, <1>4, ExitAccounting DEF CrashInSummary, Exit
<1> QED BY <1>3, <1>4

-----------------------------------------------------------------------------
\* The theorems.

LEMMA NextAccounting == TypeOK /\ Accounting /\ [Next]_vars => Accounting'
<1> SUFFICES ASSUME TypeOK, Accounting, [Next]_vars
             PROVE  Accounting'
  OBVIOUS
<1>1. CASE Operator
  BY <1>1, OperatorAccounting
<1>2. CASE Step
  BY <1>2, QuietAccounting, RecordAccounting, StartAccounting, SummaryAccounting DEF Step
<1>3. CASE Host
  BY <1>3, QuietAccounting, SummaryAccounting DEF Host
<1>4. CASE UNCHANGED vars
  <2>1. UNCHANGED <<disk, ledger, sessions, pc, at, todo, done, assigned, run>>
    BY <1>4 DEF vars, durable, local
  <2> QED BY <2>1 DEF Accounting, Books, NoRunRecordedTwice, OwnRuns, DirectoriesInOrder,
                      BaselineCountsOlder, UnrecordedIsNewest, RecoveryAccount,
                      RunsAccount, RunInProgress, Settled, Recorded, CreditedRuns,
                      Yield, Valid
<1> QED BY <1>1, <1>2, <1>3, <1>4 DEF Next

\* If only the newest session is resumed, the accounts of state.json and of the
\* evidence directories agree in every reachable state, for every number of
\* conditions, sessions and faults. The code resumes any session (baseline.py:145),
\* and then they need not agree.
THEOREM AccountsAgree ==
  ASSUME Discipline # "any"
  PROVE  Spec => []Accounting
<1>1. Init => TypeOK /\ Accounting
  BY InitTypeOK, InitAccounting
<1>2. TypeOK /\ Accounting /\ [Next]_vars => (TypeOK /\ Accounting)'
  BY NextTypeOK, NextAccounting
<1> QED BY <1>1, <1>2, PTL DEF Spec

\* No run is credited to the campaign twice, as long as the operator resumes
\* only the newest session (baseline.py:149-153, 187-194).
THEOREM NoDoubleCredit ==
  ASSUME Discipline # "any"
  PROVE  Spec => []NoRunRecordedTwice
<1>1. Accounting => NoRunRecordedTwice
  BY DEF Accounting, Books
<1> QED BY <1>1, AccountsAgree, PTL

\* Crashes leave at most one valid run of a session and condition without a
\* record (baseline.py:195-215).
THEOREM OneRunWaits ==
  ASSUME Discipline # "any"
  PROVE  Spec => []AtMostOneUnrecorded
<1>1. TypeOK /\ Accounting => AtMostOneUnrecorded
  <2> SUFFICES ASSUME TypeOK, Accounting, NEW c \in Conditions, NEW s \in DOMAIN sessions
               PROVE  Cardinality(Yield(s, c) \ CreditedRuns(c)) <= 1
    BY DEF AtMostOneUnrecorded
  <2> DEFINE U == Yield(s, c) \ CreditedRuns(c)
  <2>1. ASSUME NEW x \in U, NEW y \in U
        PROVE  x = y
    <3>1. x <= y /\ y <= x
      BY DEF Accounting, Books, UnrecordedIsNewest
    <3>2. x \in Nat /\ y \in Nat
      BY ValidFinite DEF Yield
    <3> QED BY <3>1, <3>2
  <2>2. CASE U = {}
    BY <2>2, FS_EmptySet
  <2>3. CASE U # {}
    <3>1. PICK x \in U : U = {x}
      BY <2>1, <2>3
    <3>2. Cardinality({x}) = 1
      BY FS_Singleton
    <3> QED BY <3>1, <3>2
  <2> QED BY <2>2, <2>3
<1> QED BY <1>1, TypeCorrect, AccountsAgree, PTL

-----------------------------------------------------------------------------
\* One session adds no more valid runs to a condition than it has blocks. The
\* inductive invariant is Budget: blocks are opened in order, the process works
\* in the last one, and a block credits a condition once; so when a condition is
\* measured, the runs of its session are those credited in earlier blocks.

BlocksOf(s) == sessions[s].blocks
InBlock == pc \in {"recover", "run", "measuring", "summarised"}

BlocksInOrder ==
  \A s \in DOMAIN sessions :
    /\ Len(BlocksOf(s)) <= MaxBlocks
    /\ \A i \in DOMAIN BlocksOf(s) : i < Len(BlocksOf(s)) => BlocksOf(s)[i] = "COMPLETED"

AtFrontier ==
  /\ pc # "idle" => at.planned <= MaxBlocks
  /\ pc = "open" =>
       \A i \in DOMAIN BlocksOf(at.session) : i < at.block => BlocksOf(at.session)[i] = "COMPLETED"
  /\ InBlock => at.block = Len(BlocksOf(at.session))

RecordsInBlocks ==
  \A i \in DOMAIN ledger :
    /\ ledger[i].session \in DOMAIN sessions
    /\ ledger[i].block \in DOMAIN BlocksOf(ledger[i].session)

OncePerBlock ==
  \A i, j \in DOMAIN ledger :
    /\ ledger[i].status = "COMPLETED" /\ ledger[j].status = "COMPLETED"
    /\ ledger[i].session = ledger[j].session
    /\ ledger[i].block = ledger[j].block
    /\ ledger[i].condition = ledger[j].condition
    => i = j

TodoUncredited ==
  /\ pc = "recover" => done = CompletedIn(at.session, at.block)
  /\ pc \in {"run", "measuring", "summarised"} =>
       todo \cap CompletedIn(at.session, at.block) = {}

YieldInBlocks ==
  \A s \in DOMAIN sessions, c \in Conditions :
    Cardinality(Yield(s, c)) <= Len(BlocksOf(s))

Budget == /\ BlocksInOrder
          /\ AtFrontier
          /\ RecordsInBlocks
          /\ OncePerBlock
          /\ TodoUncredited
          /\ YieldInBlocks

LEMMA BlocksType ==
  ASSUME TypeOK, NEW s \in DOMAIN sessions
  PROVE  /\ BlocksOf(s) \in Seq({"RUNNING", "COMPLETED"})
         /\ DOMAIN BlocksOf(s) = 1 .. Len(BlocksOf(s))
         /\ Len(BlocksOf(s)) \in Nat
<1>1. sessions[s] \in Session
  BY DEF TypeOK
<1>2. BlocksOf(s) \in Seq({"RUNNING", "COMPLETED"})
  BY <1>1 DEF Session, BlocksOf
<1> QED BY <1>2

LEMMA BlocksUpdate ==
  ASSUME TypeOK, NEW s \in DOMAIN sessions, NEW new,
         sessions' = [sessions EXCEPT ![s].blocks = new]
  PROVE  /\ DOMAIN sessions' = DOMAIN sessions
         /\ BlocksOf(s)' = new
         /\ \A x \in DOMAIN sessions \ {s} : BlocksOf(x)' = BlocksOf(x)
<1> DEFINE y == [sessions[s] EXCEPT !.blocks = new]
<1>1. sessions[s] \in Session /\ sessions \in Seq(Session)
  BY DEF TypeOK
<1>2. y.blocks = new /\ sessions' = [sessions EXCEPT ![s] = y]
  BY <1>1 DEF Session
<1> HIDE DEF y
<1>3. /\ DOMAIN sessions' = DOMAIN sessions
      /\ sessions'[s] = y
      /\ \A x \in DOMAIN sessions \ {s} : sessions'[x] = sessions[x]
  BY <1>1, <1>2
<1> QED BY <1>2, <1>3 DEF BlocksOf

\* A condition without a record in the last block has at most one record in
\* each block before it.
LEMMA OneRecordPerBlock ==
  ASSUME TypeOK, RecordsInBlocks, OncePerBlock,
         NEW s \in DOMAIN sessions, NEW c \in Conditions,
         Len(BlocksOf(s)) > 0, c \notin CompletedIn(s, Len(BlocksOf(s)))
  PROVE  Cardinality(Recorded(s, c)) + 1 <= Len(BlocksOf(s))
<1> DEFINE R == Recorded(s, c)
           b == Len(BlocksOf(s))
           f == [i \in R |-> ledger[i].block]
<1>1. b \in Nat /\ b > 0 /\ DOMAIN BlocksOf(s) = 1 .. b
  BY BlocksType
<1>2. \A i \in R : ledger[i].block \in 1 .. b
  BY <1>1 DEF RecordsInBlocks, Recorded
<1>3. \A i \in R : ledger[i].block # b
  BY DEF CompletedIn
<1>4. \A i \in R : f[i] \in 1 .. (b - 1)
  <2> HIDE DEF b, R
  <2> QED BY <1>1, <1>2, <1>3
<1>5. \A i, j \in R : f[i] = f[j] => i = j
  BY DEF OncePerBlock, Recorded
<1>6. f \in [R -> 1 .. (b - 1)]
  BY <1>4
<1> HIDE DEF R, f, b
<1>7. f \in Injection(R, 1 .. (b - 1))
  BY <1>5, <1>6 DEF Injection, IsInjective, f
<1>8. IsFiniteSet(1 .. (b - 1)) /\ Cardinality(1 .. (b - 1)) = b - 1
  <2>1. 1 \in Int /\ b - 1 \in Int
    BY <1>1
  <2>2. IsFiniteSet(1 .. (b - 1))
        /\ Cardinality(1 .. (b - 1)) = IF 1 > b - 1 THEN 0 ELSE (b - 1) - 1 + 1
    BY <2>1, FS_Interval
  <2> QED BY <1>1, <2>2
<1>9. Cardinality(R) <= b - 1
  BY <1>7, <1>8, FS_Injection
<1>10. Cardinality(R) \in Nat
  BY RecordedFinite DEF R
<1> QED BY <1>1, <1>9, <1>10 DEF R, b

\* Blocks may be added and closed, as long as no record or run is: what the
\* records say of blocks stays true.
LEMMA RecordsStay ==
  ASSUME TypeOK, Budget, UNCHANGED <<disk, ledger>>,
         DOMAIN sessions \subseteq DOMAIN sessions',
         \A s \in DOMAIN sessions :
           /\ BlocksOf(s)' \in Seq({"RUNNING", "COMPLETED"})
           /\ Len(BlocksOf(s)) <= Len(BlocksOf(s)')
  PROVE  /\ RecordsInBlocks'
         /\ OncePerBlock'
         /\ \A s, b : CompletedIn(s, b)' = CompletedIn(s, b)
         /\ \A s \in DOMAIN sessions, c \in Conditions :
              Cardinality(Yield(s, c)') <= Len(BlocksOf(s)')
<1>1. \A s \in DOMAIN sessions : DOMAIN BlocksOf(s) \subseteq DOMAIN BlocksOf(s)'
  <2>1. ASSUME NEW s \in DOMAIN sessions
        PROVE  DOMAIN BlocksOf(s) \subseteq DOMAIN BlocksOf(s)'
    <3> DEFINE old == BlocksOf(s)
               new == BlocksOf(s)'
    <3>1. old \in Seq({"RUNNING", "COMPLETED"}) /\ new \in Seq({"RUNNING", "COMPLETED"})
          /\ Len(old) <= Len(new)
      BY BlocksType
    <3> HIDE DEF old, new
    <3>2. DOMAIN old \subseteq DOMAIN new
      BY <3>1
    <3> QED BY <3>2 DEF old, new
  <2> QED BY <2>1
<1>2. RecordsInBlocks'
  <2>1. ASSUME NEW i \in DOMAIN ledger
        PROVE  /\ ledger[i].session \in DOMAIN sessions'
               /\ ledger[i].block \in DOMAIN (sessions'[ledger[i].session].blocks)
    <3>1. PICK s \in DOMAIN sessions :
            s = ledger[i].session /\ ledger[i].block \in DOMAIN BlocksOf(s)
      BY DEF Budget, RecordsInBlocks
    <3>2. ledger[i].block \in DOMAIN BlocksOf(s)'
      BY <1>1, <3>1
    <3>3. ledger[i].block \in DOMAIN (sessions'[s].blocks)
      BY <3>2 DEF BlocksOf
    <3> QED BY <3>1, <3>3
  <2> QED BY <2>1 DEF RecordsInBlocks, BlocksOf
<1>3. OncePerBlock'
  BY DEF Budget, OncePerBlock
<1>4. \A s, b : CompletedIn(s, b)' = CompletedIn(s, b)
  BY DEF CompletedIn, Recorded
<1>5. \A s \in DOMAIN sessions, c \in Conditions :
        Cardinality(Yield(s, c)') <= Len(BlocksOf(s)')
  <2>1. ASSUME NEW s \in DOMAIN sessions, NEW c \in Conditions
        PROVE  Cardinality(Yield(s, c)') <= Len(BlocksOf(s)')
    <3> DEFINE y == Cardinality(Yield(s, c))
               old == Len(BlocksOf(s))
               new == Len(BlocksOf(s)')
    <3>1. Yield(s, c)' = Yield(s, c)
      BY DEF Yield, Valid
    <3>2. y <= old /\ old <= new
      BY DEF Budget, YieldInBlocks
    <3>3. y \in Nat /\ old \in Nat
      BY YieldFinite, BlocksType
    <3>4. new \in Nat
      BY LenProperties
    <3> HIDE DEF y, old, new
    <3>5. y <= new
      BY <3>2, <3>3, <3>4
    <3> QED BY <3>1, <3>5 DEF y, new
  <2> QED BY <2>1
<1> QED BY <1>2, <1>3, <1>4, <1>5

\* Steps that leave evidence, records and sessions alone.
LEMMA BudgetStays ==
  ASSUME TypeOK, Budget, UNCHANGED <<disk, ledger, sessions>>,
         AtFrontier', TodoUncredited'
  PROVE  Budget'
<1>1. \A s : BlocksOf(s)' = BlocksOf(s)
  BY DEF BlocksOf
<1>2. \A s \in DOMAIN sessions : BlocksOf(s) \in Seq({"RUNNING", "COMPLETED"})
                                  /\ Len(BlocksOf(s)) \in Nat
  BY BlocksType
<1>3. \A s \in DOMAIN sessions :
        /\ BlocksOf(s)' \in Seq({"RUNNING", "COMPLETED"})
        /\ Len(BlocksOf(s)) <= Len(BlocksOf(s)')
  <2>1. ASSUME NEW s \in DOMAIN sessions
        PROVE  Len(BlocksOf(s)) <= Len(BlocksOf(s)')
    <3> DEFINE l == Len(BlocksOf(s))
    <3>1. l \in Nat /\ Len(BlocksOf(s)') = l
      BY <1>1, <1>2
    <3> HIDE DEF l
    <3>2. l <= l
      BY <3>1
    <3> QED BY <3>1, <3>2 DEF l
  <2> QED BY <1>1, <1>2, <2>1
<1>4. RecordsInBlocks' /\ OncePerBlock'
      /\ \A s \in DOMAIN sessions, c \in Conditions :
              Cardinality(Yield(s, c)') <= Len(BlocksOf(s)')
  BY <1>3, RecordsStay
<1>5. YieldInBlocks'
  BY <1>4 DEF YieldInBlocks
<1>6. BlocksInOrder'
  BY <1>1 DEF Budget, BlocksInOrder
<1> QED BY <1>4, <1>5, <1>6 DEF Budget

LEMMA InitBudget == Init => Budget
<1> SUFFICES ASSUME Init
             PROVE  Budget
  OBVIOUS
<1>1. ledger = <<>> /\ sessions = <<>> /\ pc = "idle"
  BY DEF Init
<1> QED BY <1>1 DEF Budget, BlocksInOrder, AtFrontier, RecordsInBlocks, OncePerBlock,
                    TodoUncredited, YieldInBlocks, InBlock

\* Opening and closing blocks and sessions.
LEMMA SessionBudget ==
  ASSUME TypeOK, Accounting, Budget, Discipline # "any",
         \/ OpenBlock \/ CloseBlock \/ CloseSession
         \/ \E b \in MinBlocks .. MaxBlocks : StartSession(b)
  PROVE  Budget'
<1>1. CASE OpenBlock
  <2> DEFINE old == BlocksOf(at.session)
             new == IF BlockStatus(at.session, at.block) = "ABSENT"
                      THEN Append(old, "RUNNING") ELSE old
  <2>1. PICK s \in DOMAIN sessions : s = at.session
    BY <1>1 DEF OpenBlock, TypeOK
  <2>2. /\ sessions' = [sessions EXCEPT ![s].blocks = new]
        /\ UNCHANGED <<disk, ledger, at>>
        /\ pc' = "recover" /\ done' = CompletedIn(s, at.block)
    BY <1>1, <2>1 DEF OpenBlock, BlocksOf
  <2>3. /\ pc = "open" /\ at.block <= at.planned
        /\ BlockStatus(s, at.block) # "COMPLETED"
        /\ at.block \in 1 .. Len(old) + 1
    BY <1>1, <2>1 DEF OpenBlock, TypeOK, BlocksOf
  <2>4. /\ old \in Seq({"RUNNING", "COMPLETED"})
        /\ DOMAIN old = 1 .. Len(old) /\ Len(old) \in Nat
    BY <2>1, BlocksType
  <2>5. /\ Len(old) <= MaxBlocks
        /\ \A i \in DOMAIN old : i < Len(old) => old[i] = "COMPLETED"
        /\ \A i \in DOMAIN old : i < at.block => old[i] = "COMPLETED"
        /\ at.planned <= MaxBlocks
        /\ MaxBlocks \in Nat /\ at.planned \in Nat
    <3>1. at \in [session : Nat, planned : Nat, block : Nat]
      BY DEF TypeOK
    <3> QED BY <2>1, <2>3, <3>1, PolicyAssumption DEF Budget, BlocksInOrder, AtFrontier
  <2>6. /\ new \in Seq({"RUNNING", "COMPLETED"})
        /\ Len(new) = at.block
        /\ Len(old) <= Len(new) /\ Len(new) <= MaxBlocks
        /\ \A i \in DOMAIN new : i < Len(new) => new[i] = "COMPLETED"
    <3>1. CASE at.block \in DOMAIN old
      <4>1. BlockStatus(s, at.block) = old[at.block] /\ old[at.block] # "ABSENT"
        BY <2>1, <2>4, <3>1 DEF BlockStatus, BlocksOf
      <4>2. new = old
        BY <2>1, <4>1
      <4>3. at.block = Len(old)
        BY <2>3, <2>4, <2>5, <3>1, <4>1
      <4> HIDE DEF new, old
      <4> QED BY <2>4, <2>5, <4>2, <4>3
    <3>2. CASE at.block \notin DOMAIN old
      <4>1. BlockStatus(s, at.block) = "ABSENT"
        BY <2>1, <3>2 DEF BlockStatus, BlocksOf
      <4>2. new = Append(old, "RUNNING")
        BY <2>1, <4>1
      <4>3. at.block = Len(old) + 1
        BY <2>3, <2>4, <3>2
      <4> HIDE DEF new, old
      <4>4. /\ new \in Seq({"RUNNING", "COMPLETED"})
            /\ Len(new) = Len(old) + 1
            /\ \A i \in 1 .. Len(old) : new[i] = old[i]
        BY <2>4, <4>2, AppendProperties
      <4>5. DOMAIN new = 1 .. Len(old) + 1
        BY <4>4, LenProperties
      <4>6. ASSUME NEW i \in DOMAIN new, i < Len(new)
            PROVE  new[i] = "COMPLETED"
        <5>1. i \in DOMAIN old /\ i < at.block
          BY <2>4, <4>3, <4>4, <4>5, <4>6
        <5> QED BY <2>4, <2>5, <4>4, <5>1
      <4> QED BY <2>3, <2>4, <2>5, <4>3, <4>4, <4>6
    <3> QED BY <3>1, <3>2
  <2>7. /\ DOMAIN sessions' = DOMAIN sessions
        /\ BlocksOf(s)' = new
        /\ \A x \in DOMAIN sessions \ {s} : BlocksOf(x)' = BlocksOf(x)
    <3> HIDE DEF new
    <3> QED BY <2>1, <2>2, BlocksUpdate
  <2> HIDE DEF new
  <2>8. \A x \in DOMAIN sessions :
          /\ BlocksOf(x)' \in Seq({"RUNNING", "COMPLETED"})
          /\ Len(BlocksOf(x)) <= Len(BlocksOf(x)')
    <3>1. ASSUME NEW x \in DOMAIN sessions, x # s
          PROVE  Len(BlocksOf(x)) <= Len(BlocksOf(x)) /\ BlocksOf(x)' = BlocksOf(x)
                 /\ BlocksOf(x) \in Seq({"RUNNING", "COMPLETED"})
      BY <2>7, <3>1, BlocksType
    <3> QED BY <2>1, <2>6, <2>7, <3>1
  <2>9. /\ RecordsInBlocks' /\ OncePerBlock' /\ YieldInBlocks'
        /\ \A x, b : CompletedIn(x, b)' = CompletedIn(x, b)
    <3>1. /\ RecordsInBlocks' /\ OncePerBlock'
          /\ \A x, b : CompletedIn(x, b)' = CompletedIn(x, b)
          /\ \A x \in DOMAIN sessions, c \in Conditions :
              Cardinality(Yield(x, c)') <= Len(BlocksOf(x)')
      BY <2>2, <2>7, <2>8, RecordsStay
    <3> QED BY <2>7, <3>1 DEF YieldInBlocks
  <2>10. BlocksInOrder'
    <3>1. ASSUME NEW x \in DOMAIN sessions
          PROVE  /\ Len(BlocksOf(x)') <= MaxBlocks
                 /\ \A i \in DOMAIN BlocksOf(x)' :
                      i < Len(BlocksOf(x)') => BlocksOf(x)'[i] = "COMPLETED"
      <4>1. CASE x = s
        BY <2>6, <2>7, <4>1
      <4>2. CASE x # s
        BY <2>7, <4>2 DEF Budget, BlocksInOrder
      <4> QED BY <4>1, <4>2
    <3> QED BY <2>7, <3>1 DEF BlocksInOrder
  <2>11. AtFrontier'
    <3>1. Len(BlocksOf(s)') = at.block /\ at'.session = s /\ at'.block = at.block
      BY <2>1, <2>2, <2>6, <2>7
    <3>2. Len(BlocksOf(at.session)') = at.block
      BY <2>1, <2>2, <3>1
    <3> QED BY <2>2, <2>5, <3>2 DEF AtFrontier, InBlock
  <2>12. TodoUncredited'
    <3>1. done' = CompletedIn(s, at.block)'
      <4>1. PICK b : b = at.block
        OBVIOUS
      <4>2. CompletedIn(s, b)' = CompletedIn(s, b)
        BY <2>9
      <4> QED BY <2>2, <4>1, <4>2
    <3>2. done' = CompletedIn(at.session, at.block)'
      BY <2>1, <2>2, <3>1
    <3> QED BY <2>2, <3>2 DEF TodoUncredited
  <2> QED BY <2>9, <2>10, <2>11, <2>12 DEF Budget
<1>2. CASE CloseBlock
  <2> DEFINE old == BlocksOf(at.session)
             new == [old EXCEPT ![at.block] = "COMPLETED"]
  <2>1. PICK s \in DOMAIN sessions : s = at.session
    BY <1>2 DEF CloseBlock, TypeOK
  <2>2. /\ sessions' = [sessions EXCEPT ![s].blocks = new]
        /\ UNCHANGED <<disk, ledger>>
        /\ at' = [at EXCEPT !.block = @ + 1]
        /\ pc' = "open" /\ pc = "run"
    <3>1. sessions' = [sessions EXCEPT ![s].blocks = [sessions[s].blocks EXCEPT ![at.block] = "COMPLETED"]]
      BY <1>2, <2>1 DEF CloseBlock
    <3> QED BY <1>2, <2>1, <3>1 DEF CloseBlock, BlocksOf
  <2>3. /\ at'.session = s /\ at'.block = at.block + 1 /\ at'.planned = at.planned
        /\ at.planned <= MaxBlocks
        /\ at.block = Len(old)
    <3>1. at \in [session : Nat, planned : Nat, block : Nat]
      BY DEF TypeOK
    <3> QED BY <2>1, <2>2, <3>1 DEF Budget, AtFrontier, InBlock
  <2>4. /\ old \in Seq({"RUNNING", "COMPLETED"})
        /\ DOMAIN old = 1 .. Len(old) /\ Len(old) \in Nat
        /\ at.block \in DOMAIN old
        /\ Len(old) <= MaxBlocks
        /\ \A i \in DOMAIN old : i < Len(old) => old[i] = "COMPLETED"
    <3>1. at.block \in DOMAIN old
      BY <1>2, <2>2 DEF TypeOK, BlocksOf
    <3> QED BY <2>1, <3>1, BlocksType DEF Budget, BlocksInOrder
  <2>5. /\ new \in Seq({"RUNNING", "COMPLETED"})
        /\ DOMAIN new = DOMAIN old
        /\ Len(new) = Len(old)
        /\ \A i \in DOMAIN new : new[i] = "COMPLETED"
    <3>1. \A i \in DOMAIN old : new[i] = "COMPLETED"
      <4> HIDE DEF old
      <4> QED BY <2>3, <2>4
    <3>2. new \in Seq({"RUNNING", "COMPLETED"}) /\ DOMAIN new = DOMAIN old /\ Len(new) = Len(old)
      <4> HIDE DEF old
      <4> QED BY <2>4
    <3> QED BY <3>1, <3>2
  <2>6. /\ DOMAIN sessions' = DOMAIN sessions
        /\ BlocksOf(s)' = new
        /\ \A x \in DOMAIN sessions \ {s} : BlocksOf(x)' = BlocksOf(x)
    <3> HIDE DEF new
    <3> QED BY <2>1, <2>2, BlocksUpdate
  <2> HIDE DEF new
  <2>7. \A x \in DOMAIN sessions :
          /\ BlocksOf(x)' \in Seq({"RUNNING", "COMPLETED"})
          /\ Len(BlocksOf(x)) <= Len(BlocksOf(x)')
    <3>1. ASSUME NEW x \in DOMAIN sessions, x # s
          PROVE  Len(BlocksOf(x)) <= Len(BlocksOf(x)) /\ BlocksOf(x)' = BlocksOf(x)
                 /\ BlocksOf(x) \in Seq({"RUNNING", "COMPLETED"})
      BY <2>6, <3>1, BlocksType
    <3>2. Len(old) <= Len(new)
      BY <2>4, <2>5
    <3> QED BY <2>1, <2>5, <2>6, <3>1, <3>2
  <2>8. RecordsInBlocks' /\ OncePerBlock' /\ YieldInBlocks'
    <3>1. /\ RecordsInBlocks' /\ OncePerBlock'
          /\ \A x \in DOMAIN sessions, c \in Conditions :
              Cardinality(Yield(x, c)') <= Len(BlocksOf(x)')
      BY <2>2, <2>6, <2>7, RecordsStay
    <3> QED BY <2>6, <3>1 DEF YieldInBlocks
  <2>9. BlocksInOrder'
    <3>1. ASSUME NEW x \in DOMAIN sessions
          PROVE  /\ Len(BlocksOf(x)') <= MaxBlocks
                 /\ \A i \in DOMAIN BlocksOf(x)' :
                      i < Len(BlocksOf(x)') => BlocksOf(x)'[i] = "COMPLETED"
      <4>1. CASE x = s
        BY <2>4, <2>5, <2>6, <4>1
      <4>2. CASE x # s
        BY <2>6, <4>2 DEF Budget, BlocksInOrder
      <4> QED BY <4>1, <4>2
    <3> QED BY <2>6, <3>1 DEF BlocksInOrder
  <2>10. AtFrontier'
    <3>1. \A i \in DOMAIN BlocksOf(s)' : BlocksOf(s)'[i] = "COMPLETED"
      BY <2>5, <2>6
    <3>2. \A i \in DOMAIN (sessions'[at'.session].blocks) :
             sessions'[at'.session].blocks[i] = "COMPLETED"
      BY <2>3, <3>1 DEF BlocksOf
    <3> QED BY <2>2, <2>3, <3>2 DEF AtFrontier, InBlock, BlocksOf
  <2>11. TodoUncredited'
    BY <2>2 DEF TodoUncredited
  <2> QED BY <2>8, <2>9, <2>10, <2>11 DEF Budget
<1>3. CASE CloseSession
  <2> DEFINE old == BlocksOf(at.session)
  <2>1. PICK s \in DOMAIN sessions : s = at.session
    BY <1>3 DEF CloseSession, TypeOK
  <2>2. /\ sessions' = [sessions EXCEPT ![s].status = "COMPLETED"]
        /\ UNCHANGED <<disk, ledger>> /\ pc' = "idle"
    BY <1>3, <2>1 DEF CloseSession, Exit
  <2>3. DOMAIN sessions' = DOMAIN sessions /\ \A x \in DOMAIN sessions : BlocksOf(x)' = BlocksOf(x)
    <3> DEFINE y == [sessions[s] EXCEPT !.status = "COMPLETED"]
    <3>1. sessions[s] \in Session /\ sessions \in Seq(Session)
      BY DEF TypeOK
    <3>2. y.blocks = sessions[s].blocks /\ sessions' = [sessions EXCEPT ![s] = y]
      BY <2>2, <3>1 DEF Session
    <3> HIDE DEF y
    <3> QED BY <3>1, <3>2 DEF BlocksOf
  <2>4. \A x \in DOMAIN sessions :
          /\ BlocksOf(x)' \in Seq({"RUNNING", "COMPLETED"})
          /\ Len(BlocksOf(x)) <= Len(BlocksOf(x)')
    BY <2>3, BlocksType
  <2>5. RecordsInBlocks' /\ OncePerBlock' /\ YieldInBlocks'
    <3>1. /\ RecordsInBlocks' /\ OncePerBlock'
          /\ \A x \in DOMAIN sessions, c \in Conditions :
              Cardinality(Yield(x, c)') <= Len(BlocksOf(x)')
      BY <2>2, <2>3, <2>4, RecordsStay
    <3> QED BY <2>3, <3>1 DEF YieldInBlocks
  <2>6. BlocksInOrder'
    BY <2>3 DEF Budget, BlocksInOrder
  <2>7. AtFrontier' /\ TodoUncredited'
    BY <2>2 DEF AtFrontier, TodoUncredited, InBlock
  <2> QED BY <2>5, <2>6, <2>7 DEF Budget
<1>4. ASSUME NEW b \in MinBlocks .. MaxBlocks, StartSession(b)
      PROVE  Budget'
  <2>1. PICK n : n = Len(sessions) + 1
    OBVIOUS
  <2>2. /\ UNCHANGED <<disk, ledger>>
        /\ DOMAIN sessions' = DOMAIN sessions \cup {n}
        /\ n \notin DOMAIN sessions
        /\ sessions'[n].blocks = <<>>
        /\ \A x \in DOMAIN sessions : sessions'[x] = sessions[x]
        /\ pc' = "open" /\ at' = [session |-> n, planned |-> b, block |-> 1]
    BY <1>4, <2>1 DEF StartSession, Enter, TypeOK
  <2>3. BlocksOf(n)' = <<>> /\ \A x \in DOMAIN sessions : BlocksOf(x)' = BlocksOf(x)
    BY <2>2 DEF BlocksOf
  <2>4. \A x \in DOMAIN sessions :
          /\ BlocksOf(x)' \in Seq({"RUNNING", "COMPLETED"})
          /\ Len(BlocksOf(x)) <= Len(BlocksOf(x)')
    BY <2>3, BlocksType
  <2>5. /\ RecordsInBlocks' /\ OncePerBlock'
        /\ \A x \in DOMAIN sessions, c \in Conditions :
              Cardinality(Yield(x, c)') <= Len(BlocksOf(x)')
    BY <2>2, <2>4, RecordsStay
  <2>6. ASSUME NEW c \in Conditions
        PROVE  Cardinality(Yield(n, c)') = 0
    <3>1. ASSUME NEW r \in DOMAIN disk[c]
          PROVE  disk[c][r].by # n
      <4>1. disk[c][r].by <= Len(sessions) /\ Len(sessions) \in Nat
        BY DEF Accounting, Books, DirectoriesInOrder, TypeOK
      <4>2. disk[c][r] \in Evidence
        BY DEF TypeOK
      <4> QED BY <2>1, <4>1, <4>2 DEF Evidence
    <3>2. Yield(n, c)' = {}
      BY <2>2, <3>1 DEF Yield, Valid
    <3> QED BY <3>2, FS_EmptySet
  <2>7. Len(BlocksOf(n)') = 0 /\ MaxBlocks \in Nat /\ DOMAIN BlocksOf(n)' = {}
    BY <2>3, PolicyAssumption
  <2>8. YieldInBlocks'
    <3>1. \A c \in Conditions : Cardinality(Yield(n, c)') <= Len(BlocksOf(n)')
      BY <2>6, <2>7
    <3> QED BY <2>2, <2>5, <3>1 DEF YieldInBlocks
  <2>9. BlocksInOrder'
    <3>1. \A x \in DOMAIN sessions :
            /\ Len(BlocksOf(x)') <= MaxBlocks
            /\ \A i \in DOMAIN BlocksOf(x)' :
                 i < Len(BlocksOf(x)') => BlocksOf(x)'[i] = "COMPLETED"
      BY <2>3 DEF Budget, BlocksInOrder
    <3> QED BY <2>2, <2>7, <3>1 DEF BlocksInOrder
  <2>10. AtFrontier'
    <3>1. at'.planned = b /\ b <= MaxBlocks /\ at'.session = n
      BY <2>2
    <3>2. DOMAIN (sessions'[at'.session].blocks) = {}
      BY <2>2, <3>1
    <3> QED BY <2>2, <3>1, <3>2 DEF AtFrontier, InBlock, BlocksOf
  <2>11. TodoUncredited'
    BY <2>2 DEF TodoUncredited
  <2> QED BY <2>5, <2>8, <2>9, <2>10, <2>11 DEF Budget
<1> QED BY <1>1, <1>2, <1>3, <1>4

\* Steps that only move the process.
LEMMA MoveBudget ==
  ASSUME TypeOK, Budget,
         \/ \E s \in DOMAIN sessions, b \in MinBlocks .. MaxBlocks : ResumeSession(s, b)
         \/ SkipBlock \/ BeginRuns \/ \E c \in Conditions : NothingToRecover(c)
         \/ Raise \/ Crash \/ CrashInStateFile
         \/ UNCHANGED vars
  PROVE  Budget'
<1>1. UNCHANGED <<disk, ledger, sessions>>
  BY DEF ResumeSession, SkipBlock, BeginRuns, NothingToRecover, Raise, Crash,
         CrashInStateFile, durable, vars
<1>2. AtFrontier /\ TodoUncredited
  BY DEF Budget
<1>3. AtFrontier' /\ TodoUncredited'
  <2>1. CASE Raise \/ Crash \/ CrashInStateFile
    <3>1. pc' = "idle"
      BY <2>1 DEF Raise, Crash, CrashInStateFile, Exit
    <3> QED BY <3>1 DEF AtFrontier, TodoUncredited, InBlock
  <2>2. ASSUME NEW s \in DOMAIN sessions, NEW b \in MinBlocks .. MaxBlocks, ResumeSession(s, b)
        PROVE  AtFrontier' /\ TodoUncredited'
    <3>1. pc' = "open" /\ at'.session = s /\ at'.planned = b /\ at'.block = 1
      BY <2>2 DEF ResumeSession, Enter
    <3>2. b <= MaxBlocks
      BY PolicyAssumption
    <3>3. \A i \in DOMAIN BlocksOf(s) : ~(i < 1)
      BY BlocksType
    <3>4. \A i \in DOMAIN (sessions'[at'.session].blocks) : ~(i < at'.block)
      BY <1>1, <3>1, <3>3 DEF BlocksOf
    <3> QED BY <3>1, <3>2, <3>4 DEF AtFrontier, TodoUncredited, InBlock, BlocksOf
  <2>3. CASE SkipBlock
    <3>1. PICK s \in DOMAIN sessions : s = at.session
      BY <2>3 DEF SkipBlock, TypeOK
    <3>2. /\ pc = "open" /\ pc' = "open" /\ at' = [at EXCEPT !.block = @ + 1]
          /\ BlockStatus(s, at.block) = "COMPLETED"
      BY <2>3, <3>1 DEF SkipBlock
    <3>3. /\ at'.session = s /\ at'.planned = at.planned
          /\ at'.block = at.block + 1 /\ at.block \in Nat
      <4>1. at \in [session : Nat, planned : Nat, block : Nat]
        BY DEF TypeOK
      <4> QED BY <3>1, <3>2, <4>1
    <3>4. BlocksOf(s)[at.block] = "COMPLETED"
      BY <3>2 DEF BlockStatus, BlocksOf
    <3>5. ASSUME NEW i \in DOMAIN BlocksOf(s), i < at.block + 1
          PROVE  BlocksOf(s)[i] = "COMPLETED"
      <4>1. i \in Nat
        BY BlocksType
      <4>2. i < at.block \/ i = at.block
        BY <3>3, <3>5, <4>1
      <4> QED BY <1>2, <3>1, <3>2, <3>4, <4>2 DEF AtFrontier
    <3>6. \A i \in DOMAIN (sessions'[at'.session].blocks) :
            i < at'.block => sessions'[at'.session].blocks[i] = "COMPLETED"
      BY <1>1, <3>3, <3>5 DEF BlocksOf
    <3>7. at'.planned <= MaxBlocks
      BY <1>2, <3>2, <3>3 DEF AtFrontier
    <3> QED BY <3>2, <3>6, <3>7 DEF AtFrontier, TodoUncredited, InBlock, BlocksOf
  <2>4. CASE BeginRuns
    <3>1. pc = "recover" /\ pc' = "run" /\ at' = at /\ todo' = Conditions \ done
      BY <2>4 DEF BeginRuns
    <3>2. CompletedIn(at.session, at.block)' = CompletedIn(at.session, at.block)
      BY <1>1, <3>1 DEF CompletedIn, Recorded
    <3> QED BY <1>1, <1>2, <3>1, <3>2 DEF AtFrontier, TodoUncredited, InBlock, BlocksOf
  <2>5. ASSUME NEW c \in Conditions, NothingToRecover(c)
        PROVE  AtFrontier' /\ TodoUncredited'
    <3>1. pc = "recover" /\ pc' = "recover" /\ UNCHANGED <<at, done>>
      BY <2>5 DEF NothingToRecover
    <3>2. CompletedIn(at.session, at.block)' = CompletedIn(at.session, at.block)
      BY <1>1, <3>1 DEF CompletedIn, Recorded
    <3> QED BY <1>1, <1>2, <3>1, <3>2 DEF AtFrontier, TodoUncredited, InBlock, BlocksOf
  <2>6. CASE UNCHANGED vars
    <3>1. UNCHANGED <<pc, at, done, todo>>
      BY <2>6 DEF vars, local
    <3>2. CompletedIn(at.session, at.block)' = CompletedIn(at.session, at.block)
      BY <1>1, <3>1 DEF CompletedIn, Recorded
    <3> QED BY <1>1, <1>2, <3>1, <3>2 DEF AtFrontier, TodoUncredited, InBlock, BlocksOf
  <2> QED BY <2>1, <2>2, <2>3, <2>4, <2>5, <2>6
<1> QED BY <1>1, <1>3, BudgetStays

\* A record goes to the current block; a COMPLETED one is its first there.
LEMMA RecordKeepsBudget ==
  ASSUME TypeOK, Budget, UNCHANGED <<disk, sessions>>, InBlock,
         NEW c \in Conditions, NEW stat \in RecordStatus, NEW r \in Nat,
         Record(c, stat, r),
         stat = "COMPLETED" => c \notin CompletedIn(at.session, at.block)
  PROVE  /\ BlocksInOrder' /\ RecordsInBlocks' /\ OncePerBlock' /\ YieldInBlocks'
         /\ \A s, b : s = at.session /\ b = at.block =>
              CompletedIn(s, b)' = CompletedIn(s, b) \cup
                                     IF stat = "COMPLETED" THEN {c} ELSE {}
<1> DEFINE n == Len(ledger) + 1
<1>1. /\ DOMAIN ledger' = DOMAIN ledger \cup {n}
      /\ n \notin DOMAIN ledger
      /\ ledger'[n].session = at.session
      /\ ledger'[n].block = at.block
      /\ ledger'[n].condition = c
      /\ ledger'[n].status = stat
      /\ \A i \in DOMAIN ledger : ledger'[i] = ledger[i]
  <2>1. /\ DOMAIN ledger' = 1 .. n
        /\ ledger'[n] = [session |-> at.session, block |-> at.block,
                         condition |-> c, status |-> stat, repeat |-> r]
        /\ \A i \in DOMAIN ledger : ledger'[i] = ledger[i]
    BY RecordType DEF InBlock
  <2>2. DOMAIN ledger = 1 .. Len(ledger) /\ Len(ledger) \in Nat
    BY DEF TypeOK
  <2> QED BY <2>1, <2>2
<1> HIDE DEF n
<1>2. at.session \in DOMAIN sessions /\ at.block \in DOMAIN BlocksOf(at.session)
  BY DEF TypeOK, InBlock, BlocksOf
<1>3. BlocksInOrder' /\ YieldInBlocks'
  BY DEF Budget, BlocksInOrder, YieldInBlocks, BlocksOf, Yield, Valid
<1>4. RecordsInBlocks'
  BY <1>1, <1>2 DEF Budget, RecordsInBlocks, BlocksOf
<1>5. ASSUME NEW i \in DOMAIN ledger, stat = "COMPLETED", ledger[i].status = "COMPLETED",
             ledger[i].session = at.session, ledger[i].block = at.block,
             ledger[i].condition = c
      PROVE  FALSE
  BY <1>5 DEF CompletedIn, Recorded
<1>6. OncePerBlock'
  BY <1>1, <1>5 DEF Budget, OncePerBlock
<1>7. ASSUME NEW s, NEW b, s = at.session, b = at.block
      PROVE  CompletedIn(s, b)' = CompletedIn(s, b) \cup
                                    IF stat = "COMPLETED" THEN {c} ELSE {}
  <2>1. ASSUME NEW d \in Conditions
        PROVE  (\E i \in DOMAIN ledger' :
                  /\ ledger'[i].session = s /\ ledger'[i].condition = d
                  /\ ledger'[i].status = "COMPLETED" /\ ledger'[i].block = b)
               <=> \/ \E i \in DOMAIN ledger :
                        /\ ledger[i].session = s /\ ledger[i].condition = d
                        /\ ledger[i].status = "COMPLETED" /\ ledger[i].block = b
                   \/ stat = "COMPLETED" /\ d = c
    BY <1>1, <1>7
  <2> QED BY <2>1 DEF CompletedIn, Recorded
<1> QED BY <1>3, <1>4, <1>6, <1>7

LEMMA RecordBudget ==
  ASSUME TypeOK, Accounting, Budget, Discipline # "any",
         \/ \E c \in Conditions : Recover(c) \/ SkipCondition(c)
         \/ RunFails \/ RunReturns
  PROVE  Budget'
<1>0. PICK s, b : s = at.session /\ b = at.block
  OBVIOUS
<1>1. ASSUME NEW c \in Conditions, NEW stat \in RecordStatus, NEW r \in Nat,
             Record(c, stat, r), UNCHANGED <<disk, sessions, at>>, InBlock,
             stat = "COMPLETED" => c \notin CompletedIn(s, b),
             pc' \in {"recover", "run"},
             pc' = "recover" => done' = CompletedIn(s, b) \cup {c} /\ stat = "COMPLETED",
             pc' = "run" => todo' \cap CompletedIn(s, b) = {} /\ c \notin todo'
      PROVE  Budget'
  <2>1. /\ BlocksInOrder' /\ RecordsInBlocks' /\ OncePerBlock' /\ YieldInBlocks'
        /\ CompletedIn(s, b)' = CompletedIn(s, b) \cup IF stat = "COMPLETED" THEN {c} ELSE {}
    BY <1>0, <1>1, RecordKeepsBudget
  <2>2. CompletedIn(at.session, at.block)' = CompletedIn(s, b)'
    BY <1>0, <1>1
  <2>3. TodoUncredited'
    BY <1>1, <2>1, <2>2 DEF TodoUncredited
  <2>4. AtFrontier'
    BY <1>1 DEF Budget, AtFrontier, InBlock, BlocksOf
  <2> QED BY <2>1, <2>3, <2>4 DEF Budget
<1>2. ASSUME NEW c \in Conditions, Recover(c)
      PROVE  Budget'
  <2>1. /\ pc = "recover" /\ pc' = "recover" /\ done' = done \cup {c}
        /\ UNCHANGED <<disk, sessions, at>>
        /\ Record(c, "COMPLETED", LatestSelectedRun(c))
        /\ c \notin done
    BY <1>2 DEF Recover, MustRecover
  <2>2. done = CompletedIn(s, b)
    BY <1>0, <2>1 DEF Budget, TodoUncredited
  <2>3. LatestSelectedRun(c) \in Nat /\ "COMPLETED" \in RecordStatus
    BY <1>2, RecoveredRun DEF RecordStatus
  <2> QED BY <1>1, <2>1, <2>2, <2>3 DEF InBlock
<1>3. ASSUME NEW c \in Conditions, SkipCondition(c)
      PROVE  Budget'
  <2>1. /\ pc = "run" /\ pc' = "run" /\ todo' = todo \ {c}
        /\ UNCHANGED <<disk, sessions, at>>
        /\ Record(c, "SKIPPED", 0)
    BY <1>3 DEF SkipCondition
  <2>2. todo \cap CompletedIn(s, b) = {}
    BY <1>0, <2>1 DEF Budget, TodoUncredited
  <2>3. "SKIPPED" \in RecordStatus /\ "SKIPPED" # "COMPLETED" /\ 0 \in Nat
    BY DEF RecordStatus
  <2> QED BY <1>1, <2>1, <2>2, <2>3 DEF InBlock
<1>4. ASSUME NEW stat \in RecordStatus, RunRecorded(stat), pc \in {"measuring", "summarised"}
      PROVE  Budget'
  <2>1. /\ pc' = "run" /\ todo' = todo \ {run.condition}
        /\ UNCHANGED <<disk, sessions, at>>
        /\ Record(run.condition, stat, run.repeat)
        /\ run.condition \in Conditions /\ run.repeat \in Nat
    BY <1>4 DEF RunRecorded, TypeOK
  <2>2. run.condition \in todo /\ todo \cap CompletedIn(s, b) = {}
    BY <1>0, <1>4 DEF Accounting, RunInProgress, Budget, TodoUncredited
  <2>3. run.condition \notin CompletedIn(s, b)
    BY <2>2
  <2>4. todo' \cap CompletedIn(s, b) = {} /\ run.condition \notin todo'
    BY <2>1, <2>2
  <2> QED BY <1>1, <1>4, <2>1, <2>3, <2>4 DEF InBlock
<1>5. CASE RunFails
  BY <1>4, <1>5 DEF RunFails, RecordStatus
<1>6. CASE RunReturns
  <2>1. disk[run.condition][run.repeat].verdict \in RecordStatus
    BY <1>6 DEF RunReturns, TypeOK, RecordStatus
  <2> QED BY <1>4, <1>6, <2>1 DEF RunReturns
<1> QED BY <1>2, <1>3, <1>5, <1>6

\* Measuring a condition: it has no record in the current block and every run
\* of its session is recorded, so one more run still fits in the blocks.
LEMMA EvidenceBudget ==
  ASSUME TypeOK, Accounting, Budget, Discipline # "any",
         \/ \E c \in Conditions : StartRun(c)
         \/ SummaryValid \/ SummaryInvalid \/ CrashInSummary
  PROVE  Budget'
<1>1. UNCHANGED <<ledger, sessions>>
  BY DEF StartRun, SummaryValid, SummaryInvalid, CrashInSummary
<1>2. \A s : BlocksOf(s)' = BlocksOf(s) /\ \A b : CompletedIn(s, b)' = CompletedIn(s, b)
  BY <1>1 DEF BlocksOf, CompletedIn, Recorded
<1>3. BlocksInOrder' /\ RecordsInBlocks' /\ OncePerBlock'
  BY <1>1 DEF Budget, BlocksInOrder, RecordsInBlocks, OncePerBlock, BlocksOf
<1>4. AtFrontier' /\ TodoUncredited'
  <2>1. CASE CrashInSummary
    <3>1. pc' = "idle"
      BY <2>1 DEF CrashInSummary, Exit
    <3> QED BY <3>1 DEF AtFrontier, TodoUncredited, InBlock
  <2>2. CASE ~CrashInSummary
    <3>1. /\ pc \in {"run", "measuring"} /\ pc' \in {"measuring", "summarised"}
          /\ UNCHANGED <<at, todo, done>>
      BY <2>2 DEF StartRun, SummaryValid, SummaryInvalid, local
    <3>2. CompletedIn(at.session, at.block)' = CompletedIn(at.session, at.block)
      BY <1>1, <3>1 DEF CompletedIn, Recorded
    <3> QED BY <1>1, <3>1, <3>2 DEF Budget, AtFrontier, TodoUncredited, InBlock, BlocksOf
  <2> QED BY <2>1, <2>2
<1>5. ASSUME NEW c \in Conditions, StartRun(c)
      PROVE  YieldInBlocks'
  <2>1. pc = "run"
    BY <1>5 DEF StartRun
  <2>2. \A d \in Conditions : \A s : Yield(s, d)' = Yield(s, d)
    BY <1>5, <2>1, NewDirectory
  <2> QED BY <1>1, <1>2, <2>2 DEF Budget, YieldInBlocks
<1>6. ASSUME SummaryValid \/ SummaryInvalid \/ CrashInSummary
      PROVE  YieldInBlocks'
  <2>1. PICK s, c, r : s = at.session /\ c = run.condition /\ r = run.repeat
    OBVIOUS
  <2>2. /\ pc = "measuring" /\ Books /\ RunsAccount /\ RunInProgress
        /\ s = Len(sessions) /\ c \in Conditions /\ c \in todo
    BY <1>6, <2>1 DEF Accounting, SummaryValid, SummaryInvalid, CrashInSummary,
                      TypeOK, RunInProgress
  <2>3. PICK v \in Verdicts : FileSummary(v)
    BY <1>6 DEF SummaryValid, SummaryInvalid, CrashInSummary, Verdicts
  <2>4. \A d \in Conditions :
          /\ \A q \in DOMAIN disk[d] : disk'[d][q].by = disk[d][q].by
          /\ DOMAIN disk'[d] = DOMAIN disk[d]
          /\ Valid(d)' = Valid(d) \cup IF d = c /\ v = "COMPLETED" THEN {r} ELSE {}
    BY <2>1, <2>2, <2>3, NewVerdict
  <2>5. r \in DOMAIN disk[c] /\ disk[c][r].by = s
    BY <2>1, <2>2 DEF RunInProgress, TypeOK
  <2>6. \A d \in Conditions : Valid(d) \subseteq DOMAIN disk[d]
    BY DEF Valid
  <2>7. ASSUME NEW d \in Conditions, NEW x, d # c \/ x # s
        PROVE  Yield(x, d)' = Yield(x, d)
    BY <2>4, <2>5, <2>6, <2>7 DEF Yield
  <2>8. Yield(s, c)' \subseteq Yield(s, c) \cup {r}
    BY <2>2, <2>4, <2>6 DEF Yield
  <2>9. Cardinality(Yield(s, c)') <= Len(BlocksOf(s))
    <3> DEFINE Y == Yield(s, c)
               N == Yield(s, c)'
    <3>1. s \in DOMAIN sessions /\ Len(BlocksOf(s)) \in Nat /\ Len(BlocksOf(s)) > 0
          /\ at.block = Len(BlocksOf(s))
      <4>1. s \in DOMAIN sessions /\ at.block \in DOMAIN BlocksOf(s)
        BY <2>1, <2>2 DEF TypeOK, BlocksOf
      <4> QED BY <2>1, <2>2, <4>1, BlocksType DEF Budget, AtFrontier, InBlock
    <3>2. c \notin CompletedIn(s, Len(BlocksOf(s)))
      BY <2>1, <2>2, <3>1 DEF Budget, TodoUncredited
    <3>3. Cardinality(Recorded(s, c)) + 1 <= Len(BlocksOf(s))
      BY <2>2, <3>1, <3>2, OneRecordPerBlock DEF Budget
    <3>4. Y \cap CreditedRuns(c) = Y
      BY <2>2 DEF RunsAccount, Settled
    <3>5. Cardinality(Recorded(s, c)) = Cardinality(Y) /\ Cardinality(Y) \in Nat
      <4>1. Cardinality(Recorded(s, c)) = Cardinality(Y \cap CreditedRuns(c))
        BY <2>2, RecordsMatchRuns DEF Books
      <4> QED BY <2>2, <3>4, <4>1, YieldFinite
    <3>6. IsFiniteSet(Y)
      BY <2>2, YieldFinite
    <3>7. N \in SUBSET (Y \cup {r})
      BY <2>8
    <3> HIDE DEF Y, N
    <3>8. IsFiniteSet(Y \cup {r}) /\ Cardinality(Y \cup {r}) <= Cardinality(Y) + 1
          /\ Cardinality(Y \cup {r}) \in Nat
      <4>1. /\ IsFiniteSet(Y \cup {r})
            /\ Cardinality(Y \cup {r}) =
                 IF r \in Y THEN Cardinality(Y) ELSE Cardinality(Y) + 1
        BY <3>6, FS_AddElement
      <4> QED BY <3>5, <4>1
    <3>9. Cardinality(N) <= Cardinality(Y \cup {r}) /\ Cardinality(N) \in Nat
      BY <3>7, <3>8, FS_Subset, FS_CardinalityType
    <3> DEFINE l == Len(BlocksOf(s))
               k == Cardinality(Y)
               n == Cardinality(N)
               u == Cardinality(Y \cup {r})
    <3>10. l \in Nat /\ k \in Nat /\ n \in Nat /\ u \in Nat
           /\ k + 1 <= l /\ u <= k + 1 /\ n <= u
      BY <3>1, <3>3, <3>5, <3>8, <3>9
    <3> HIDE DEF l, k, n, u
    <3>11. n <= l
      BY <3>10
    <3> QED BY <3>11 DEF l, n, N
  <2>10. \A x \in DOMAIN sessions, d \in Conditions :
           Cardinality(Yield(x, d)') <= Len(BlocksOf(x))
    BY <2>7, <2>9 DEF Budget, YieldInBlocks
  <2> QED BY <1>1, <1>2, <2>10 DEF YieldInBlocks
<1> QED BY <1>3, <1>4, <1>5, <1>6 DEF Budget

LEMMA NextBudget ==
  ASSUME TypeOK, Accounting, Budget, Discipline # "any", [Next]_vars
  PROVE  Budget'
BY SessionBudget, MoveBudget, RecordBudget, EvidenceBudget DEF Next, Operator, Step, Host

\* One session never adds more than MaxBlocks valid runs to a condition,
\* whatever crashes, failures and restarts it sees, as long as the operator
\* resumes only the newest session (maximumRunsPerSession; baseline.py:178-269).
THEOREM SessionYieldIsBounded ==
  ASSUME Discipline # "any"
  PROVE  Spec => []YieldBounded
<1>1. TypeOK /\ Accounting /\ Budget /\ [Next]_vars => Budget'
  BY NextBudget
<1>2. TypeOK /\ Budget => YieldBounded
  <2> SUFFICES ASSUME TypeOK, Budget, NEW c \in Conditions, NEW s \in DOMAIN sessions
               PROVE  Cardinality(Yield(s, c)) <= MaxBlocks
    BY DEF YieldBounded
  <2> DEFINE y == Cardinality(Yield(s, c))
             l == Len(BlocksOf(s))
  <2>1. y <= l /\ l <= MaxBlocks
    BY DEF Budget, BlocksInOrder, YieldInBlocks
  <2>2. y \in Nat /\ l \in Nat /\ MaxBlocks \in Nat
    BY YieldFinite, BlocksType, PolicyAssumption
  <2> HIDE DEF y, l
  <2>3. y <= MaxBlocks
    BY <2>1, <2>2
  <2> QED BY <2>3 DEF y
<1> QED BY <1>1, <1>2, InitBudget, TypeCorrect, AccountsAgree, PTL DEF Spec

-----------------------------------------------------------------------------
\* The scheduler implements EvidenceLedger.

\* Every record is appended by the running session, with the evidence left
\* alone; one that says COMPLETED credits a valid run that had no record.
LEMMA RecordsAreCredits ==
  ASSUME TypeOK, Accounting, Discipline # "any",
         \/ \E c \in Conditions : Recover(c) \/ SkipCondition(c)
         \/ RunFails \/ RunReturns
  PROVE  /\ UNCHANGED disk
         /\ pc \in {"recover", "run", "measuring", "summarised"}
         /\ \E c \in Conditions, stat \in RecordStatus, r \in Nat :
              /\ Record(c, stat, r)
              /\ stat = "COMPLETED" => r \in Valid(c) \ CreditedRuns(c)
<1>0. RunInProgress
  BY DEF Accounting
<1>1. ASSUME NEW c \in Conditions, Recover(c)
      PROVE  \E r \in Nat : Record(c, "COMPLETED", r) /\ r \in Valid(c) \ CreditedRuns(c)
  BY <1>1, RecoveredRun DEF Recover, Yield
<1>2. ASSUME RunReturns
      PROVE  \E stat \in RecordStatus :
               /\ Record(run.condition, stat, run.repeat)
               /\ stat = "COMPLETED" =>
                    run.repeat \in Valid(run.condition) \ CreditedRuns(run.condition)
  <2> DEFINE v == disk[run.condition][run.repeat].verdict
  <2>1. /\ v \in {"COMPLETED", "INVALID"}
        /\ run.repeat \in DOMAIN disk[run.condition]
        /\ run.repeat \notin CreditedRuns(run.condition)
        /\ Record(run.condition, v, run.repeat)
    BY <1>0, <1>2 DEF RunReturns, RunRecorded, TypeOK, RunInProgress
  <2> QED BY <2>1 DEF RecordStatus, Valid
<1>3. run.condition \in Conditions /\ run.repeat \in Nat
  BY DEF TypeOK
<1>4. RunFails => Record(run.condition, "FAILED", run.repeat)
  BY DEF RunFails, RunRecorded
<1>5. \A c \in Conditions : SkipCondition(c) => Record(c, "SKIPPED", 0)
  BY DEF SkipCondition
<1>6. {"COMPLETED", "FAILED", "SKIPPED"} \subseteq RecordStatus
  BY DEF RecordStatus
<1>7. UNCHANGED disk /\ pc \in {"recover", "run", "measuring", "summarised"}
  BY DEF Recover, SkipCondition, RunFails, RunReturns, RunRecorded
<1> QED BY <1>1, <1>2, <1>3, <1>4, <1>5, <1>6, <1>7

\* The books of a condition in the abstract ledger.
LEMMA LedgerGains ==
  ASSUME TypeOK, pc \in {"recover", "run", "measuring", "summarised"},
         NEW c \in Conditions, NEW stat \in RecordStatus, NEW r \in Nat,
         Record(c, stat, r)
  PROVE  /\ \A d \in Conditions \ {c} : Credited(d)' = Credited(d)
         /\ stat # "COMPLETED" => Credited(c)' = Credited(c)
         /\ stat = "COMPLETED" =>
              /\ Credited(c)' = Abstract!Entered(Credited(c), Len(ledger) + 1, r)
              /\ DOMAIN Credited(c)' = DOMAIN Credited(c) \cup {Len(ledger) + 1}
              /\ \A j \in DOMAIN Credited(c) : j < Len(ledger) + 1
<1> DEFINE n == Len(ledger) + 1
           Entries(d) == {i \in DOMAIN ledger : /\ ledger[i].condition = d
                                                /\ ledger[i].status = "COMPLETED"}
<1>1. /\ DOMAIN ledger' = DOMAIN ledger \cup {n}
      /\ n \notin DOMAIN ledger
      /\ \A i \in DOMAIN ledger : i < n
      /\ ledger'[n].condition = c
      /\ ledger'[n].status = stat
      /\ ledger'[n].repeat = r
      /\ \A i \in DOMAIN ledger : ledger'[i] = ledger[i]
  <2>1. /\ DOMAIN ledger' = 1 .. n
        /\ ledger'[n] = [session |-> at.session, block |-> at.block,
                         condition |-> c, status |-> stat, repeat |-> r]
        /\ \A i \in DOMAIN ledger : ledger'[i] = ledger[i]
    BY RecordType
  <2>2. DOMAIN ledger = 1 .. Len(ledger) /\ Len(ledger) \in Nat
    BY DEF TypeOK
  <2> QED BY <2>1, <2>2
<1> HIDE DEF n
<1>2. \A d \in Conditions : Credited(d) = [i \in Entries(d) |-> ledger[i].repeat]
  BY DEF Credited
<1>3. \A d \in Conditions : Credited(d)' = [i \in Entries(d)' |-> ledger'[i].repeat]
  BY DEF Credited
<1>4. \A d \in Conditions :
        Entries(d)' = Entries(d) \cup IF d = c /\ stat = "COMPLETED" THEN {n} ELSE {}
  BY <1>1
<1>5. \A d \in Conditions : Entries(d) \subseteq DOMAIN ledger
  OBVIOUS
<1> HIDE DEF Entries
<1>6. ASSUME NEW d \in Conditions, d # c \/ stat # "COMPLETED"
      PROVE  Credited(d)' = Credited(d)
  <2>1. Entries(d)' = Entries(d)
    BY <1>4, <1>6
  <2>2. \A i \in Entries(d) : ledger'[i].repeat = ledger[i].repeat
    BY <1>1, <1>5
  <2> QED BY <1>2, <1>3, <2>1, <2>2
<1>7. ASSUME stat = "COMPLETED"
      PROVE  /\ Credited(c)' = Abstract!Entered(Credited(c), n, r)
             /\ DOMAIN Credited(c)' = DOMAIN Credited(c) \cup {n}
             /\ \A j \in DOMAIN Credited(c) : j < n
  <2>1. Entries(c)' = Entries(c) \cup {n} /\ DOMAIN Credited(c) = Entries(c)
    BY <1>2, <1>4, <1>7
  <2>2. \A i \in Entries(c) \cup {n} :
          ledger'[i].repeat = IF i = n THEN r ELSE Credited(c)[i]
    BY <1>1, <1>2, <1>5
  <2>3. Credited(c)' = [i \in Entries(c) \cup {n} |-> IF i = n THEN r ELSE Credited(c)[i]]
    BY <1>3, <2>1, <2>2
  <2> QED BY <1>1, <1>5, <2>1, <2>3 DEF Abstract!Entered
<1> QED BY <1>6, <1>7 DEF n

LEMMA CreditsAreRuns ==
  ASSUME NEW c \in Conditions
  PROVE  Abstract!Credits(c) = CreditedRuns(c)
<1>1. Abstract!Credits(c) = {Credited(c)[k] : k \in DOMAIN Credited(c)}
  BY DEF Abstract!Credits
<1> QED BY <1>1 DEF Credited, CreditedRuns

\* Instantiated with EvidenceLedger, Cardinality is the same operator.
LEMMA SameCardinality == \A S : Abstract!Cardinality(S) = Cardinality(S)
BY DEF Abstract!Cardinality, Cardinality

LEMMA InitImplements == Init => Abstract!Init
<1> SUFFICES ASSUME Init
             PROVE  Abstract!Init
  OBVIOUS
<1>1. \A c \in Conditions : Valid(c) = {}
  BY DEF Init, Valid
<1>2. ASSUME NEW c \in Conditions
      PROVE  Credited(c) = [k \in {} |-> 0]
  <2>1. {i \in DOMAIN ledger : ledger[i].condition = c /\ ledger[i].status = "COMPLETED"} = {}
    BY DEF Init
  <2> QED BY <2>1 DEF Credited
<1> QED BY <1>1, <1>2 DEF Abstract!Init

\* A step that keeps evidence and records is none of the ledger's business.
LEMMA LedgerStutters ==
  ASSUME \A c \in Conditions : Valid(c)' = Valid(c) /\ Credited(c)' = Credited(c)
  PROVE  UNCHANGED Abstract!vars
BY DEF Abstract!vars

LEMMA SameEvidence ==
  ASSUME UNCHANGED <<disk, ledger>>
  PROVE  UNCHANGED Abstract!vars
<1>1. \A c \in Conditions : Valid(c)' = Valid(c) /\ Credited(c)' = Credited(c)
  BY DEF Valid, Credited
<1> QED BY <1>1, LedgerStutters

LEMMA RecordImplements ==
  ASSUME TypeOK, Accounting, Discipline # "any",
         \/ \E c \in Conditions : Recover(c) \/ SkipCondition(c)
         \/ RunFails \/ RunReturns
  PROVE  [Abstract!Next]_(Abstract!vars)
<1>1. /\ UNCHANGED disk
      /\ pc \in {"recover", "run", "measuring", "summarised"}
  BY RecordsAreCredits
<1>2. PICK c \in Conditions, stat \in RecordStatus, r \in Nat :
        /\ Record(c, stat, r)
        /\ stat = "COMPLETED" => r \in Valid(c) \ CreditedRuns(c)
  BY RecordsAreCredits
<1>3. \A d \in Conditions : Valid(d)' = Valid(d)
  BY <1>1 DEF Valid
<1>4. CASE stat # "COMPLETED"
  BY <1>1, <1>2, <1>3, <1>4, LedgerGains, LedgerStutters
<1>5. CASE stat = "COMPLETED"
  <2> DEFINE k == Len(ledger) + 1
             books == [d \in Conditions |-> Credited(d)]
  <2>1. /\ \A d \in Conditions \ {c} : Credited(d)' = Credited(d)
        /\ Credited(c)' = Abstract!Entered(Credited(c), k, r)
        /\ DOMAIN Credited(c)' = DOMAIN Credited(c) \cup {k}
        /\ \A j \in DOMAIN Credited(c) : j < k
    BY <1>1, <1>2, <1>5, LedgerGains
  <2>2. books' = [books EXCEPT ![c] = Abstract!Entered(books[c], k, r)]
    BY <2>1
  <2>3. r \in Valid(c) \ Abstract!Credits(c)
    BY <1>2, <1>5, CreditsAreRuns
  <2>4. [d \in Conditions |-> Valid(d)]' = [d \in Conditions |-> Valid(d)]
    BY <1>3
  <2> HIDE DEF k
  <2>5. Abstract!Credit(c, k, r)
    BY <2>1, <2>2, <2>3, <2>4 DEF Abstract!Credit
  <2>6. k \in DOMAIN books'[c] /\ r \in [d \in Conditions |-> Valid(d)][c]
    BY <2>1, <2>3
  <2> QED BY <2>5, <2>6 DEF Abstract!Next
<1> QED BY <1>4, <1>5

\* A valid summary produces a run; any other evidence produces none.
LEMMA EvidenceImplements ==
  ASSUME TypeOK, Accounting, Measuring, Discipline # "any",
         \/ \E c \in Conditions : StartRun(c)
         \/ SummaryValid \/ SummaryInvalid \/ CrashInSummary
  PROVE  [Abstract!Next]_(Abstract!vars)
<1>1. UNCHANGED ledger
  BY DEF StartRun, SummaryValid, SummaryInvalid, CrashInSummary
<1>2. \A d \in Conditions : Credited(d)' = Credited(d)
  BY <1>1 DEF Credited
<1>3. ASSUME NEW c \in Conditions, StartRun(c)
      PROVE  UNCHANGED Abstract!vars
  <2>1. pc = "run"
    BY <1>3 DEF StartRun
  <2> QED BY <1>2, <1>3, <2>1, NewDirectory, LedgerStutters
<1>4. ASSUME SummaryValid \/ SummaryInvalid \/ CrashInSummary
      PROVE  [Abstract!Next]_(Abstract!vars)
  <2>1. pc = "measuring" /\ RunInProgress /\ at.session = Len(sessions)
    BY <1>4 DEF Accounting, SummaryValid, SummaryInvalid, CrashInSummary
  <2>2. PICK v \in Verdicts : FileSummary(v)
    BY <1>4 DEF SummaryValid, SummaryInvalid, CrashInSummary, Verdicts
  <2> DEFINE c == run.condition
             r == run.repeat
             runs == [d \in Conditions |-> Valid(d)]
  <2>3. \A d \in Conditions :
          Valid(d)' = Valid(d) \cup IF d = c /\ v = "COMPLETED" THEN {r} ELSE {}
    BY <2>1, <2>2, NewVerdict
  <2>4. CASE v # "COMPLETED"
    BY <1>2, <2>3, <2>4, LedgerStutters
  <2>5. CASE v = "COMPLETED"
    <3>1. c \in Conditions /\ disk[c][r].verdict = "NONE" /\ Cardinality(Valid(c)) < MaxValid
      BY <2>1 DEF TypeOK, RunInProgress, Measuring, RoomForAnother, ValidRuns
    <3>2. r \notin Valid(c)
      BY <3>1 DEF Valid
    <3> HIDE DEF c, r
    <3>3. runs' = [runs EXCEPT ![c] = runs[c] \cup {r}]
      BY <2>3, <2>5, <3>1
    <3>4. UNCHANGED [d \in Conditions |-> Credited(d)]
      BY <1>2
    <3>5. Abstract!Produce(c, r)
      BY <3>1, <3>2, <3>3, <3>4, SameCardinality DEF Abstract!Produce
    <3>6. r \in runs'[c]
      BY <2>3, <2>5, <3>1
    <3> QED BY <3>1, <3>5, <3>6 DEF Abstract!Next
  <2> QED BY <2>4, <2>5
<1> QED BY <1>3, <1>4

LEMMA StepImplements ==
  ASSUME TypeOK, Accounting, Measuring, Discipline # "any", [Next]_vars
  PROVE  [Abstract!Next]_(Abstract!vars)
<1>1. CASE Operator
  BY <1>1, SameEvidence DEF Operator, StartSession, ResumeSession
<1>2. CASE SkipBlock \/ OpenBlock \/ BeginRuns \/ CloseBlock \/ CloseSession \/ Raise
  BY <1>2, SameEvidence
     DEF SkipBlock, OpenBlock, BeginRuns, CloseBlock, CloseSession, Raise, durable
<1>3. ASSUME NEW c \in Conditions, NothingToRecover(c)
      PROVE  [Abstract!Next]_(Abstract!vars)
  BY <1>3, SameEvidence DEF NothingToRecover, durable
<1>4. CASE Crash \/ CrashInStateFile
  BY <1>4, SameEvidence DEF Crash, CrashInStateFile, durable
<1>5. CASE UNCHANGED vars
  BY <1>5, SameEvidence DEF vars, durable
<1> QED BY <1>1, <1>2, <1>3, <1>4, <1>5, RecordImplements, EvidenceImplements
        DEF Next, Step, Host

\* Whatever crashes, failures and restarts it sees, the scheduler does to its
\* evidence and its records only what the ledger allows, as long as the
\* operator resumes only the newest session (baseline.py:149-269).
THEOREM SchedulerImplementsLedger ==
  ASSUME Discipline # "any"
  PROVE  Spec => ImplementsLedger
<1>1. TypeOK /\ Accounting /\ Measuring /\ [Next]_vars => [Abstract!Next]_(Abstract!vars)
  BY StepImplements
<1> QED BY <1>1, InitImplements, MeasuringInvariant, AccountsAgree, PTL
        DEF Spec, ImplementsLedger, Abstract!Spec

-----------------------------------------------------------------------------
\* What is left of the accounts when sessions are resumed in any order. A process that
\* recovers has counted the records of its session, and one that has a valid summary
\* has a run that no record of its session claims yet.

RecordsOfSessions == \A i \in DOMAIN ledger : ledger[i].session \in DOMAIN sessions

\* There is room for one more record.
Room(s, c) ==
  Cardinality(Recorded(s, c)) + 1 <= ValidRuns(c) - sessions[s].baseline[c]

ClaimsInProgress ==
  /\ pc = "recover" =>
       \A c \in todo : assigned[c] = Cardinality(Recorded(at.session, c))
  /\ pc = "summarised" /\ disk[run.condition][run.repeat].verdict = "COMPLETED" =>
       Room(at.session, run.condition)

Claims == RecordsOfSessions /\ ClaimsCovered /\ ClaimsInProgress

LEMMA CountTypes ==
  ASSUME TypeOK, NEW s \in DOMAIN sessions, NEW c \in Conditions
  PROVE  /\ Cardinality(Recorded(s, c)) \in Nat
         /\ ValidRuns(c) \in Nat
         /\ sessions[s].baseline[c] \in Nat
<1>1. sessions[s] \in Session
  BY DEF TypeOK
<1>2. sessions[s].baseline \in [Conditions -> Nat]
  BY <1>1 DEF Session
<1> QED BY <1>2, RecordedFinite, ValidFinite

\* Sessions may be added and updated and valid runs may come: what is claimed stays
\* covered as long as no record is added.
LEMMA ClaimsStay ==
  ASSUME TypeOK, RecordsOfSessions, ClaimsCovered, UNCHANGED ledger,
         \A c \in Conditions :
           ValidRuns(c)' \in Nat /\ ValidRuns(c) <= ValidRuns(c)',
         \A s \in DOMAIN sessions :
           s \in DOMAIN sessions' /\ sessions'[s].baseline = sessions[s].baseline,
         \A s \in DOMAIN sessions' \ DOMAIN sessions : sessions'[s].baseline = Baseline'
  PROVE  /\ RecordsOfSessions'
         /\ ClaimsCovered'
         /\ \A s, c : Recorded(s, c)' = Recorded(s, c)
<1>1. \A s, c : Recorded(s, c)' = Recorded(s, c)
  BY DEF Recorded
<1>2. ASSUME NEW s \in DOMAIN sessions', NEW c \in Conditions
      PROVE  Cardinality(Recorded(s, c)') <= ValidRuns(c)' - sessions'[s].baseline[c]
  <2>1. CASE s \in DOMAIN sessions
    <3>1. ValidRuns(c) \in Nat /\ ValidRuns(c)' \in Nat /\ sessions[s].baseline[c] \in Nat
          /\ Cardinality(Recorded(s, c)) \in Nat
      BY <2>1, CountTypes
    <3>2. Cardinality(Recorded(s, c)) <= ValidRuns(c) - sessions[s].baseline[c]
      BY <2>1 DEF ClaimsCovered
    <3>3. ValidRuns(c) <= ValidRuns(c)' /\ sessions'[s].baseline = sessions[s].baseline
      BY <2>1
    <3> QED BY <1>1, <3>1, <3>2, <3>3
  <2>2. CASE s \notin DOMAIN sessions
    <3>1. Recorded(s, c) = {}
      BY <2>2 DEF Recorded, RecordsOfSessions
    <3>2. Cardinality(Recorded(s, c)') = 0
      BY <1>1, <3>1, FS_EmptySet
    <3>3. sessions'[s].baseline[c] = ValidRuns(c)'
      BY <2>2 DEF Baseline
    <3> QED BY <3>2, <3>3
  <2> QED BY <2>1, <2>2
<1>3. ClaimsCovered'
  BY <1>2 DEF ClaimsCovered
<1> QED BY <1>1, <1>3 DEF RecordsOfSessions

\* A record is covered if it completes nothing, or if there was room for it.
LEMMA ClaimRecorded ==
  ASSUME TypeOK, RecordsOfSessions, ClaimsCovered, UNCHANGED <<disk, sessions>>,
         pc \in {"recover", "run", "measuring", "summarised"},
         NEW c \in Conditions, NEW stat \in RecordStatus, NEW r \in Nat,
         Record(c, stat, r),
         stat = "COMPLETED" => Room(at.session, c)
  PROVE  /\ RecordsOfSessions'
         /\ ClaimsCovered'
         /\ \A s, d : d # c => Recorded(s, d)' = Recorded(s, d)
<1> DEFINE n == Len(ledger) + 1
<1>1. /\ DOMAIN ledger' = DOMAIN ledger \cup {n}
      /\ n \notin DOMAIN ledger
      /\ ledger'[n].session = at.session
      /\ ledger'[n].condition = c
      /\ ledger'[n].status = stat
      /\ \A i \in DOMAIN ledger : ledger'[i] = ledger[i]
  <2>1. /\ DOMAIN ledger' = 1 .. n
        /\ ledger'[n] = [session |-> at.session, block |-> at.block,
                         condition |-> c, status |-> stat, repeat |-> r]
        /\ \A i \in DOMAIN ledger : ledger'[i] = ledger[i]
    BY RecordType
  <2>2. DOMAIN ledger = 1 .. Len(ledger) /\ Len(ledger) \in Nat
    BY DEF TypeOK
  <2> QED BY <2>1, <2>2
<1> HIDE DEF n
<1>2. at.session \in DOMAIN sessions
  BY DEF TypeOK
<1>3. \A s, d :
        Recorded(s, d)' = IF s = at.session /\ d = c /\ stat = "COMPLETED"
                            THEN Recorded(s, d) \cup {n} ELSE Recorded(s, d)
  BY <1>1 DEF Recorded
<1>4. \A d : ValidRuns(d)' = ValidRuns(d)
  BY DEF ValidRuns, Valid
<1>5. ASSUME NEW s \in DOMAIN sessions, NEW d \in Conditions
      PROVE  Cardinality(Recorded(s, d)') <= ValidRuns(d) - sessions[s].baseline[d]
  <2>1. CASE s = at.session /\ d = c /\ stat = "COMPLETED"
    <3>1. IsFiniteSet(Recorded(s, d)) /\ n \notin Recorded(s, d)
      <4>1. IsFiniteSet(Recorded(s, d))
        BY RecordedFinite
      <4>2. Recorded(s, d) \subseteq DOMAIN ledger
        BY DEF Recorded
      <4> QED BY <1>1, <4>1, <4>2
    <3>2. Cardinality(Recorded(s, d) \cup {n}) = Cardinality(Recorded(s, d)) + 1
      BY <3>1, FS_AddElement
    <3> QED BY <1>3, <2>1, <3>2 DEF Room
  <2>2. CASE ~(s = at.session /\ d = c /\ stat = "COMPLETED")
    BY <1>3, <2>2 DEF ClaimsCovered
  <2> QED BY <2>1, <2>2
<1>6. ClaimsCovered'
  BY <1>4, <1>5 DEF ClaimsCovered
<1>7. RecordsOfSessions'
  BY <1>1, <1>2 DEF RecordsOfSessions
<1> QED BY <1>3, <1>6, <1>7

LEMMA InitClaims == Init => Claims
BY DEF Init, Claims, RecordsOfSessions, ClaimsCovered, ClaimsInProgress

\* Evidence that is filed over a blank directory, or in a new one, takes no valid run
\* away, and one that is valid adds itself.
LEMMA FilingAdds ==
  ASSUME TypeOK, NEW c \in Conditions, NEW r, NEW e,
         disk' = [disk EXCEPT ![c] = Put(@, r, e)],
         r \in DOMAIN disk[c] => /\ disk[c][r].verdict = "NONE"
                                 /\ disk[c][r].by = e.by
  PROVE  /\ \A d \in Conditions :
              ValidRuns(d)' \in Nat /\ ValidRuns(d) <= ValidRuns(d)'
         /\ e.verdict = "COMPLETED" => ValidRuns(c) + 1 <= ValidRuns(c)'
<1> DEFINE V(d) == Valid(d)
           W(d) == Valid(d)'
<1>1. \A d \in Conditions : V(d) \in SUBSET W(d) /\ W(d) \in SUBSET (V(d) \cup {r})
  BY FilingKeeps, FilingGrows
<1>2. \A d : ValidRuns(d) = Cardinality(V(d)) /\ ValidRuns(d)' = Cardinality(W(d))
  BY DEF ValidRuns
<1>3. \A d \in Conditions : IsFiniteSet(V(d))
  BY ValidFinite
<1>4. r \notin V(c)
  BY DEF Valid
<1>5. e.verdict = "COMPLETED" => r \in W(c)
  <2>1. disk'[c] = Put(disk[c], r, e)
    BY DEF TypeOK
  <2>2. r \in DOMAIN disk'[c] /\ disk'[c][r] = e
    BY <2>1 DEF Put
  <2> QED BY <2>2 DEF Valid
<1> HIDE DEF V, W
<1>6. \A d \in Conditions : IsFiniteSet(W(d))
  BY <1>1, <1>3, FS_AddElement, FS_Subset
<1>7. ASSUME NEW d \in Conditions
      PROVE  ValidRuns(d)' \in Nat /\ ValidRuns(d) <= ValidRuns(d)'
  BY <1>1, <1>2, <1>6, FS_Subset, FS_CardinalityType
<1>8. ASSUME e.verdict = "COMPLETED"
      PROVE  ValidRuns(c) + 1 <= ValidRuns(c)'
  <2>1. V(c) \cup {r} \in SUBSET W(c)
    BY <1>1, <1>5, <1>8
  <2>2. Cardinality(V(c) \cup {r}) <= Cardinality(W(c))
    BY <1>6, <2>1, FS_Subset
  <2>3. Cardinality(V(c) \cup {r}) = Cardinality(V(c)) + 1
    BY <1>3, <1>4, FS_AddElement
  <2> QED BY <1>2, <2>2, <2>3
<1> QED BY <1>7, <1>8

\* Steps that touch neither evidence nor records.
LEMMA QuietClaims ==
  ASSUME TypeOK, Claims,
         \/ Operator \/ SkipBlock \/ OpenBlock \/ BeginRuns \/ CloseBlock \/ CloseSession
         \/ Raise \/ Crash \/ CrashInStateFile
         \/ \E c \in Conditions : NothingToRecover(c)
  PROVE  Claims'
<1> DEFINE SameBaselines ==
             /\ DOMAIN sessions' = DOMAIN sessions
             /\ \A s \in DOMAIN sessions : sessions'[s].baseline = sessions[s].baseline
<1>1. UNCHANGED <<disk, ledger>>
  BY DEF Operator, StartSession, ResumeSession, SkipBlock, OpenBlock, BeginRuns,
         CloseBlock, CloseSession, Raise, Crash, CrashInStateFile, NothingToRecover, durable
<1>2. /\ \A c : ValidRuns(c)' = ValidRuns(c)
      /\ \A c \in Conditions : ValidRuns(c)' \in Nat /\ ValidRuns(c) <= ValidRuns(c)'
      /\ Baseline' = Baseline
  <2>1. \A c : ValidRuns(c)' = ValidRuns(c)
    BY <1>1 DEF ValidRuns, Valid
  <2>2. \A c \in Conditions : ValidRuns(c) \in Nat
    BY ValidFinite
  <2> QED BY <2>1, <2>2 DEF Baseline
<1>3. ASSUME SameBaselines
      PROVE  /\ RecordsOfSessions' /\ ClaimsCovered'
             /\ \A s, c : Recorded(s, c)' = Recorded(s, c)
  BY <1>1, <1>2, <1>3, ClaimsStay DEF Claims
<1>4. ASSUME NEW s \in DOMAIN sessions, NEW x,
             \/ sessions' = [sessions EXCEPT ![s].blocks = x]
             \/ sessions' = [sessions EXCEPT ![s].status = x]
      PROVE  SameBaselines
  <2>1. DOMAIN sessions' = DOMAIN sessions /\ sessions'[s].baseline = sessions[s].baseline
    BY <1>4, BaselineKept
  <2>2. \A t \in DOMAIN sessions : t # s => sessions'[t] = sessions[t]
    BY <1>4 DEF TypeOK
  <2> QED BY <2>1, <2>2
<1>5. ASSUME NEW b \in MinBlocks .. MaxBlocks, StartSession(b)
      PROVE  Claims'
  <2> DEFINE new == [baseline |-> Baseline, blocks |-> <<>>, status |-> "RUNNING"]
  <2>1. sessions' = Append(sessions, new) /\ sessions \in Seq(Session)
    BY <1>5 DEF StartSession, TypeOK
  <2>2. new.baseline = Baseline
    OBVIOUS
  <2> HIDE DEF new
  <2>3. /\ \A s \in DOMAIN sessions : s \in DOMAIN sessions' /\ sessions'[s] = sessions[s]
        /\ \A s \in DOMAIN sessions' \ DOMAIN sessions : sessions'[s] = new
    BY <2>1
  <2>4. RecordsOfSessions' /\ ClaimsCovered'
    BY <1>1, <1>2, <2>2, <2>3, ClaimsStay DEF Claims
  <2>5. pc' = "open"
    BY <1>5 DEF StartSession, Enter
  <2> QED BY <2>4, <2>5 DEF Claims, ClaimsInProgress
<1>6. ASSUME NEW b \in MinBlocks .. MaxBlocks, NEW s \in DOMAIN sessions, ResumeSession(s, b)
      PROVE  Claims'
  <2>1. sessions' = sessions /\ pc' = "open"
    BY <1>6 DEF ResumeSession, Enter
  <2> QED BY <1>3, <2>1 DEF Claims, ClaimsInProgress
<1>7. CASE OpenBlock
  <2> DEFINE s == at.session
  <2>1. s \in DOMAIN sessions
    BY <1>7 DEF OpenBlock, TypeOK
  <2>2. sessions' = [sessions EXCEPT ![s].blocks =
                       IF BlockStatus(s, at.block) = "ABSENT"
                         THEN Append(sessions[s].blocks, "RUNNING")
                         ELSE sessions[s].blocks]
    BY <1>7 DEF OpenBlock
  <2>3. SameBaselines
    BY <1>4, <2>1, <2>2
  <2>4. /\ pc' = "recover" /\ todo' = Conditions /\ at' = at
        /\ assigned' = Assigned(s)
    BY <1>7 DEF OpenBlock
  <2>5. \A c \in Conditions : assigned'[c] = Cardinality(Recorded(s, c)')
    BY <1>3, <2>3, <2>4 DEF Assigned
  <2> QED BY <1>3, <2>3, <2>4, <2>5 DEF Claims, ClaimsInProgress
<1>8. CASE CloseBlock \/ CloseSession
  <2>1. at.session \in DOMAIN sessions
    BY <1>8 DEF CloseBlock, CloseSession, TypeOK
  <2>2. \/ sessions' = [sessions EXCEPT ![at.session].blocks =
                          [sessions[at.session].blocks EXCEPT ![at.block] = "COMPLETED"]]
        \/ sessions' = [sessions EXCEPT ![at.session].status = "COMPLETED"]
    BY <1>8 DEF CloseBlock, CloseSession
  <2>3. SameBaselines
    BY <1>4, <2>1, <2>2
  <2>4. pc' \in {"open", "idle"}
    BY <1>8 DEF CloseBlock, CloseSession, Exit
  <2> QED BY <1>3, <2>3, <2>4 DEF Claims, ClaimsInProgress
<1>9. CASE SkipBlock \/ BeginRuns \/ Raise \/ Crash \/ CrashInStateFile
  <2>1. sessions' = sessions /\ pc' \in {"open", "run", "idle"}
    BY <1>9 DEF SkipBlock, BeginRuns, Raise, Crash, CrashInStateFile, Exit, durable
  <2> QED BY <1>3, <2>1 DEF Claims, ClaimsInProgress
<1>10. ASSUME NEW c \in Conditions, NothingToRecover(c)
       PROVE  Claims'
  <2>1. /\ sessions' = sessions /\ pc = "recover" /\ pc' = "recover"
        /\ todo' = todo \ {c} /\ UNCHANGED <<assigned, at>>
    BY <1>10 DEF NothingToRecover, durable
  <2>2. \A d \in todo : assigned[d] = Cardinality(Recorded(at.session, d))
    BY <2>1 DEF Claims, ClaimsInProgress
  <2> QED BY <1>3, <2>1, <2>2 DEF Claims, ClaimsInProgress
<1> QED BY <1>5, <1>6, <1>7, <1>8, <1>9, <1>10 DEF Operator

\* A run that is started, or gets its summary: the session has one run more to claim
\* when the summary is valid.
LEMMA EvidenceClaims ==
  ASSUME TypeOK, Measuring, Claims,
         \/ \E c \in Conditions : StartRun(c)
         \/ SummaryValid \/ SummaryInvalid \/ CrashInSummary
  PROVE  Claims'
<1>1. UNCHANGED <<ledger, sessions>>
  BY DEF StartRun, SummaryValid, SummaryInvalid, CrashInSummary
<1>2. ASSUME NEW c \in Conditions, StartRun(c)
      PROVE  Claims'
  <2> DEFINE r == NextRepeat(c)
             e == [verdict |-> "NONE", by |-> at.session]
  <2>1. disk' = [disk EXCEPT ![c] = Put(@, r, e)] /\ pc' = "measuring"
    BY <1>2 DEF StartRun
  <2>2. r \notin DOMAIN disk[c]
    BY NextRepeatFresh DEF TypeOK
  <2> HIDE DEF r, e
  <2>3. \A d \in Conditions : ValidRuns(d)' \in Nat /\ ValidRuns(d) <= ValidRuns(d)'
    BY <2>1, <2>2, FilingAdds
  <2> QED BY <1>1, <2>1, <2>3, ClaimsStay DEF Claims, ClaimsInProgress
<1>3. CASE SummaryValid \/ SummaryInvalid \/ CrashInSummary
  <2>1. PICK v \in Verdicts :
               FileSummary(v) /\ (SummaryValid => v = "COMPLETED")
                 /\ (~SummaryValid => v # "COMPLETED")
    BY <1>3 DEF SummaryValid, SummaryInvalid, CrashInSummary, FileSummary, Verdicts
  <2>2. pc = "measuring" /\ at.session \in DOMAIN sessions
    BY <1>3 DEF SummaryValid, SummaryInvalid, CrashInSummary, TypeOK
  <2>3. PICK c \in Conditions, r \in Nat : run.condition = c /\ run.repeat = r
    BY DEF TypeOK
  <2>4. PICK e : e = [verdict |-> v, by |-> at.session]
    OBVIOUS
  <2>5. disk' = [disk EXCEPT ![c] = Put(@, r, e)]
    BY <2>1, <2>3, <2>4 DEF FileSummary
  <2>6. disk[c][r].verdict = "NONE" /\ disk[c][r].by = e.by /\ e.verdict = v
    BY <2>2, <2>3, <2>4 DEF Measuring, BlankDirectory
  <2>7. /\ \A d \in Conditions : ValidRuns(d)' \in Nat /\ ValidRuns(d) <= ValidRuns(d)'
        /\ v = "COMPLETED" => ValidRuns(c) + 1 <= ValidRuns(c)'
    BY <2>5, <2>6, FilingAdds
  <2>8. /\ RecordsOfSessions' /\ ClaimsCovered'
        /\ \A s, d : Recorded(s, d)' = Recorded(s, d)
    BY <1>1, <2>7, ClaimsStay DEF Claims
  <2>9. pc' = "idle" \/ (pc' = "summarised" /\ UNCHANGED <<at, run>>)
    BY <1>3 DEF SummaryValid, SummaryInvalid, CrashInSummary, Exit, local
  <2>10. disk'[c][r].verdict = v
    BY <2>1, <2>2, <2>3, FileSummaryType
  <2>11. ASSUME v = "COMPLETED"
         PROVE  Cardinality(Recorded(at.session, c)) + 1
                  <= ValidRuns(c)' - sessions[at.session].baseline[c]
    <3>1. Cardinality(Recorded(at.session, c)) <= ValidRuns(c) - sessions[at.session].baseline[c]
      BY <2>2 DEF Claims, ClaimsCovered
    <3>2. /\ Cardinality(Recorded(at.session, c)) \in Nat /\ ValidRuns(c) \in Nat
          /\ sessions[at.session].baseline[c] \in Nat
      BY <2>2, CountTypes
    <3> QED BY <2>7, <2>11, <3>1, <3>2
  <2>12. ClaimsInProgress'
    <3>1. CASE pc' = "idle"
      BY <3>1 DEF ClaimsInProgress
    <3>2. CASE pc' = "summarised" /\ UNCHANGED <<at, run>>
      <4>1. v = "COMPLETED" => Room(at.session, run.condition)'
        BY <1>1, <2>3, <2>8, <2>11, <3>2 DEF Room
      <4> QED BY <2>3, <2>10, <3>2, <4>1 DEF ClaimsInProgress
    <3> QED BY <2>9, <3>1, <3>2
  <2> QED BY <2>8, <2>12 DEF Claims
<1> QED BY <1>2, <1>3

\* A record of a run that was recovered or has returned had room.
LEMMA RecordClaims ==
  ASSUME TypeOK, Claims,
         \/ \E c \in Conditions : Recover(c) \/ SkipCondition(c)
         \/ RunFails \/ RunReturns
  PROVE  Claims'
<1> USE DEF RecordStatus
<1>1. ASSUME NEW c \in Conditions, Recover(c)
      PROVE  Claims'
  <2>1. /\ pc = "recover" /\ pc' = "recover" /\ c \in todo /\ MustRecover(c)
        /\ Record(c, "COMPLETED", LatestSelectedRun(c))
        /\ todo' = todo \ {c} /\ UNCHANGED <<disk, sessions, at, assigned>>
    BY <1>1 DEF Recover
  <2>2. at.session \in DOMAIN sessions
    BY <2>1 DEF TypeOK
  <2>3. /\ Cardinality(Recorded(at.session, c)) \in Nat /\ ValidRuns(c) \in Nat
        /\ sessions[at.session].baseline[c] \in Nat
    BY <2>2, CountTypes
  <2>4. \A d \in todo : assigned[d] = Cardinality(Recorded(at.session, d))
    BY <2>1 DEF Claims, ClaimsInProgress
  <2>5. Room(at.session, c)
    BY <2>1, <2>3, <2>4 DEF Room, MustRecover, NewValidRuns
  <2>6. LatestSelectedRun(c) \in Nat
    <3>1. assigned[c] \in Nat
      BY DEF TypeOK
    <3>2. ValidRuns(c) > 0
      BY <2>1, <2>3, <3>1 DEF MustRecover, NewValidRuns
    <3> QED BY <3>2, ValidFinite, LatestIsValid
  <2>7. /\ RecordsOfSessions' /\ ClaimsCovered'
        /\ \A s, d : d # c => Recorded(s, d)' = Recorded(s, d)
    BY <2>1, <2>5, <2>6, ClaimRecorded DEF Claims
  <2> QED BY <2>1, <2>4, <2>7 DEF Claims, ClaimsInProgress
<1>2. ASSUME NEW c \in Conditions, SkipCondition(c)
      PROVE  Claims'
  <2>1. /\ pc = "run" /\ pc' = "run" /\ Record(c, "SKIPPED", 0)
        /\ UNCHANGED <<disk, sessions>>
    BY <1>2 DEF SkipCondition
  <2>2. RecordsOfSessions' /\ ClaimsCovered'
    BY <2>1, ClaimRecorded DEF Claims
  <2> QED BY <2>1, <2>2 DEF Claims, ClaimsInProgress
<1>3. CASE RunFails \/ RunReturns
  <2> DEFINE v == disk[run.condition][run.repeat].verdict
  <2>1. run.condition \in Conditions /\ run.repeat \in Nat
    BY DEF TypeOK
  <2>2. /\ pc \in {"measuring", "summarised"} /\ pc' = "run"
        /\ \E f \in RecordStatus :
             /\ Record(run.condition, f, run.repeat)
             /\ f = "COMPLETED" => pc = "summarised" /\ v = "COMPLETED"
        /\ UNCHANGED <<disk, sessions>>
    BY <1>3 DEF RunFails, RunReturns, RunRecorded, TypeOK
  <2>3. PICK f \in RecordStatus :
             /\ Record(run.condition, f, run.repeat)
             /\ f = "COMPLETED" => pc = "summarised" /\ v = "COMPLETED"
    BY <2>2
  <2>4. f = "COMPLETED" => Room(at.session, run.condition)
    BY <2>3 DEF Claims, ClaimsInProgress
  <2> HIDE DEF v
  <2>5. RecordsOfSessions' /\ ClaimsCovered'
    BY <2>1, <2>2, <2>3, <2>4, ClaimRecorded DEF Claims
  <2> QED BY <2>2, <2>5 DEF Claims, ClaimsInProgress
<1> QED BY <1>1, <1>2, <1>3

LEMMA NextClaims == TypeOK /\ Measuring /\ Claims /\ [Next]_vars => Claims'
<1> SUFFICES ASSUME TypeOK, Measuring, Claims, [Next]_vars
             PROVE  Claims'
  OBVIOUS
<1>1. CASE UNCHANGED vars
  <2>1. UNCHANGED <<disk, ledger, sessions, pc, at, todo, assigned, run>>
    BY <1>1 DEF vars, durable, local
  <2>2. /\ \A c : ValidRuns(c)' = ValidRuns(c)
        /\ \A s, c : Recorded(s, c)' = Recorded(s, c)
    BY <2>1 DEF ValidRuns, Valid, Recorded
  <2> QED BY <2>1, <2>2
          DEF Claims, RecordsOfSessions, ClaimsCovered, ClaimsInProgress, Room
<1> QED BY <1>1, QuietClaims, EvidenceClaims, RecordClaims DEF Next, Step, Host

\* The records of a session are covered by valid runs that came after its baseline,
\* whichever session the operator resumes when (baseline.py:145-202).
THEOREM ClaimsAreCovered == Spec => []ClaimsCovered
<1>1. Init => TypeOK /\ Measuring /\ Claims
  BY InitTypeOK, InitMeasuring, InitClaims
<1>2. TypeOK /\ Measuring /\ Claims /\ [Next]_vars => (TypeOK /\ Measuring /\ Claims)'
  BY NextTypeOK, NextMeasuring, NextClaims
<1>3. Claims => ClaimsCovered
  BY DEF Claims
<1> QED BY <1>1, <1>2, <1>3, PTL DEF Spec

=============================================================================
