--------------------------- MODULE Fanout_proofs ---------------------------
(***************************************************************************)
(* What the answer of the fan-out says is true, and no call passes its     *)
(* deadline test after it, for any number of targets. The invariant ties   *)
(* what has been collected to the futures, the futures to their threads    *)
(* and the threads to the targets.                                         *)
(***************************************************************************)
EXTENDS Fanout, TLAPS

\* What a future that is done says of its thread, its target and the budget, and what
\* a thread says of its target.
FuturesAreTrue ==
  \A i \in Targets :
    /\ future[i] = "COMPLETED" => target[i] = "ANSWERED"
    /\ future[i] = "FAILED" => target[i] = "BROKEN" \/ interrupt # "NONE"
    /\ future[i] = "TIMED_OUT" => spent
    /\ future[i] = "CANCELLED" => spent \/ interrupt # "NONE"
    /\ future[i] \in {"COMPLETED", "FAILED", "TIMED_OUT"} => thread[i] = "ENDED"
    /\ thread[i] \in {"NONE", "SUBMITTED", "CHECKED"} => target[i] = "IDLE"

\* The controller collects in order: the futures before next are done, and only
\* they can have been cancelled.
CollectedAreDone ==
  /\ pc = "NEW" => next = 1 /\ \A i \in Targets : thread[i] = "NONE"
  /\ pc = "CANCELLING" => next \in Targets
  /\ \A i \in Targets :
       /\ i < next => Done(i)
       /\ future[i] = "CANCELLED" => i < next

\* The wait for a future is given up for a reason.
WaitIsOver == pc = "CANCELLING" => spent \/ interrupt # "NONE"

\* The answer is drawn once, from the outcomes of all targets.
AnswerIsStatus ==
  IF pc = "ANSWERED" THEN next = TargetCount + 1 /\ answer = Status
                     ELSE answer = "NONE"

IInv ==
  /\ TypeOK
  /\ OutcomesAreTrue
  /\ FuturesAreTrue
  /\ CollectedAreDone
  /\ WaitIsOver
  /\ AnswerIsStatus

-----------------------------------------------------------------------------

LEMMA StatusType == Status \in {"COMPLETED", "PARTIAL", "FAILED"}
BY DEF Status

LEMMA InitIInv == Init => IInv
<1> SUFFICES ASSUME Init
             PROVE  IInv
  OBVIOUS
<1>1. next \in 1 .. TargetCount + 1
  BY FanoutAssumption DEF Init
<1>2. TypeOK
  <2>1. outcomes \in Seq([target : Targets, status : {"COMPLETED", "FAILED", "TIMED_OUT"}])
    BY DEF Init
  <2> QED BY <1>1, <2>1 DEF Init, TypeOK
<1>3. OutcomesAreTrue
  BY DEF Init, OutcomesAreTrue
<1>4. FuturesAreTrue
  BY DEF Init, FuturesAreTrue
<1>5. CollectedAreDone /\ WaitIsOver /\ AnswerIsStatus
  BY DEF Init, CollectedAreDone, WaitIsOver, AnswerIsStatus, Targets, Done
<1> QED BY <1>2, <1>3, <1>4, <1>5 DEF IInv

-----------------------------------------------------------------------------

\* A step that collects nothing keeps what is known of the outcomes and the answer, if
\* it changes no future that is done, cancels none, and changes no target that is done.
LEMMA NothingCollected ==
  ASSUME IInv, UNCHANGED <<request, pc, next, outcomes, answer>>,
         spent => spent', interrupt # "NONE" => interrupt' # "NONE",
         pc = "NEW" => UNCHANGED thread,
         \A i \in Targets : future'[i] = future[i] \/ (~Done(i) /\ future'[i] # "CANCELLED"),
         \A i \in Targets : target[i] \in {"ANSWERED", "BROKEN"} => target'[i] = target[i]
  PROVE  OutcomesAreTrue' /\ CollectedAreDone' /\ WaitIsOver' /\ AnswerIsStatus'
<1>1. DOMAIN outcomes = 1 .. next - 1 /\ 1 .. next - 1 \subseteq Targets
  BY FanoutAssumption DEF IInv, TypeOK, OutcomesAreTrue, Targets
<1>2. Len(outcomes') = next' - 1
  BY DEF IInv, OutcomesAreTrue
<1>3. ASSUME NEW i \in DOMAIN outcomes'
      PROVE  /\ outcomes'[i].target = i
             /\ CASE outcomes'[i].status = "COMPLETED" -> target'[i] = "ANSWERED"
                  [] outcomes'[i].status = "FAILED" ->
                       target'[i] = "BROKEN" \/ interrupt' # "NONE"
                  [] OTHER -> spent' \/ interrupt' # "NONE"
  <2>1. i \in DOMAIN outcomes /\ i \in Targets
    BY <1>1, <1>3
  <2>2. target[i] \in {"ANSWERED", "BROKEN"} => target'[i] = target[i]
    BY <2>1
  <2> QED BY <2>1, <2>2 DEF IInv, OutcomesAreTrue
<1>4. OutcomesAreTrue'
  BY <1>2, <1>3 DEF OutcomesAreTrue
<1>5. CollectedAreDone'
  BY DEF IInv, CollectedAreDone, Done
<1>6. WaitIsOver' /\ AnswerIsStatus'
  BY DEF IInv, WaitIsOver, AnswerIsStatus, Status, CompletedTargets
<1> QED BY <1>4, <1>5, <1>6

\* One more outcome, that of the next target, whose future is done.
LEMMA Collected ==
  ASSUME IInv, next \in Targets, NEW stat \in {"COMPLETED", "FAILED", "TIMED_OUT"},
         Collect(next, stat), UNCHANGED <<request, spent, interrupt, target>>,
         stat = "COMPLETED" => target[next] = "ANSWERED",
         stat = "FAILED" => target[next] = "BROKEN" \/ interrupt # "NONE",
         stat = "TIMED_OUT" => spent \/ interrupt # "NONE"
  PROVE  /\ next' \in 1 .. TargetCount + 1
         /\ outcomes' \in Seq([target : Targets, status : {"COMPLETED", "FAILED", "TIMED_OUT"}])
         /\ OutcomesAreTrue'
<1> DEFINE Outcomes == [target : Targets, status : {"COMPLETED", "FAILED", "TIMED_OUT"}]
           e == Outcome(next, stat)
<1>1. e \in Outcomes /\ e.target = next /\ e.status = stat
  BY DEF Outcome
<1>2. outcomes \in Seq(Outcomes) /\ Len(outcomes) = next - 1 /\ next \in Nat
  BY DEF IInv, TypeOK, OutcomesAreTrue, Targets
<1>3. outcomes' = Append(outcomes, e) /\ next' = next + 1
  BY DEF Collect
<1>4. next' \in 1 .. TargetCount + 1
  BY <1>3, FanoutAssumption DEF Targets
<1> HIDE DEF e, Outcomes
<1>5. /\ outcomes' \in Seq(Outcomes)
      /\ Len(outcomes') = next' - 1
      /\ outcomes'[next] = e
      /\ \A i \in DOMAIN outcomes : outcomes'[i] = outcomes[i]
      /\ DOMAIN outcomes' = DOMAIN outcomes \cup {next}
  BY <1>1, <1>2, <1>3
<1>6. ASSUME NEW i \in DOMAIN outcomes'
      PROVE  /\ outcomes'[i].target = i
             /\ CASE outcomes'[i].status = "COMPLETED" -> target'[i] = "ANSWERED"
                  [] outcomes'[i].status = "FAILED" ->
                       target'[i] = "BROKEN" \/ interrupt' # "NONE"
                  [] OTHER -> spent' \/ interrupt' # "NONE"
  <2>1. CASE i = next
    BY <2>1, <1>1, <1>5
  <2>2. CASE i \in DOMAIN outcomes
    BY <2>2, <1>5 DEF IInv, OutcomesAreTrue
  <2> QED BY <2>1, <2>2, <1>5, <1>6
<1> QED BY <1>4, <1>5, <1>6 DEF OutcomesAreTrue, Outcomes

\* What Complete does to the futures.
LEMMA Completed ==
  ASSUME IInv, NEW i \in Targets,
         NEW stat \in {"COMPLETED", "FAILED", "TIMED_OUT", "CANCELLED"}, Complete(i, stat)
  PROVE  /\ future' \in [Targets -> {"OPEN", "COMPLETED", "FAILED", "TIMED_OUT", "CANCELLED"}]
         /\ \A j \in Targets \ {i} : future'[j] = future[j]
         /\ future'[i] = IF Done(i) THEN future[i] ELSE stat
BY DEF IInv, TypeOK, Complete, Done

-----------------------------------------------------------------------------

\* The steps of call(i, ...), each in its thread.
LEMMA ThreadsKeep == ASSUME IInv, NEW i \in Targets, Thread(i) \/ GiveUp(i) PROVE IInv'
<1>1. UNCHANGED <<request, pc, next, spent, outcomes, answer>>
  BY DEF Thread, GiveUp, Check, Send, EndCall
<1>2. thread[i] # "NONE" /\ thread[i] # "ENDED"
  BY DEF Thread, GiveUp, Check, Send, EndCall
<1>3. pc # "NEW"
  BY <1>2 DEF IInv, CollectedAreDone
<1>4. /\ thread' \in [Targets -> {"NONE", "SUBMITTED", "CHECKED", "CALLING", "ENDED"}]
      /\ \A j \in Targets \ {i} : thread'[j] = thread[j]
  BY DEF Thread, GiveUp, Check, Send, EndCall, IInv, TypeOK
<1>5. interrupt' \in {"NONE", "PENDING", "TAKEN"} /\ (interrupt # "NONE" => interrupt' # "NONE")
  BY DEF Thread, GiveUp, Check, Send, EndCall, IInv, TypeOK
<1>6. future[i] \in {"OPEN", "CANCELLED"}
  BY <1>2 DEF IInv, TypeOK, FuturesAreTrue
<1> DEFINE F == {"OPEN", "COMPLETED", "FAILED", "TIMED_OUT", "CANCELLED"}
<1>7. /\ future' \in [Targets -> F]
      /\ target' \in [Targets -> {"IDLE", "WORKING", "ANSWERED", "BROKEN"}]
      /\ \A j \in Targets \ {i} : future'[j] = future[j] /\ target'[j] = target[j]
      /\ target[i] \in {"ANSWERED", "BROKEN"} => target'[i] = target[i]
      /\ \/ future'[i] = future[i] /\ (future[i] = "OPEN" => thread'[i] # "ENDED")
            /\ (thread'[i] \in {"NONE", "SUBMITTED", "CHECKED"} => target'[i] = "IDLE")
         \/ /\ thread'[i] = "ENDED"
            /\ Done(i) => future'[i] = future[i]
            /\ ~Done(i) => \/ future'[i] = "COMPLETED" /\ target'[i] = "ANSWERED"
                           \/ future'[i] = "FAILED"
                                /\ (target'[i] = "BROKEN" \/ interrupt' # "NONE")
                           \/ future'[i] = "TIMED_OUT" /\ spent
  <2>1. CASE Check(i) /\ spent
    <3>1. thread' = [thread EXCEPT ![i] = "ENDED"] /\ Complete(i, "TIMED_OUT")
          /\ UNCHANGED target
      BY <2>1 DEF Check
    <3>2. thread'[i] = "ENDED"
      BY <3>1 DEF IInv, TypeOK
    <3> QED BY <2>1, <3>1, <3>2, Completed DEF IInv, TypeOK
  <2>2. CASE Check(i) /\ ~spent
    <3>1. thread[i] = "SUBMITTED" /\ thread'[i] = "CHECKED" /\ UNCHANGED <<future, target>>
      BY <2>2 DEF Check, IInv, TypeOK
    <3>2. target[i] = "IDLE"
      BY <3>1 DEF IInv, FuturesAreTrue
    <3> QED BY <3>1, <3>2 DEF IInv, TypeOK
  <2>3. CASE Send(i)
    <3>1. /\ thread[i] = "CHECKED" /\ thread'[i] = "CALLING" /\ UNCHANGED future
          /\ target' = [target EXCEPT ![i] = "WORKING"]
      BY <2>3 DEF Send, IInv, TypeOK
    <3>2. target[i] = "IDLE"
      BY <3>1 DEF IInv, FuturesAreTrue
    <3> QED BY <3>1, <3>2 DEF IInv, TypeOK
  <2>4. CASE EndCall(i)
    <3>1. /\ thread' = [thread EXCEPT ![i] = "ENDED"] /\ UNCHANGED <<target, interrupt>>
          /\ \/ target[i] = "ANSWERED" /\ Complete(i, "COMPLETED")
             \/ target[i] = "BROKEN" /\ Complete(i, "FAILED")
      BY <2>4 DEF EndCall
    <3>2. thread'[i] = "ENDED"
      BY <3>1 DEF IInv, TypeOK
    <3>3. CASE target[i] = "ANSWERED" /\ Complete(i, "COMPLETED")
      BY <3>1, <3>2, <3>3, Completed DEF IInv, TypeOK
    <3>4. CASE target[i] = "BROKEN" /\ Complete(i, "FAILED")
      BY <3>1, <3>2, <3>4, Completed DEF IInv, TypeOK
    <3> QED BY <3>1, <3>3, <3>4
  <2>5. CASE GiveUp(i)
    <3>1. /\ thread' = [thread EXCEPT ![i] = "ENDED"] /\ UNCHANGED target
          /\ \/ future[i] = "CANCELLED" /\ UNCHANGED future
             \/ Complete(i, "FAILED") /\ interrupt' # "NONE"
      BY <2>5 DEF GiveUp
    <3>2. thread'[i] = "ENDED"
      BY <3>1 DEF IInv, TypeOK
    <3>3. CASE future[i] = "CANCELLED" /\ UNCHANGED future
      BY <3>1, <3>2, <3>3 DEF IInv, TypeOK, Done
    <3>4. CASE Complete(i, "FAILED") /\ interrupt' # "NONE"
      BY <3>1, <3>2, <3>4, Completed DEF IInv, TypeOK
    <3> QED BY <3>1, <3>3, <3>4
  <2> QED BY <2>1, <2>2, <2>3, <2>4, <2>5 DEF Thread
<1>8. TypeOK'
  BY <1>1, <1>4, <1>5, <1>7 DEF IInv, TypeOK
<1>9. \A j \in Targets : future'[j] = future[j] \/ (~Done(j) /\ future'[j] # "CANCELLED")
  BY <1>7
<1>10. OutcomesAreTrue' /\ CollectedAreDone' /\ WaitIsOver' /\ AnswerIsStatus'
  BY <1>1, <1>3, <1>5, <1>7, <1>9, NothingCollected
<1>11. FuturesAreTrue'
  <2> SUFFICES ASSUME NEW j \in Targets
               PROVE  /\ future'[j] = "COMPLETED" => target'[j] = "ANSWERED"
                      /\ future'[j] = "FAILED" => target'[j] = "BROKEN" \/ interrupt' # "NONE"
                      /\ future'[j] = "TIMED_OUT" => spent'
                      /\ future'[j] = "CANCELLED" => spent' \/ interrupt' # "NONE"
                      /\ future'[j] \in {"COMPLETED", "FAILED", "TIMED_OUT"} =>
                           thread'[j] = "ENDED"
                      /\ thread'[j] \in {"NONE", "SUBMITTED", "CHECKED"} => target'[j] = "IDLE"
    BY DEF FuturesAreTrue
  <2>1. CASE j # i
    BY <2>1, <1>1, <1>4, <1>5, <1>7 DEF IInv, FuturesAreTrue
  <2>2. CASE j = i
    <3>1. future[i] = "CANCELLED" => spent' \/ interrupt' # "NONE"
      BY <1>1, <1>5 DEF IInv, FuturesAreTrue
    <3> QED BY <2>2, <3>1, <1>1, <1>6, <1>7 DEF Done
  <2> QED BY <2>1, <2>2
<1> QED BY <1>8, <1>10, <1>11 DEF IInv

LEMMA EnvironmentKeeps ==
  IInv /\ (BudgetSpent \/ Interrupt \/ \E i \in Targets : TargetEnds(i)) => IInv'
<1> SUFFICES ASSUME IInv, BudgetSpent \/ Interrupt \/ \E i \in Targets : TargetEnds(i)
             PROVE  IInv'
  OBVIOUS
<1>1. CASE BudgetSpent \/ Interrupt
  <2>1. /\ UNCHANGED <<request, pc, next, thread, future, target, outcomes, answer>>
        /\ spent' \in BOOLEAN /\ (spent => spent')
        /\ interrupt' \in {"NONE", "PENDING", "TAKEN"}
        /\ interrupt # "NONE" => interrupt' # "NONE"
    BY <1>1 DEF BudgetSpent, Interrupt, IInv, TypeOK
  <2>2. TypeOK'
    BY <2>1 DEF IInv, TypeOK
  <2>3. OutcomesAreTrue' /\ CollectedAreDone' /\ WaitIsOver' /\ AnswerIsStatus'
    BY <2>1, NothingCollected
  <2>4. FuturesAreTrue'
    BY <2>1 DEF IInv, FuturesAreTrue
  <2> QED BY <2>2, <2>3, <2>4 DEF IInv
<1>2. ASSUME NEW i \in Targets, TargetEnds(i)
      PROVE  IInv'
  <2>1. /\ UNCHANGED <<request, pc, next, spent, interrupt, thread, future, outcomes, answer>>
        /\ target[i] = "WORKING"
        /\ target' \in [Targets -> {"IDLE", "WORKING", "ANSWERED", "BROKEN"}]
        /\ \A j \in Targets \ {i} : target'[j] = target[j]
    BY <1>2 DEF TargetEnds, IInv, TypeOK
  <2>2. TypeOK'
    BY <2>1 DEF IInv, TypeOK
  <2>3. \A j \in Targets : target[j] \in {"ANSWERED", "BROKEN"} => target'[j] = target[j]
    BY <2>1
  <2>4. OutcomesAreTrue' /\ CollectedAreDone' /\ WaitIsOver' /\ AnswerIsStatus'
    BY <2>1, <2>3, NothingCollected
  <2>5. FuturesAreTrue'
    BY <2>1 DEF IInv, FuturesAreTrue
  <2> QED BY <2>2, <2>4, <2>5 DEF IInv
<1> QED BY <1>1, <1>2

-----------------------------------------------------------------------------

\* The steps of the controller that collect nothing.
LEMMA ControllerGoesOn ==
  IInv /\ (Refuse \/ Start \/ CallNext \/ GetTimesOut \/ GetInterrupted) => IInv'
<1> SUFFICES ASSUME IInv, Refuse \/ Start \/ CallNext \/ GetTimesOut \/ GetInterrupted
             PROVE  IInv'
  OBVIOUS
<1>1. CASE Refuse \/ Start
  <2>1. /\ UNCHANGED <<request, next, spent, interrupt, future, target, outcomes, answer>>
        /\ pc = "NEW" /\ pc' \in {"REFUSED", "SEQUENTIAL", "PARALLEL"}
        /\ thread' = thread \/ thread' = [i \in Targets |-> "SUBMITTED"]
    BY <1>1 DEF Refuse, Start
  <2>2. TypeOK'
    BY <2>1 DEF IInv, TypeOK
  <2>3. \A i \in Targets : thread[i] = "NONE"
    BY <2>1 DEF IInv, CollectedAreDone
  <2>4. FuturesAreTrue'
    BY <2>1, <2>3 DEF IInv, FuturesAreTrue
  <2>5. OutcomesAreTrue'
    BY <2>1 DEF IInv, OutcomesAreTrue
  <2>6. CollectedAreDone' /\ WaitIsOver' /\ AnswerIsStatus'
    BY <2>1 DEF IInv, CollectedAreDone, WaitIsOver, AnswerIsStatus, Done
  <2> QED BY <2>2, <2>4, <2>5, <2>6 DEF IInv
<1>2. CASE CallNext
  <2>1. /\ UNCHANGED <<request, pc, next, spent, interrupt, future, target, outcomes, answer>>
        /\ pc = "SEQUENTIAL" /\ next \in Targets /\ thread[next] = "NONE"
        /\ thread' = [thread EXCEPT ![next] = "SUBMITTED"]
    BY <1>2 DEF CallNext
  <2>2. TypeOK'
    BY <2>1 DEF IInv, TypeOK
  <2>3. OutcomesAreTrue' /\ CollectedAreDone' /\ WaitIsOver' /\ AnswerIsStatus'
    BY <2>1, NothingCollected
  <2>4. FuturesAreTrue'
    BY <2>1 DEF IInv, TypeOK, FuturesAreTrue
  <2> QED BY <2>2, <2>3, <2>4 DEF IInv
<1>3. CASE GetTimesOut \/ GetInterrupted
  <2>1. /\ UNCHANGED <<request, next, spent, thread, future, target, outcomes, answer>>
        /\ pc = "PARALLEL" /\ pc' = "CANCELLING" /\ next \in Targets
        /\ interrupt' \in {"NONE", "PENDING", "TAKEN"}
        /\ interrupt # "NONE" => interrupt' # "NONE"
        /\ spent \/ interrupt' # "NONE"
    BY <1>3 DEF GetTimesOut, GetInterrupted, IInv, TypeOK
  <2>2. TypeOK'
    BY <2>1 DEF IInv, TypeOK
  <2>3. OutcomesAreTrue'
    BY <2>1 DEF IInv, OutcomesAreTrue
  <2>4. FuturesAreTrue' /\ WaitIsOver'
    BY <2>1 DEF IInv, FuturesAreTrue, WaitIsOver
  <2>5. CollectedAreDone' /\ AnswerIsStatus'
    BY <2>1 DEF IInv, CollectedAreDone, AnswerIsStatus, Done
  <2> QED BY <2>2, <2>3, <2>4, <2>5 DEF IInv
<1> QED BY <1>1, <1>2, <1>3

LEMMA ControllerCollects ==
  IInv /\ (TakeNext \/ GetResult \/ Cancel \/ Answer) => IInv'
<1> SUFFICES ASSUME IInv, TakeNext \/ GetResult \/ Cancel \/ Answer
             PROVE  IInv'
  OBVIOUS
<1>0. next \in Nat /\ DOMAIN outcomes = 1 .. next - 1
  BY DEF IInv, TypeOK, OutcomesAreTrue
<1>1. CASE TakeNext \/ GetResult
  <2>1. /\ next \in Targets /\ Done(next) /\ Collect(next, future[next])
        /\ UNCHANGED <<request, pc, spent, interrupt, thread, future, target, answer>>
        /\ pc \in {"SEQUENTIAL", "PARALLEL"}
    BY <1>1 DEF TakeNext, GetResult
  <2>2. future[next] \in {"COMPLETED", "FAILED", "TIMED_OUT"}
    BY <2>1, <1>0 DEF IInv, TypeOK, CollectedAreDone, Done
  <2>3. /\ future[next] = "COMPLETED" => target[next] = "ANSWERED"
        /\ future[next] = "FAILED" => target[next] = "BROKEN" \/ interrupt # "NONE"
        /\ future[next] = "TIMED_OUT" => spent
    BY <2>1 DEF IInv, FuturesAreTrue
  <2>4. /\ next' \in 1 .. TargetCount + 1
        /\ outcomes' \in Seq([target : Targets, status : {"COMPLETED", "FAILED", "TIMED_OUT"}])
        /\ OutcomesAreTrue'
    BY <2>1, <2>2, <2>3, Collected
  <2>5. TypeOK'
    BY <2>1, <2>4 DEF IInv, TypeOK
  <2>6. FuturesAreTrue'
    BY <2>1 DEF IInv, FuturesAreTrue
  <2>7. next' = next + 1
    BY <2>1 DEF Collect
  <2>8. CollectedAreDone'
    BY <2>1, <2>7, <1>0 DEF IInv, CollectedAreDone, Done, Targets
  <2>9. WaitIsOver' /\ AnswerIsStatus'
    BY <2>1 DEF IInv, WaitIsOver, AnswerIsStatus
  <2> QED BY <2>4, <2>5, <2>6, <2>8, <2>9 DEF IInv
<1>2. CASE Cancel
  <2>1. /\ next \in Targets /\ pc = "CANCELLING" /\ pc' = "PARALLEL"
        /\ Complete(next, "CANCELLED") /\ Collect(next, "TIMED_OUT")
        /\ UNCHANGED <<request, spent, interrupt, thread, target, answer>>
    BY <1>2 DEF Cancel, IInv, CollectedAreDone
  <2>2. /\ future' \in [Targets -> {"OPEN", "COMPLETED", "FAILED", "TIMED_OUT", "CANCELLED"}]
        /\ \A j \in Targets \ {next} : future'[j] = future[j]
        /\ future'[next] = IF Done(next) THEN future[next] ELSE "CANCELLED"
    BY <2>1, Completed
  <2>3. spent \/ interrupt # "NONE"
    BY <2>1 DEF IInv, WaitIsOver
  <2>4. /\ next' \in 1 .. TargetCount + 1
        /\ outcomes' \in Seq([target : Targets, status : {"COMPLETED", "FAILED", "TIMED_OUT"}])
        /\ OutcomesAreTrue'
    BY <2>1, <2>3, Collected
  <2>5. TypeOK'
    BY <2>1, <2>2, <2>4 DEF IInv, TypeOK
  <2>6. FuturesAreTrue'
    BY <2>1, <2>2, <2>3 DEF IInv, FuturesAreTrue
  <2>7. next' = next + 1
    BY <2>1 DEF Collect
  <2>8. CollectedAreDone'
    BY <2>1, <2>2, <2>7, <1>0 DEF IInv, CollectedAreDone, Done, Targets
  <2>9. WaitIsOver' /\ AnswerIsStatus'
    BY <2>1 DEF IInv, WaitIsOver, AnswerIsStatus
  <2> QED BY <2>1, <2>4, <2>5, <2>6, <2>8, <2>9 DEF IInv
<1>3. CASE Answer
  <2>1. /\ next \notin Targets /\ answer' = Status /\ pc' = "ANSWERED"
        /\ UNCHANGED <<request, next, spent, interrupt, thread, future, target, outcomes>>
    BY <1>3 DEF Answer
  <2>2. next = TargetCount + 1
    BY <2>1, FanoutAssumption DEF IInv, TypeOK, Targets
  <2>3. TypeOK'
    BY <2>1, StatusType DEF IInv, TypeOK
  <2>4. OutcomesAreTrue' /\ FuturesAreTrue'
    BY <2>1 DEF IInv, OutcomesAreTrue, FuturesAreTrue
  <2>5. CollectedAreDone'
    BY <2>1 DEF IInv, CollectedAreDone, Done
  <2>6. WaitIsOver' /\ AnswerIsStatus'
    BY <2>1, <2>2 DEF WaitIsOver, AnswerIsStatus, Status, CompletedTargets
  <2> QED BY <2>3, <2>4, <2>5, <2>6 DEF IInv
<1> QED BY <1>1, <1>2, <1>3

LEMMA NextIInv == IInv /\ [Next]_vars => IInv'
<1> SUFFICES ASSUME IInv, [Next]_vars
             PROVE  IInv'
  OBVIOUS
<1>1. CASE UNCHANGED vars
  BY <1>1 DEF vars, IInv, TypeOK, OutcomesAreTrue, FuturesAreTrue, CollectedAreDone,
              WaitIsOver, AnswerIsStatus, Status, CompletedTargets, Done
<1>2. CASE Controller
  BY <1>2, ControllerGoesOn, ControllerCollects DEF Controller
<1> QED BY <1>1, <1>2, ThreadsKeep, EnvironmentKeeps DEF Next

LEMMA InvariantHolds == Spec => []IInv
BY InitIInv, NextIInv, PTL DEF Spec

-----------------------------------------------------------------------------

\* What the invariant says of an answer: the outcomes are those of all targets.
LEMMA AnswerFollows == IInv => AnswerIsTrue
<1> DEFINE Good == {i \in Targets : outcomes[i].status = "COMPLETED"}
           Answered == {i \in Targets : target[i] = "ANSWERED"}
<1> SUFFICES ASSUME IInv, pc = "ANSWERED"
             PROVE  /\ answer = "COMPLETED" <=> Good = Targets
                    /\ answer = "PARTIAL" <=> Good \notin {{}, Targets} /\ request.allowPartial
                    /\ answer = "FAILED" <=>
                         Good = {} \/ (Good # Targets /\ ~request.allowPartial)
                    /\ Good \subseteq Answered
                    /\ ~spent /\ interrupt = "NONE" => Answered \subseteq Good
  BY DEF AnswerIsTrue
<1>1. next = TargetCount + 1 /\ answer = Status
  BY DEF IInv, AnswerIsStatus
<1>2. DOMAIN outcomes = Targets /\ Targets # {}
  BY <1>1, FanoutAssumption DEF IInv, TypeOK, OutcomesAreTrue, Targets
<1>3. CompletedTargets = Good
  BY <1>2 DEF CompletedTargets
<1>4. Good # {} \/ Good # Targets
  BY <1>2
<1> HIDE DEF Good
<1>5. /\ answer = "COMPLETED" <=> Good = Targets
      /\ answer = "PARTIAL" <=> Good \notin {{}, Targets} /\ request.allowPartial
      /\ answer = "FAILED" <=> Good = {} \/ (Good # Targets /\ ~request.allowPartial)
  <2>1. CASE Good = Targets
    BY <2>1, <1>1, <1>2, <1>3, <1>4 DEF Status
  <2>2. CASE Good # Targets /\ Good # {} /\ request.allowPartial
    BY <2>2, <1>1, <1>2, <1>3 DEF Status
  <2>3. CASE Good # Targets /\ ~(Good # {} /\ request.allowPartial)
    BY <2>3, <1>1, <1>2, <1>3 DEF Status
  <2> QED BY <2>1, <2>2, <2>3
<1> USE DEF Good
<1>6. ASSUME NEW i \in Targets
      PROVE  CASE outcomes[i].status = "COMPLETED" -> target[i] = "ANSWERED"
               [] outcomes[i].status = "FAILED" -> target[i] = "BROKEN" \/ interrupt # "NONE"
               [] OTHER -> spent \/ interrupt # "NONE"
  BY <1>2, <1>6 DEF IInv, OutcomesAreTrue
<1>7. Good \subseteq Answered
  BY <1>6
<1>8. ~spent /\ interrupt = "NONE" => Answered \subseteq Good
  BY <1>6
<1> QED BY <1>5, <1>7, <1>8

\* A call that passes its deadline test after the response is one that was cancelled
\* before it started, without the budget being spent.
LEMMA LateCallWasInterrupted ==
  ASSUME IInv, [Next]_vars, pc = "ANSWERED", interrupt = "NONE",
         NEW i \in Targets, thread'[i] = "CHECKED"
  PROVE  thread[i] = "CHECKED"
<1> SUFFICES ASSUME thread[i] # "CHECKED"
             PROVE  FALSE
  OBVIOUS
<1>1. PICK j \in Targets : Thread(j) \/ GiveUp(j)
  BY DEF Next, vars, Controller, Refuse, Start, CallNext, TakeNext, GetResult, GetTimesOut,
         GetInterrupted, Cancel, Answer, BudgetSpent, Interrupt, TargetEnds
<1>2. Check(i) /\ ~spent
  BY <1>1 DEF Thread, GiveUp, Check, Send, EndCall, IInv, TypeOK
<1>3. i < next
  BY FanoutAssumption DEF IInv, AnswerIsStatus, Targets
<1>4. Done(i) /\ thread[i] = "SUBMITTED"
  BY <1>2, <1>3 DEF IInv, CollectedAreDone, Check
<1>5. future[i] = "CANCELLED"
  BY <1>4 DEF IInv, TypeOK, FuturesAreTrue, Done
<1> QED BY <1>2, <1>5 DEF IInv, FuturesAreTrue

-----------------------------------------------------------------------------

\* The outcomes are complete, in the order of the targets, and each has behind it what
\* it says: an answer, a broken call, a spent budget or an interrupted request.
THEOREM OutcomesAlwaysTrue == Spec => []OutcomesAreTrue
<1>1. IInv => OutcomesAreTrue
  BY DEF IInv
<1> QED BY <1>1, InvariantHolds, PTL

\* COMPLETED is answered just when every outcome is COMPLETED, PARTIAL just when some
\* are and the client allows it, FAILED otherwise; a target that answered counts when
\* neither the budget nor an interrupt came in between.
THEOREM AnswersAlwaysTrue == Spec => []AnswerIsTrue
BY AnswerFollows, InvariantHolds, PTL

\* After the response to a request that was not interrupted no call passes its deadline
\* test.
THEOREM NoLateCall == Spec => NoCallBegunLate
<1>1. IInv /\ [Next]_vars =>
        [pc = "ANSWERED" /\ interrupt = "NONE" =>
           \A i \in Targets : thread'[i] = "CHECKED" => thread[i] = "CHECKED"]_vars
  BY LateCallWasInterrupted
<1> QED BY <1>1, InvariantHolds, PTL DEF Spec, NoCallBegunLate

=============================================================================
