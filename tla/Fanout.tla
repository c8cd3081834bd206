------------------------------- MODULE Fanout -------------------------------
(***************************************************************************)
(* FanoutController: one request calls every target, one after the other   *)
(* or each in a virtual thread of its own, within one time budget, and     *)
(* answers with an outcome per target. In parallel mode the controller     *)
(* collects the futures in the order of the targets and cancels those that *)
(* are not done when the budget is spent. Cancelling waits for nobody: the *)
(* thread of a cancelled future goes on until it notices the interrupt, so *)
(* a future and its thread are two pieces of state. The thread of the      *)
(* request may itself be interrupted (the server shuts down), once.        *)
(*                                                                         *)
(* External, from how the code uses it: the targets. A target goes on with *)
(* its work when its caller is interrupted, and may never answer: the      *)
(* client has no timeout. A Java Error in a thread is left out.            *)
(***************************************************************************)
EXTENDS Naturals, Sequences

CONSTANT TargetCount

ASSUME FanoutAssumption == TargetCount \in Nat \ {0}

VARIABLES
  request,    \* mode and allowPartial of the request
  pc,         \* where the controller is
  next,       \* target that it calls or whose future it collects
  spent,      \* the deadline has passed
  interrupt,  \* of the thread of the request: PENDING until an exception takes it
  thread,     \* thread[i]: how far call(i, ...) is, in a thread or inline
  future,     \* future[i]: OPEN, or the outcome that was set first
  target,     \* target[i]: what target i does for the call
  outcomes,   \* outcomes so far
  answer      \* status of the response

vars == <<request, pc, next, spent, interrupt, thread, future, target, outcomes, answer>>

-----------------------------------------------------------------------------

Targets == 1 .. TargetCount

Outcome(i, status) == [target |-> i, status |-> status]

\* A future that will not change any more.
Done(i) == future[i] # "OPEN"

\* The outcome of a call becomes that of its future, unless it was cancelled.
Complete(i, status) ==
  future' = IF Done(i) THEN future ELSE [future EXCEPT ![i] = status]

Init ==
  /\ request \in [mode : {"SEQUENTIAL", "PARALLEL"}, allowPartial : BOOLEAN]
  /\ pc = "NEW"
  /\ next = 1
  /\ spent = FALSE
  /\ interrupt = "NONE"
  /\ thread = [i \in Targets |-> "NONE"]
  /\ future = [i \in Targets |-> "OPEN"]
  /\ target = [i \in Targets |-> "IDLE"]
  /\ outcomes = <<>>
  /\ answer = "NONE"

\* System.nanoTime() reaches the deadline.
BudgetSpent ==
  /\ pc \notin {"NEW", "REFUSED"}
  /\ ~spent
  /\ spent' = TRUE
  /\ UNCHANGED <<request, pc, next, interrupt, thread, future, target, outcomes, answer>>

Interrupt ==
  /\ pc \in {"SEQUENTIAL", "PARALLEL", "CANCELLING"}
  /\ interrupt = "NONE"
  /\ interrupt' = "PENDING"
  /\ UNCHANGED <<request, pc, next, spent, thread, future, target, outcomes, answer>>

-----------------------------------------------------------------------------
\* call(index, ...): in the thread of future[i], or in that of the request.

MutSendsAnyway(i) ==
  /\ thread[i] = "SUBMITTED"
  /\ thread' = [thread EXCEPT ![i] = "CHECKED"]
  /\ UNCHANGED <<request, pc, next, spent, interrupt, future, target, outcomes, answer>>

\* The deadline is tested once, before the request to the target is built. The thread
\* of a cancelled future tests it as well, if it had not started.
Check(i) ==
  /\ thread[i] = "SUBMITTED"
  /\ IF spent
       THEN thread' = [thread EXCEPT ![i] = "ENDED"] /\ Complete(i, "TIMED_OUT")
       ELSE thread' = [thread EXCEPT ![i] = "CHECKED"] /\ UNCHANGED future
  /\ UNCHANGED <<request, pc, next, spent, interrupt, target, outcomes, answer>>

\* Nothing is tested again: what has passed since the test does not stop the request.
Send(i) ==
  /\ thread[i] = "CHECKED"
  /\ thread' = [thread EXCEPT ![i] = "CALLING"]
  /\ target' = [target EXCEPT ![i] = "WORKING"]
  /\ UNCHANGED <<request, pc, next, spent, interrupt, future, outcomes, answer>>

\* The answer of the target, or an error.
EndCall(i) ==
  /\ thread[i] = "CALLING"
  /\ thread' = [thread EXCEPT ![i] = "ENDED"]
  /\ \/ target[i] = "ANSWERED" /\ Complete(i, "COMPLETED")
     \/ target[i] = "BROKEN" /\ Complete(i, "FAILED")
  /\ UNCHANGED <<request, pc, next, spent, interrupt, target, outcomes, answer>>

\* A thread that cancel(true) interrupted may notice it, before or in its call. In
\* sequential mode the call is made in the interrupted thread of the request, and
\* fails; the client may keep the interrupt for the next call.
GiveUp(i) ==
  /\ thread[i] \in {"CHECKED", "CALLING"}
  /\ thread' = [thread EXCEPT ![i] = "ENDED"]
  /\ \/ future[i] = "CANCELLED" /\ UNCHANGED <<future, interrupt>>
     \/ /\ request.mode = "SEQUENTIAL" /\ interrupt = "PENDING"
        /\ Complete(i, "FAILED")
        /\ interrupt' \in {"PENDING", "TAKEN"}
  /\ UNCHANGED <<request, pc, next, spent, target, outcomes, answer>>

\* BROKEN is a call that came to nothing, on whichever side.
TargetEnds(i) ==
  /\ target[i] = "WORKING"
  /\ \E end \in {"ANSWERED", "BROKEN"} : target' = [target EXCEPT ![i] = end]
  /\ UNCHANGED <<request, pc, next, spent, interrupt, thread, future, outcomes, answer>>

-----------------------------------------------------------------------------
\* fanout(body, ...).

Collect(i, status) ==
  /\ outcomes' = Append(outcomes, Outcome(i, status))
  /\ next' = next + 1

\* More memory than the 256 MiB that all targets may use together: 400.
Refuse ==
  /\ pc = "NEW"
  /\ pc' = "REFUSED"
  /\ UNCHANGED <<request, next, spent, interrupt, thread, future, target, outcomes, answer>>

\* The deadline is set; in parallel mode every call is submitted.
Start ==
  /\ pc = "NEW"
  /\ IF request.mode = "SEQUENTIAL"
       THEN pc' = "SEQUENTIAL" /\ UNCHANGED thread
       ELSE pc' = "PARALLEL" /\ thread' = [i \in Targets |-> "SUBMITTED"]
  /\ UNCHANGED <<request, next, spent, interrupt, future, target, outcomes, answer>>

CallNext ==
  /\ pc = "SEQUENTIAL"
  /\ next \in Targets
  /\ thread[next] = "NONE"
  /\ thread' = [thread EXCEPT ![next] = "SUBMITTED"]
  /\ UNCHANGED <<request, pc, next, spent, interrupt, future, target, outcomes, answer>>

TakeNext ==
  /\ pc = "SEQUENTIAL"
  /\ next \in Targets
  /\ Done(next)
  /\ Collect(next, future[next])
  /\ UNCHANGED <<request, pc, spent, interrupt, thread, future, target, answer>>

MutCollectsAsDone ==
  /\ pc = "PARALLEL"
  /\ \E i \in Targets :
       /\ Done(i) /\ \A j \in DOMAIN outcomes : outcomes[j].target # i
       /\ Collect(i, future[i])
  /\ UNCHANGED <<request, pc, spent, interrupt, thread, future, target, answer>>

\* future.get(remaining): the result of a future that is done, late or not.
GetResult ==
  /\ pc = "PARALLEL"
  /\ next \in Targets
  /\ Done(next)
  /\ Collect(next, future[next])
  /\ UNCHANGED <<request, pc, spent, interrupt, thread, future, target, answer>>

MutWaitsForResult ==
  /\ pc = "PARALLEL"
  /\ next \in Targets
  /\ spent /\ target[next] # "WORKING" /\ ~Done(next)
  /\ pc' = "CANCELLING"
  /\ UNCHANGED <<request, next, spent, interrupt, thread, future, target, outcomes, answer>>

\* ... and a timeout when the budget is spent and the future is not done.
GetTimesOut ==
  /\ pc = "PARALLEL"
  /\ next \in Targets
  /\ spent /\ ~Done(next)
  /\ pc' = "CANCELLING"
  /\ UNCHANGED <<request, next, spent, interrupt, thread, future, target, outcomes, answer>>

\* An interrupt ends the wait in the same catch (Exception).
GetInterrupted ==
  /\ pc = "PARALLEL"
  /\ next \in Targets
  /\ interrupt = "PENDING" /\ ~Done(next)
  /\ interrupt' = "TAKEN"
  /\ pc' = "CANCELLING"
  /\ UNCHANGED <<request, next, spent, thread, future, target, outcomes, answer>>

\* future.cancel(true), too late for a future that got its result after the wait. The
\* outcome is a timeout whatever ended the wait.
Cancel ==
  /\ pc = "CANCELLING"
  /\ Complete(next, "CANCELLED")
  /\ Collect(next, "TIMED_OUT")
  /\ pc' = "PARALLEL"
  /\ UNCHANGED <<request, spent, interrupt, thread, target, answer>>

CompletedTargets == {i \in DOMAIN outcomes : outcomes[i].status = "COMPLETED"}

MutStatus ==
  IF CompletedTargets # {} THEN IF request.allowPartial THEN "PARTIAL" ELSE "COMPLETED"
                           ELSE "FAILED"

Status ==
  CASE CompletedTargets = DOMAIN outcomes -> "COMPLETED"
    [] CompletedTargets # {} /\ CompletedTargets # DOMAIN outcomes /\ request.allowPartial
         -> "PARTIAL"
    [] OTHER -> "FAILED"

\* shutdownNow() interrupts the threads that are left, which cancel(true) did before,
\* and waits for none.
Answer ==
  /\ pc \in {"SEQUENTIAL", "PARALLEL"}
  /\ next \notin Targets
  /\ answer' = Status
  /\ pc' = "ANSWERED"
  /\ UNCHANGED <<request, next, spent, interrupt, thread, future, target, outcomes>>

-----------------------------------------------------------------------------

Thread(i) == Check(i) \/ Send(i) \/ EndCall(i)
Controller ==
  \/ Refuse \/ Start
  \/ CallNext \/ TakeNext
  \/ GetResult \/ GetTimesOut \/ GetInterrupted \/ Cancel
  \/ Answer

Next ==
  \/ Controller
  \/ BudgetSpent \/ Interrupt
  \/ \E i \in Targets : Thread(i) \/ GiveUp(i) \/ TargetEnds(i)

Spec == Init /\ [][Next]_vars

\* The controller and its threads run and the clock goes on. Nothing is assumed of
\* the targets, nor that an interrupted thread gives up.
FairSpec ==
  /\ Spec
  /\ WF_vars(Controller) /\ WF_vars(BudgetSpent)
  /\ \A i \in Targets : WF_vars(Thread(i))

-----------------------------------------------------------------------------
\* Properties.

\* The shape of the state.
TypeOK ==
  /\ request \in [mode : {"SEQUENTIAL", "PARALLEL"}, allowPartial : BOOLEAN]
  /\ pc \in {"NEW", "REFUSED", "SEQUENTIAL", "PARALLEL", "CANCELLING", "ANSWERED"}
  /\ next \in 1 .. TargetCount + 1
  /\ spent \in BOOLEAN
  /\ interrupt \in {"NONE", "PENDING", "TAKEN"}
  /\ thread \in [Targets -> {"NONE", "SUBMITTED", "CHECKED", "CALLING", "ENDED"}]
  /\ future \in [Targets -> {"OPEN", "COMPLETED", "FAILED", "TIMED_OUT", "CANCELLED"}]
  /\ target \in [Targets -> {"IDLE", "WORKING", "ANSWERED", "BROKEN"}]
  /\ outcomes \in Seq([target : Targets, status : {"COMPLETED", "FAILED", "TIMED_OUT"}])
  /\ answer \in {"NONE", "COMPLETED", "PARTIAL", "FAILED"}

\* The outcomes are those of the targets, each once and in their order, and each is
\* true: COMPLETED is what the target did, FAILED and TIMED_OUT have a broken call, a
\* spent budget or an interrupted request behind them.
OutcomesAreTrue ==
  /\ Len(outcomes) = next - 1
  /\ \A i \in DOMAIN outcomes :
       /\ outcomes[i].target = i
       /\ CASE outcomes[i].status = "COMPLETED" -> target[i] = "ANSWERED"
            [] outcomes[i].status = "FAILED" -> target[i] = "BROKEN" \/ interrupt # "NONE"
            [] OTHER -> spent \/ interrupt # "NONE"

\* COMPLETED is answered just when every outcome is COMPLETED, PARTIAL just when some
\* are, others are not and the client allows it, and FAILED otherwise. A completed
\* outcome is a target that answered, and none of those is left out of a response
\* within the budget to a request that was not interrupted.
AnswerIsTrue ==
  LET Good == {i \in Targets : outcomes[i].status = "COMPLETED"}
      Answered == {i \in Targets : target[i] = "ANSWERED"}
  IN  pc = "ANSWERED" =>
        /\ answer = "COMPLETED" <=> Good = Targets
        /\ answer = "PARTIAL" <=> Good \notin {{}, Targets} /\ request.allowPartial
        /\ answer = "FAILED" <=>
             Good = {} \/ (Good # Targets /\ ~request.allowPartial)
        /\ Good \subseteq Answered
        /\ ~spent /\ interrupt = "NONE" => Answered \subseteq Good

\* After the response no call of the request passes its deadline test any more, unless
\* the request was interrupted: whatever is not over was given up because the budget
\* was spent. A call that had passed the test before may still be sent.
NoCallBegunLate ==
  [][pc = "ANSWERED" /\ interrupt = "NONE" =>
       \A i \in Targets : thread'[i] = "CHECKED" => thread[i] = "CHECKED"]_vars

\* A parallel request is answered even when targets never answer, because the budget
\* is spent some day; a sequential one only as far as the targets that it calls do
\* answer, because a call that has begun is not given up (FanoutController.java:26).
ParallelAnswered == pc = "PARALLEL" ~> pc = "ANSWERED"
SequentialAnswered ==
  (\A i \in Targets : []<>(target[i] # "WORKING")) =>
    (pc = "SEQUENTIAL" ~> pc = "ANSWERED")

RequestAnswered == ParallelAnswered /\ SequentialAnswered

=============================================================================
