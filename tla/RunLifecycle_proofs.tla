-------------------------- MODULE RunLifecycle_proofs --------------------------
(***************************************************************************)
(* Proofs about RunLifecycle: the type of the state, what a valid run      *)
(* promises (no restart in its window, an empty namespace, evidence that   *)
(* is complete), the accounts of the leaked marker pods, and that the      *)
(* lifecycle implements RunContract.                                       *)
(*                                                                         *)
(* IInv is inductive. It adds to the properties what _repeat knows at each *)
(* point: that the history can go on, which files are written, that the    *)
(* gate will see every restart since the first snapshot, and, once it has  *)
(* looked, that the factors say so.                                        *)
(***************************************************************************)
EXTENDS RunLifecycle, FiniteSetTheorems, SequenceTheorems, TLAPS

-----------------------------------------------------------------------------
\* Histories.

Names == {"PLANNED", "WARMING_UP", "RUNNING", "COLLECTING", "COMPLETED", "FAILED"}
Prefix(n) == SubSeq(States, 1, n)

LEMMA StateNames ==
  /\ States[1] = "PLANNED" /\ States[2] = "WARMING_UP" /\ States[3] = "RUNNING"
  /\ States[4] = "COLLECTING" /\ States[5] = "COMPLETED"
  /\ \A n \in 1 .. 5 : States[n] \in Names /\ States[n] # "FAILED"
  /\ \A m, n \in 1 .. 5 : States[m] = States[n] => m = n
<1>1. /\ States[1] = "PLANNED" /\ States[2] = "WARMING_UP" /\ States[3] = "RUNNING"
      /\ States[4] = "COLLECTING" /\ States[5] = "COMPLETED"
  BY DEF States
<1>2. \A n \in 1 .. 5 : n \in {1, 2, 3, 4, 5}
  OBVIOUS
<1>3. \A n \in {1, 2, 3, 4, 5} : States[n] \in Names /\ States[n] # "FAILED"
  BY <1>1 DEF Names
<1>4. \A m, n \in {1, 2, 3, 4, 5} : States[m] = States[n] => m = n
  BY <1>1
<1> QED BY <1>1, <1>2, <1>3, <1>4

LEMMA PrefixOfStates ==
  ASSUME NEW n \in 1 .. 5
  PROVE  /\ Prefix(n) \in Seq(Names)
         /\ Len(Prefix(n)) = n
         /\ \A i \in 1 .. n : Prefix(n)[i] = States[i]
<1>1. \A i \in 1 .. n : States[i] \in Names
  BY StateNames
<1> QED BY <1>1, SubSeqProperties DEF Prefix

LEMMA LastOfPrefix ==
  ASSUME NEW n \in 1 .. 5
  PROVE  /\ Last(Prefix(n)) = States[n]
         /\ Last(Append(Prefix(n), "FAILED")) = "FAILED"
         /\ n < 5 => Append(Prefix(n), States[n + 1]) = Prefix(n + 1)
<1>1. Prefix(n) \in Seq(Names) /\ Len(Prefix(n)) = n /\ Prefix(n)[n] = States[n]
  <2>1. n \in 1 .. n
    OBVIOUS
  <2> QED BY <2>1, PrefixOfStates
<1>2. Last(Prefix(n)) = States[n] /\ Last(Append(Prefix(n), "FAILED")) = "FAILED"
  BY <1>1 DEF Last
<1>3. ASSUME n < 5
      PROVE  Append(Prefix(n), States[n + 1]) = Prefix(n + 1)
  <2>1. n + 1 \in 1 .. 5
    BY <1>3
  <2>2. /\ Prefix(n + 1) \in Seq(Names) /\ Len(Prefix(n + 1)) = n + 1
        /\ \A i \in 1 .. n + 1 : Prefix(n + 1)[i] = States[i]
    BY <2>1, PrefixOfStates
  <2>3. \A i \in 1 .. n : Prefix(n)[i] = States[i]
    BY PrefixOfStates
  <2>4. States[n + 1] \in Names
    BY <2>1, StateNames
  <2> DEFINE longer == Append(Prefix(n), States[n + 1])
  <2>5. /\ longer \in Seq(Names) /\ Len(longer) = n + 1
        /\ \A i \in 1 .. n : longer[i] = States[i]
        /\ longer[n + 1] = States[n + 1]
    BY <1>1, <2>3, <2>4, AppendProperties
  <2> HIDE DEF longer
  <2>6. \A i \in 1 .. n + 1 : longer[i] = Prefix(n + 1)[i]
    BY <2>2, <2>5
  <2>7. longer = Prefix(n + 1)
    BY <2>2, <2>5, <2>6, SeqEqual
  <2> QED BY <2>7 DEF longer
<1> QED BY <1>2, <1>3

LEMMA InHistories ==
  \A h : h \in Histories <=>
           \E n \in 1 .. 5 : h = Prefix(n) \/ h = Append(Prefix(n), "FAILED")
<1> DEFINE Of(n) == {Prefix(n), Append(Prefix(n), "FAILED")}
<1>1. Histories = UNION {Of(n) : n \in 1 .. 5}
  BY DEF Histories, Prefix
<1>2. \A h, n : h \in Of(n) <=> h = Prefix(n) \/ h = Append(Prefix(n), "FAILED")
  OBVIOUS
<1> HIDE DEF Of
<1>3. ASSUME NEW h, h \in Histories
      PROVE  \E n \in 1 .. 5 : h \in Of(n)
  BY <1>1, <1>3
<1>4. ASSUME NEW h, NEW n \in 1 .. 5, h \in Of(n)
      PROVE  h \in Histories
  BY <1>1, <1>4
<1> QED BY <1>2, <1>3, <1>4

\* A history that has not failed is a prefix of the states ...
LEMMA HistoryIsPrefix ==
  ASSUME NEW h \in Histories, Last(h) # "FAILED"
  PROVE  \E n \in 1 .. 5 : h = Prefix(n) /\ Last(h) = States[n]
<1>1. PICK n \in 1 .. 5 : h = Prefix(n) \/ h = Append(Prefix(n), "FAILED")
  BY InHistories
<1> QED BY <1>1, LastOfPrefix

\* ... and can go on to the next of them, or fail.
LEMMA HistoryGoesOn ==
  ASSUME NEW h \in Histories, NEW n \in 1 .. 4, Last(h) = States[n]
  PROVE  /\ Append(h, States[n + 1]) \in Histories
         /\ Last(Append(h, States[n + 1])) = States[n + 1]
<1>1. n \in 1 .. 5 /\ n + 1 \in 1 .. 5
  OBVIOUS
<1>2. Last(h) # "FAILED"
  BY <1>1, StateNames
<1>3. PICK m \in 1 .. 5 : h = Prefix(m) /\ Last(h) = States[m]
  BY <1>2, HistoryIsPrefix
<1>4. m = n
  BY <1>1, <1>3, StateNames
<1>5. Append(h, States[n + 1]) = Prefix(n + 1)
  BY <1>3, <1>4, LastOfPrefix
<1>6. Last(Prefix(n + 1)) = States[n + 1]
  BY <1>1, LastOfPrefix, SMTT(30)
<1> QED BY <1>1, <1>5, <1>6, InHistories

LEMMA HistoryFails ==
  ASSUME NEW h \in Histories, Last(h) # "FAILED"
  PROVE  /\ Append(h, "FAILED") \in Histories
         /\ Last(Append(h, "FAILED")) = "FAILED"
<1>1. PICK n \in 1 .. 5 : h = Prefix(n)
  BY HistoryIsPrefix
<1> QED BY <1>1, LastOfPrefix, InHistories

LEMMA FirstHistory == <<"PLANNED">> \in Histories /\ Last(<<"PLANNED">>) = "PLANNED"
<1>1. Prefix(1) = <<"PLANNED">>
  <2>1. Prefix(1) \in Seq(Names) /\ Len(Prefix(1)) = 1 /\ Prefix(1)[1] = "PLANNED"
    <3>1. 1 \in 1 .. 5 /\ 1 \in 1 .. 1
      OBVIOUS
    <3> QED BY <3>1, PrefixOfStates, StateNames
  <2>2. <<"PLANNED">> \in Seq(Names) /\ Len(<<"PLANNED">>) = 1 /\ <<"PLANNED">>[1] = "PLANNED"
    BY DEF Names
  <2> QED BY <2>1, <2>2, SeqEqual
<1>2. Last(<<"PLANNED">>) = "PLANNED"
  BY DEF Last
<1>3. <<"PLANNED">> \in Histories
  BY <1>1, InHistories
<1> QED BY <1>2, <1>3


-----------------------------------------------------------------------------
\* The inductive invariant.

\* A run in progress has not failed, so that every step of it finds a history
\* that BW-07 lets go on.
InProgress == pc # "idle" => Last(runs[This].history) # "FAILED"

\* What the directory of the run holds when _repeat is at p.
Written(p) ==
  CASE p \in {"trace", "mark", "poll", "unmark", "prepare"} -> {"preflight"}
    [] p \in {"warm", "warming", "warmed", "loading"} -> {"preflight", "manifest"}
    [] p \in {"collect", "gates"} -> {"preflight", "manifest", "k6"}
    [] p = "summarise" -> {"preflight", "manifest", "k6", "postflight", "gates"}
    [] p = "report" -> {"summary"}
    [] OTHER -> {}

Unsummarised(p) == p \notin {"idle", "report", "raised"}

EvidenceSoFar ==
  pc # "idle" =>
    /\ Written(pc) \subseteq runs[This].files
    /\ Unsummarised(pc) => "summary" \notin runs[This].files

\* What a directory says whoever reads it, now or later.
Sound(r) ==
  /\ "summary" \in r.files =>
       {"preflight", "manifest", "k6", "postflight", "gates"} \subseteq r.files
  /\ Last(r.history) = "COMPLETED" => {"summary", "report"} \subseteq r.files
  /\ "summary" \in r.files /\ r.factors = {} => r.window.restarted = {}

AllSound == \A i \in DOMAIN runs : Sound(runs[i])

\* The restarts of the pod of s that the gate does not count.
Known(s, new) == IF new[s].instance = before[s].instance THEN before[s].restarts ELSE 0

\* Between the snapshots a pod that restarted is one the gate will see; a pod
\* that was replaced is never again the one that was there before.
Measuring == {"trace", "mark", "poll", "unmark", "prepare", "warm", "warming",
              "warmed", "loading", "collect"}

RestartsCounted ==
  pc \in Measuring =>
    \A s \in Services :
      /\ pods[s].instance >= before[s].instance
      /\ pods[s].restarts >= Known(s, pods)
      /\ s \in window.restarted => pods[s].restarts > Known(s, pods)

\* The second snapshot has them all, whatever restarts while the gates look,
RestartsSeen ==
  pc = "gates" =>
    \A s \in runs[This].window.restarted : after[s].restarts > Known(s, after)

\* and then the factors have them; no factors, no marker.
GatesClosed ==
  pc = "summarise" =>
    /\ runs[This].window.restarted # {} => "WORKLOAD_RESTARTS_INCREASED" \in factors
    /\ factors = {} => markers = {}

IType == TypeOK /\ InProgress
IInv ==
  /\ IType
  /\ EvidenceSoFar
  /\ AllSound
  /\ RestartsCounted
  /\ RestartsSeen
  /\ GatesClosed
  /\ ValidLeavesNothing
-----------------------------------------------------------------------------
\* What a step makes of the run in progress.

LEMMA ThisRun ==
  ASSUME TypeOK, pc # "idle"
  PROVE  /\ This \in Nat \ {0} /\ DOMAIN runs = 1 .. This /\ This \in DOMAIN runs
         /\ runs[This] \in Run
<1>1. runs \in Seq(Run) /\ runs # <<>>
  BY DEF TypeOK
<1>2. Len(runs) \in Nat \ {0} /\ DOMAIN runs = 1 .. Len(runs)
  BY <1>1, EmptySeq, LenProperties
<1> QED BY <1>1, <1>2, ElementOfSeq DEF This

Reasons == {"NONE", "MARKER_EXISTS", "ERROR"}

LEMMA RunFields ==
  ASSUME NEW r \in Run
  PROVE  /\ r.condition \in Conditions /\ r.history \in Histories
         /\ r.files \in SUBSET Files /\ r.factors \in SUBSET Factors
         /\ r.reason \in Reasons /\ r.window \in Windows
BY DEF Run, Reasons

\* The run in progress is now x, of the same condition.
Changes(x) ==
  x \in Run /\ x.condition = Condition /\ runs' = [runs EXCEPT ![This] = x]

LEMMA RunChanged ==
  ASSUME TypeOK, pc # "idle", NEW x, Changes(x)
  PROVE  /\ runs' \in Seq(Run) /\ runs' # <<>>
         /\ Len(runs') = Len(runs) /\ DOMAIN runs' = DOMAIN runs /\ This' = This
         /\ \A i \in DOMAIN runs : i # This => runs'[i] = runs[i]
         /\ runs'[This] = x /\ Condition' = Condition
<1>1. x \in Run /\ x.condition = Condition /\ runs' = [runs EXCEPT ![This] = x]
  BY DEF Changes
<1>2. runs \in Seq(Run) /\ This \in 1 .. Len(runs) /\ DOMAIN runs = 1 .. Len(runs)
  BY ThisRun DEF TypeOK, This
<1>3. runs' \in Seq(Run) /\ Len(runs') = Len(runs)
  BY <1>1, <1>2, ExceptSeq
<1>4. DOMAIN runs' = DOMAIN runs /\ This' = This /\ runs' # <<>>
  BY <1>2, <1>3 DEF This
<1>5. runs'[This] = x /\ \A i \in DOMAIN runs : i # This => runs'[i] = runs[i]
  BY <1>1, <1>2
<1> QED BY <1>1, <1>3, <1>4, <1>5 DEF Condition

\* The updates that the actions write.
LEMMA StepChanges ==
  ASSUME TypeOK, pc # "idle",
         NEW s, NEW f \in SUBSET Files, NEW g \in SUBSET Factors, NEW q \in Reasons,
         NEW w \in Windows
  PROVE  LET r == runs[This]
         IN /\ UNCHANGED runs => Changes(r)
            /\ runs' = [runs EXCEPT ![This].files = @ \cup f] =>
                 Changes([r EXCEPT !.files = @ \cup f])
            /\ runs' = [runs EXCEPT ![This].reason = q] => Changes([r EXCEPT !.reason = q])
            /\ runs' = [runs EXCEPT ![This].window = w] => Changes([r EXCEPT !.window = w])
            /\ runs' = [runs EXCEPT ![This].files = @ \cup f, ![This].factors = g] =>
                 Changes([r EXCEPT !.files = @ \cup f, !.factors = g])
            /\ Append(r.history, s) \in Histories =>
                 /\ runs' = Transition(s) => Changes([r EXCEPT !.history = Append(@, s)])
                 /\ runs' = [Transition(s) EXCEPT ![This].files = @ \cup f] =>
                      Changes([r EXCEPT !.history = Append(@, s), !.files = @ \cup f])
                 /\ runs' = [Transition(s) EXCEPT ![This].files = @ \cup f,
                                                  ![This].reason = q] =>
                      Changes([r EXCEPT !.history = Append(@, s), !.files = @ \cup f,
                                        !.reason = q])
<1> DEFINE r == runs[This]
<1>1. This \in DOMAIN runs /\ runs = [i \in DOMAIN runs |-> runs[i]]
  BY ThisRun DEF TypeOK
<1>2. r \in Run /\ r.condition = Condition
  BY ThisRun DEF Condition
<1>3. r.files \cup f \in SUBSET Files
  BY <1>2, RunFields
<1>4. /\ [r EXCEPT !.files = @ \cup f] \in Run
      /\ [r EXCEPT !.reason = q] \in Run
      /\ [r EXCEPT !.window = w] \in Run
      /\ [r EXCEPT !.files = @ \cup f, !.factors = g] \in Run
  BY <1>2, <1>3, RunFields DEF Run, Reasons
<1>5. ASSUME Append(r.history, s) \in Histories
      PROVE  /\ [r EXCEPT !.history = Append(@, s)] \in Run
             /\ [r EXCEPT !.history = Append(@, s), !.files = @ \cup f] \in Run
             /\ [r EXCEPT !.history = Append(@, s), !.files = @ \cup f, !.reason = q] \in Run
  BY <1>2, <1>3, <1>5, RunFields DEF Run, Reasons
<1> DEFINE moved == [r EXCEPT !.history = Append(@, s)]
<1>6. /\ moved.condition = r.condition /\ moved.files = r.files
      /\ [r EXCEPT !.files = @ \cup f].condition = r.condition
      /\ [r EXCEPT !.reason = q].condition = r.condition
      /\ [r EXCEPT !.window = w].condition = r.condition
      /\ [r EXCEPT !.files = @ \cup f, !.factors = g].condition = r.condition
      /\ [r EXCEPT !.history = Append(@, s), !.files = @ \cup f].condition = r.condition
      /\ [r EXCEPT !.history = Append(@, s), !.files = @ \cup f, !.reason = q].condition
           = r.condition
  BY <1>2 DEF Run
<1>7. [runs EXCEPT ![This] = r] = runs
  BY <1>1
<1>8. [runs EXCEPT ![This].files = @ \cup f, ![This].factors = g]
        = [runs EXCEPT ![This] = [r EXCEPT !.files = @ \cup f, !.factors = g]]
  BY <1>1
<1>9. [Transition(s) EXCEPT ![This].files = @ \cup f]
        = [runs EXCEPT ![This] = [r EXCEPT !.history = Append(@, s), !.files = @ \cup f]]
  BY <1>1 DEF Transition
<1>10. [Transition(s) EXCEPT ![This].files = @ \cup f, ![This].reason = q]
         = [runs EXCEPT ![This] = [r EXCEPT !.history = Append(@, s), !.files = @ \cup f,
                                            !.reason = q]]
  BY <1>1 DEF Transition
<1>11. Transition(s) = [runs EXCEPT ![This] = [r EXCEPT !.history = Append(@, s)]]
  BY DEF Transition
<1>12. UNCHANGED runs => Changes(r)
  BY <1>2, <1>7 DEF Changes
<1>13. runs' = [runs EXCEPT ![This].files = @ \cup f] =>
         Changes([r EXCEPT !.files = @ \cup f])
  BY <1>2, <1>4, <1>6 DEF Changes
<1>14. runs' = [runs EXCEPT ![This].reason = q] => Changes([r EXCEPT !.reason = q])
  BY <1>2, <1>4, <1>6 DEF Changes
<1>15. runs' = [runs EXCEPT ![This].window = w] => Changes([r EXCEPT !.window = w])
  BY <1>2, <1>4, <1>6 DEF Changes
<1>16. runs' = [runs EXCEPT ![This].files = @ \cup f, ![This].factors = g] =>
         Changes([r EXCEPT !.files = @ \cup f, !.factors = g])
  BY <1>2, <1>4, <1>6, <1>8 DEF Changes
<1>17. Append(r.history, s) \in Histories =>
         /\ runs' = Transition(s) => Changes([r EXCEPT !.history = Append(@, s)])
         /\ runs' = [Transition(s) EXCEPT ![This].files = @ \cup f] =>
              Changes([r EXCEPT !.history = Append(@, s), !.files = @ \cup f])
         /\ runs' = [Transition(s) EXCEPT ![This].files = @ \cup f, ![This].reason = q] =>
              Changes([r EXCEPT !.history = Append(@, s), !.files = @ \cup f, !.reason = q])
  BY <1>2, <1>5, <1>6, <1>9, <1>10, <1>11 DEF Changes
<1> QED BY <1>12, <1>13, <1>14, <1>15, <1>16, <1>17

\* Where the history of the run in progress is, and that it can go on.
LEMMA HistoryNow ==
  ASSUME IType, pc # "idle"
  PROVE  LET h == runs[This].history
         IN /\ h \in Histories
            /\ pc = "prepare" => Append(h, "WARMING_UP") \in Histories
            /\ pc = "warmed" => Append(h, "RUNNING") \in Histories
            /\ pc = "loading" => Append(h, "COLLECTING") \in Histories
            /\ pc = "report" => Append(h, "COMPLETED") \in Histories
            /\ Append(h, "FAILED") \in Histories
            /\ \A s : Last(Append(h, s)) = s
<1> DEFINE h == runs[This].history
<1>1. h \in Histories /\ Last(h) # "FAILED"
  BY ThisRun, RunFields DEF IType, InProgress
<1>2. /\ pc = "prepare" => Last(h) = States[1]
      /\ pc = "warmed" => Last(h) = States[2]
      /\ pc = "loading" => Last(h) = States[3]
      /\ pc = "report" => Last(h) = States[4]
  BY StateNames DEF IType, TypeOK, Shown
<1>3. 1 \in 1 .. 4 /\ 2 \in 1 .. 4 /\ 3 \in 1 .. 4 /\ 4 \in 1 .. 4
  OBVIOUS
<1>4. /\ pc = "prepare" => Append(h, States[1 + 1]) \in Histories
      /\ pc = "warmed" => Append(h, States[2 + 1]) \in Histories
      /\ pc = "loading" => Append(h, States[3 + 1]) \in Histories
      /\ pc = "report" => Append(h, States[4 + 1]) \in Histories
  BY <1>1, <1>2, <1>3, HistoryGoesOn
<1>5. 1 + 1 = 2 /\ 2 + 1 = 3 /\ 3 + 1 = 4 /\ 4 + 1 = 5
  OBVIOUS
<1>6. Append(h, "FAILED") \in Histories
  BY <1>1, HistoryFails
<1>7. ASSUME NEW s PROVE Last(Append(h, s)) = s
  <2>1. h \in Seq({h[i] : i \in DOMAIN h})
    <3>1. PICK n \in 1 .. 5 : h = Prefix(n)
      BY <1>1, HistoryIsPrefix
    <3>2. h \in Seq(Names)
      BY <3>1, PrefixOfStates
    <3> QED BY <3>2
  <2> QED BY <2>1 DEF Last
<1> QED BY <1>1, <1>4, <1>5, <1>6, <1>7, StateNames

\* What each action makes of it.
LEMMA ActionChanges ==
  ASSUME IType, pc # "idle"
  PROVE  LET r == runs[This]
         IN /\ Preflight => Changes([r EXCEPT !.files = @ \cup {"preflight"}])
            /\ MarkerExists => Changes([r EXCEPT !.reason = "MARKER_EXISTS"])
            /\ MarkerFails \/ LoadFails \/ Raises => Changes([r EXCEPT !.reason = "ERROR"])
            /\ Prepare => Changes([r EXCEPT !.history = Append(@, "WARMING_UP"),
                                            !.files = @ \cup {"manifest"}])
            /\ StartLoad => Changes([r EXCEPT !.history = Append(@, "RUNNING")])
            /\ EndLoad => Changes([r EXCEPT !.history = Append(@, "COLLECTING"),
                                            !.files = @ \cup {"k6"}])
            /\ Postflight => Changes([r EXCEPT !.window = window])
            /\ Gates => Changes([r EXCEPT !.files = @ \cup {"postflight", "gates"}])
            /\ Summarise => \E a \in SummaryFactors :
                 Changes([r EXCEPT !.files = @ \cup {"summary"}, !.factors = factors \cup a])
            /\ Return => Changes([r EXCEPT !.history = Append(@, "COMPLETED"),
                                           !.files = @ \cup {"report"}])
            /\ CompletionNotWritten =>
                 Changes([r EXCEPT !.history = Append(@, "COMPLETED"),
                                   !.files = @ \cup {"report"}, !.reason = "ERROR"])
            /\ Fail => Changes([r EXCEPT !.history = Append(@, "FAILED"),
                                         !.files = @ \cup {"failure"}])
            /\ UNCHANGED runs => Changes(r)
<1> DEFINE r == runs[This]
<1>1. TypeOK
  BY DEF IType
<1>2. /\ {"preflight"} \in SUBSET Files /\ {"manifest"} \in SUBSET Files
      /\ {"k6"} \in SUBSET Files
      /\ {"postflight", "gates"} \in SUBSET Files /\ {"summary"} \in SUBSET Files
      /\ {"report"} \in SUBSET Files /\ {"failure"} \in SUBSET Files
  BY DEF Files
<1>3. "MARKER_EXISTS" \in Reasons /\ "ERROR" \in Reasons
  BY DEF Reasons
<1>4. {} \in SUBSET Factors /\ window \in Windows
  BY <1>1 DEF TypeOK
<1>5. ASSUME NEW f \in SUBSET Files, runs' = [runs EXCEPT ![This].files = @ \cup f]
      PROVE  Changes([r EXCEPT !.files = @ \cup f])
  BY <1>1, <1>3, <1>4, <1>5, StepChanges
<1>6. ASSUME NEW q \in Reasons, runs' = [runs EXCEPT ![This].reason = q]
      PROVE  Changes([r EXCEPT !.reason = q])
  BY <1>1, <1>2, <1>4, <1>6, StepChanges
<1>7. ASSUME NEW s, NEW f \in SUBSET Files, Append(r.history, s) \in Histories,
             runs' = [Transition(s) EXCEPT ![This].files = @ \cup f]
      PROVE  Changes([r EXCEPT !.history = Append(@, s), !.files = @ \cup f])
  BY <1>1, <1>3, <1>4, <1>7, StepChanges
<1>8. Preflight => Changes([r EXCEPT !.files = @ \cup {"preflight"}])
  BY <1>2, <1>5 DEF Preflight
<1>9. MarkerExists => Changes([r EXCEPT !.reason = "MARKER_EXISTS"])
  BY <1>3, <1>6 DEF MarkerExists
<1>10. MarkerFails \/ LoadFails \/ Raises => Changes([r EXCEPT !.reason = "ERROR"])
  BY <1>3, <1>6 DEF MarkerFails, LoadFails, Raises
<1>11. Prepare => Changes([r EXCEPT !.history = Append(@, "WARMING_UP"),
                                    !.files = @ \cup {"manifest"}])
  BY <1>2, <1>7, HistoryNow DEF Prepare
<1>12. StartLoad => Changes([r EXCEPT !.history = Append(@, "RUNNING")])
  BY <1>1, <1>2, <1>3, <1>4, StepChanges, HistoryNow DEF StartLoad
<1>13. EndLoad => Changes([r EXCEPT !.history = Append(@, "COLLECTING"),
                                    !.files = @ \cup {"k6"}])
  BY <1>2, <1>7, HistoryNow DEF EndLoad
<1>14. Postflight => Changes([r EXCEPT !.window = window])
  BY <1>1, <1>2, <1>3, <1>4, StepChanges DEF Postflight
<1>15. Gates => Changes([r EXCEPT !.files = @ \cup {"postflight", "gates"}])
  BY <1>2, <1>5 DEF Gates
<1>16. ASSUME Summarise
       PROVE  \E a \in SummaryFactors :
                Changes([r EXCEPT !.files = @ \cup {"summary"}, !.factors = factors \cup a])
  <2>1. PICK a \in SummaryFactors :
          runs' = [runs EXCEPT ![This].files = @ \cup {"summary"},
                               ![This].factors = factors \cup a]
    BY <1>16 DEF Summarise
  <2>2. factors \cup a \in SUBSET Factors
    BY <1>1 DEF TypeOK, SummaryFactors, External, Factors
  <2> QED BY <1>1, <1>2, <1>3, <1>4, <2>1, <2>2, StepChanges
<1>17. Return => Changes([r EXCEPT !.history = Append(@, "COMPLETED"),
                                   !.files = @ \cup {"report"}])
  BY <1>2, <1>7, HistoryNow DEF Return
<1>18. CompletionNotWritten =>
         Changes([r EXCEPT !.history = Append(@, "COMPLETED"),
                           !.files = @ \cup {"report"}, !.reason = "ERROR"])
  BY <1>1, <1>2, <1>3, <1>4, StepChanges, HistoryNow DEF CompletionNotWritten
<1>19. Fail => Changes([r EXCEPT !.history = Append(@, "FAILED"),
                                 !.files = @ \cup {"failure"}])
  BY <1>2, <1>7, HistoryNow DEF Fail
<1>20. UNCHANGED runs => Changes(r)
  BY <1>1, <1>2, <1>3, <1>4, StepChanges
<1> QED BY <1>8, <1>9, <1>10, <1>11, <1>12, <1>13, <1>14, <1>15, <1>16, <1>17, <1>18,
           <1>19, <1>20

-----------------------------------------------------------------------------
\* A step of a run in progress, field by field.

\* The evidence of the run is now this; the other directories are as before.
Becomes(history, files, newFactors, reason, newWindow) ==
  /\ runs' \in Seq(Run) /\ runs' # <<>>
  /\ Len(runs') = Len(runs) /\ DOMAIN runs' = DOMAIN runs /\ This' = This
  /\ Condition' = Condition
  /\ \A i \in DOMAIN runs : i # This => runs'[i] = runs[i]
  /\ runs'[This].history = history
  /\ runs'[This].files = files
  /\ runs'[This].factors = newFactors
  /\ runs'[This].reason = reason
  /\ runs'[This].window = newWindow

LEMMA ActionBecomes ==
  ASSUME IType, pc # "idle"
  PROVE  LET r == runs[This]
         IN /\ Preflight => 
                 Becomes(r.history, r.files \cup {"preflight"},
                         r.factors, r.reason, r.window)
            /\ MarkerExists => 
                 Becomes(r.history, r.files,
                         r.factors, "MARKER_EXISTS", r.window)
            /\ MarkerFails \/ LoadFails \/ Raises => 
                 Becomes(r.history, r.files,
                         r.factors, "ERROR", r.window)
            /\ Prepare => 
                 Becomes(Append(r.history, "WARMING_UP"), r.files \cup {"manifest"},
                         r.factors, r.reason, r.window)
            /\ StartLoad => 
                 Becomes(Append(r.history, "RUNNING"), r.files,
                         r.factors, r.reason, r.window)
            /\ EndLoad => 
                 Becomes(Append(r.history, "COLLECTING"), r.files \cup {"k6"},
                         r.factors, r.reason, r.window)
            /\ Postflight => Becomes(r.history, r.files, r.factors, r.reason, window)
            /\ Gates => 
                 Becomes(r.history, r.files \cup {"postflight", "gates"},
                         r.factors, r.reason, r.window)
            /\ Summarise => \E a \in SummaryFactors :
                 Becomes(r.history, r.files \cup {"summary"}, factors \cup a, r.reason,
                       r.window)
            /\ Return => 
                 Becomes(Append(r.history, "COMPLETED"), r.files \cup {"report"},
                         r.factors, r.reason, r.window)
            /\ CompletionNotWritten => 
                 Becomes(Append(r.history, "COMPLETED"), r.files \cup {"report"},
                         r.factors, "ERROR", r.window)
            /\ Fail => 
                 Becomes(Append(r.history, "FAILED"), r.files \cup {"failure"},
                         r.factors, r.reason, r.window)
            /\ UNCHANGED runs => Becomes(r.history, r.files, r.factors, r.reason, r.window)
<1> DEFINE r == runs[This]
<1>1. TypeOK /\ r \in Run
  BY ThisRun DEF IType
<1>2. ASSUME NEW x, Changes(x)
      PROVE  Becomes(x.history, x.files, x.factors, x.reason, x.window)
  BY <1>1, <1>2, RunChanged DEF Becomes
<1>3. \A x : Changes(x) => Becomes(x.history, x.files, x.factors, x.reason, x.window)
  BY <1>2
<1>4. ASSUME Preflight
      PROVE  Becomes(r.history, r.files \cup {"preflight"},
                     r.factors, r.reason, r.window)
  <2> DEFINE x == [r EXCEPT !.files = @ \cup {"preflight"}]
  <2>1. Changes(x)
    BY <1>4, ActionChanges
  <2>2. /\ x.history = r.history /\ x.files = r.files \cup {"preflight"}
        /\ x.factors = r.factors /\ x.reason = r.reason /\ x.window = r.window
    BY <1>1 DEF Run
  <2> HIDE DEF x
  <2> QED BY <1>3, <2>1, <2>2
<1>5. ASSUME MarkerExists
      PROVE  Becomes(r.history, r.files, r.factors, "MARKER_EXISTS", r.window)
  <2> DEFINE x == [r EXCEPT !.reason = "MARKER_EXISTS"]
  <2>1. Changes(x)
    BY <1>5, ActionChanges
  <2>2. /\ x.history = r.history /\ x.files = r.files
        /\ x.factors = r.factors /\ x.reason = "MARKER_EXISTS" /\ x.window = r.window
    BY <1>1 DEF Run
  <2> HIDE DEF x
  <2> QED BY <1>3, <2>1, <2>2
<1>6. ASSUME MarkerFails \/ LoadFails \/ Raises
      PROVE  Becomes(r.history, r.files, r.factors, "ERROR", r.window)
  <2> DEFINE x == [r EXCEPT !.reason = "ERROR"]
  <2>1. Changes(x)
    BY <1>6, ActionChanges
  <2>2. /\ x.history = r.history /\ x.files = r.files
        /\ x.factors = r.factors /\ x.reason = "ERROR" /\ x.window = r.window
    BY <1>1 DEF Run
  <2> HIDE DEF x
  <2> QED BY <1>3, <2>1, <2>2
<1>7. ASSUME Prepare
      PROVE  Becomes(Append(r.history, "WARMING_UP"), r.files \cup {"manifest"},
                     r.factors, r.reason, r.window)
  <2> DEFINE x == [r EXCEPT !.history = Append(@, "WARMING_UP"),
                            !.files = @ \cup {"manifest"}]
  <2>1. Changes(x)
    BY <1>7, ActionChanges
  <2>2. /\ x.history = Append(r.history, "WARMING_UP") /\ x.files = r.files \cup {"manifest"}
        /\ x.factors = r.factors /\ x.reason = r.reason /\ x.window = r.window
    BY <1>1 DEF Run
  <2> HIDE DEF x
  <2> QED BY <1>3, <2>1, <2>2
<1>8. ASSUME StartLoad
      PROVE  Becomes(Append(r.history, "RUNNING"), r.files,
                     r.factors, r.reason, r.window)
  <2> DEFINE x == [r EXCEPT !.history = Append(@, "RUNNING")]
  <2>1. Changes(x)
    BY <1>8, ActionChanges
  <2>2. /\ x.history = Append(r.history, "RUNNING") /\ x.files = r.files
        /\ x.factors = r.factors /\ x.reason = r.reason /\ x.window = r.window
    BY <1>1 DEF Run
  <2> HIDE DEF x
  <2> QED BY <1>3, <2>1, <2>2
<1>9. ASSUME EndLoad
      PROVE  Becomes(Append(r.history, "COLLECTING"), r.files \cup {"k6"},
                     r.factors, r.reason, r.window)
  <2> DEFINE x == [r EXCEPT !.history = Append(@, "COLLECTING"), !.files = @ \cup {"k6"}]
  <2>1. Changes(x)
    BY <1>9, ActionChanges
  <2>2. /\ x.history = Append(r.history, "COLLECTING") /\ x.files = r.files \cup {"k6"}
        /\ x.factors = r.factors /\ x.reason = r.reason /\ x.window = r.window
    BY <1>1 DEF Run
  <2> HIDE DEF x
  <2> QED BY <1>3, <2>1, <2>2
<1>10. ASSUME Postflight
      PROVE  Becomes(r.history, r.files, r.factors, r.reason, window)
  <2> DEFINE x == [r EXCEPT !.window = window]
  <2>1. Changes(x)
    BY <1>10, ActionChanges
  <2>2. /\ x.history = r.history /\ x.files = r.files
        /\ x.factors = r.factors /\ x.reason = r.reason /\ x.window = window
    BY <1>1 DEF Run
  <2> HIDE DEF x
  <2> QED BY <1>3, <2>1, <2>2
<1>11. ASSUME Gates
      PROVE  Becomes(r.history, r.files \cup {"postflight", "gates"},
                     r.factors, r.reason, r.window)
  <2> DEFINE x == [r EXCEPT !.files = @ \cup {"postflight", "gates"}]
  <2>1. Changes(x)
    BY <1>11, ActionChanges
  <2>2. /\ x.history = r.history /\ x.files = r.files \cup {"postflight", "gates"}
        /\ x.factors = r.factors /\ x.reason = r.reason /\ x.window = r.window
    BY <1>1 DEF Run
  <2> HIDE DEF x
  <2> QED BY <1>3, <2>1, <2>2
<1>12. ASSUME Summarise
      PROVE  \E a \in SummaryFactors :
               Becomes(r.history, r.files \cup {"summary"}, factors \cup a, r.reason,
                       r.window)
  <2>1. PICK a \in SummaryFactors :
          Changes([r EXCEPT !.files = @ \cup {"summary"}, !.factors = factors \cup a])
    BY <1>12, ActionChanges
  <2> DEFINE x == [r EXCEPT !.files = @ \cup {"summary"}, !.factors = factors \cup a]
  <2>2. /\ x.history = r.history /\ x.files = r.files \cup {"summary"}
        /\ x.factors = factors \cup a /\ x.reason = r.reason /\ x.window = r.window
    BY <1>1 DEF Run
  <2>3. Changes(x)
    BY <2>1
  <2> HIDE DEF x
  <2> QED BY <1>3, <2>2, <2>3
<1>13. ASSUME Return
      PROVE  Becomes(Append(r.history, "COMPLETED"), r.files \cup {"report"},
                     r.factors, r.reason, r.window)
  <2> DEFINE x == [r EXCEPT !.history = Append(@, "COMPLETED"), !.files = @ \cup {"report"}]
  <2>1. Changes(x)
    BY <1>13, ActionChanges
  <2>2. /\ x.history = Append(r.history, "COMPLETED") /\ x.files = r.files \cup {"report"}
        /\ x.factors = r.factors /\ x.reason = r.reason /\ x.window = r.window
    BY <1>1 DEF Run
  <2> HIDE DEF x
  <2> QED BY <1>3, <2>1, <2>2
<1>14. ASSUME CompletionNotWritten
      PROVE  Becomes(Append(r.history, "COMPLETED"), r.files \cup {"report"},
                     r.factors, "ERROR", r.window)
  <2> DEFINE x == [r EXCEPT !.history = Append(@, "COMPLETED"),
                            !.files = @ \cup {"report"}, !.reason = "ERROR"]
  <2>1. Changes(x)
    BY <1>14, ActionChanges
  <2>2. /\ x.history = Append(r.history, "COMPLETED") /\ x.files = r.files \cup {"report"}
        /\ x.factors = r.factors /\ x.reason = "ERROR" /\ x.window = r.window
    BY <1>1 DEF Run
  <2> HIDE DEF x
  <2> QED BY <1>3, <2>1, <2>2
<1>15. ASSUME Fail
      PROVE  Becomes(Append(r.history, "FAILED"), r.files \cup {"failure"},
                     r.factors, r.reason, r.window)
  <2> DEFINE x == [r EXCEPT !.history = Append(@, "FAILED"), !.files = @ \cup {"failure"}]
  <2>1. Changes(x)
    BY <1>15, ActionChanges
  <2>2. /\ x.history = Append(r.history, "FAILED") /\ x.files = r.files \cup {"failure"}
        /\ x.factors = r.factors /\ x.reason = r.reason /\ x.window = r.window
    BY <1>1 DEF Run
  <2> HIDE DEF x
  <2> QED BY <1>3, <2>1, <2>2
<1>16. UNCHANGED runs => Becomes(r.history, r.files, r.factors, r.reason, r.window)
  BY <1>3, ActionChanges
<1> QED BY <1>4, <1>5, <1>6, <1>7, <1>8, <1>9, <1>10, <1>11, <1>12, <1>13, <1>14, <1>15, <1>16

-----------------------------------------------------------------------------
\* The type of the state.

\* A step of a run in progress that leaves it with this history.
LEMMA TypeOfStep ==
  ASSUME IType, NEW h, NEW f, NEW g, NEW q, NEW w, Becomes(h, f, g, q, w),
         k6' \subseteq DOMAIN runs, markers' \subseteq Conditions, factors' \subseteq Factors,
         before' \in [Services -> Pod], after' \in [Services -> Pod],
         window' \in Windows, faults' \in Nat, UNCHANGED cluster,
         pc' \in {"idle", "preflight", "trace", "mark", "poll", "unmark", "prepare", "warm",
                  "warming", "warmed", "loading", "collect", "gates", "summarise",
                  "report", "raised"},
         Shown(pc') # "ANY" => Last(h) = Shown(pc'),
         pc' # "idle" => Last(h) # "FAILED"
  PROVE  IType'
<1>1. /\ runs' \in Seq(Run) /\ runs' # <<>> /\ DOMAIN runs' = DOMAIN runs
      /\ runs'[This'].history = h
  BY DEF Becomes
<1>2. pods' \in [Services -> Pod] /\ shocks' \in Nat
  BY DEF IType, TypeOK, cluster
<1>3. InProgress'
  BY <1>1 DEF InProgress
<1>4. TypeOK'
  BY <1>1, <1>2 DEF TypeOK
<1> QED BY <1>3, <1>4 DEF IType

\* What the state shows.
LEMMA ShownAt ==
  /\ Shown("preflight") = "PLANNED" /\ Shown("trace") = "PLANNED"
  /\ Shown("mark") = "PLANNED" /\ Shown("poll") = "PLANNED"
  /\ Shown("unmark") = "PLANNED" /\ Shown("prepare") = "PLANNED"
  /\ Shown("warm") = "WARMING_UP" /\ Shown("warming") = "WARMING_UP"
  /\ Shown("warmed") = "WARMING_UP" /\ Shown("loading") = "RUNNING"
  /\ Shown("collect") = "COLLECTING" /\ Shown("gates") = "COLLECTING"
  /\ Shown("summarise") = "COLLECTING" /\ Shown("report") = "COLLECTING"
  /\ Shown("raised") = "ANY" /\ Shown("idle") = "ANY"
BY DEF Shown

LEMMA TypeStep == IType /\ [Next]_vars => IType'
<1> SUFFICES ASSUME IType, [Next]_vars
             PROVE  IType'
  OBVIOUS
<1> USE ShownAt
<1> DEFINE r == runs[This]
<1>1. /\ k6 \subseteq DOMAIN runs /\ markers \subseteq Conditions /\ factors \subseteq Factors
      /\ before \in [Services -> Pod] /\ after \in [Services -> Pod]
      /\ pods \in [Services -> Pod] /\ window \in Windows /\ faults \in Nat /\ shocks \in Nat
      /\ NoPods \in [Services -> Pod] /\ Quiet \in Windows
  BY DEF IType, TypeOK, NoPods, Quiet, Windows, Pod
<1>2. /\ Shown(pc) # "ANY" => Last(r.history) = Shown(pc)
      /\ pc # "idle" => Last(r.history) # "FAILED"
  BY DEF IType, TypeOK, InProgress
<1>3. pc # "idle" => Condition \in Conditions /\ This \in DOMAIN runs
  BY ThisRun, RunFields DEF IType, Condition
<1>4. Fault => faults' \in Nat
  BY <1>1 DEF Fault
<1>5. Forget => /\ factors' \subseteq Factors
                /\ before' \in [Services -> Pod] /\ after' \in [Services -> Pod]
  BY <1>1 DEF Forget
<1>6. ClusterGate \subseteq SUBSET Factors /\ TelemetryGate \subseteq SUBSET Factors
      /\ WindowGate \subseteq SUBSET Factors
      /\ Gate(pods) \subseteq Factors /\ CleanupGate \subseteq Factors
      /\ RestartDeltaGate(before, after) \subseteq Factors
  BY DEF ClusterGate, TelemetryGate, WindowGate, External, Gate, CleanupGate,
     RestartDeltaGate,
         Factors
<1>7. pc # "idle" => \A s : Last(Append(r.history, s)) = s
  BY HistoryNow
<1>9. ASSUME NEW c \in Conditions, Begin(c)
      PROVE  IType'
  <2> DEFINE x == [condition |-> c, history |-> <<"PLANNED">>, files |-> {}, factors |-> {},
                   reason |-> "NONE", window |-> Quiet]
  <2>1. x \in Run /\ Last(x.history) = "PLANNED"
    BY <1>1, FirstHistory DEF Run
  <2>2. runs' = Append(runs, x)
    BY <1>9 DEF Begin
  <2> HIDE DEF x
  <2>3. runs \in Seq(Run) /\ Len(runs) \in Nat /\ DOMAIN runs = 1 .. Len(runs)
    BY LenProperties DEF IType, TypeOK
  <2>4. /\ runs' \in Seq(Run) /\ This' = Len(runs) + 1 /\ runs'[This'] = x
        /\ DOMAIN runs' = 1 .. Len(runs) + 1 /\ runs' # <<>>
    BY <2>1, <2>2, <2>3, AppendProperties DEF This
  <2>5. k6' \subseteq DOMAIN runs'
    BY <1>1, <1>9, <2>3, <2>4 DEF Begin
  <2> QED BY <1>1, <1>9, <2>1, <2>4, <2>5
             DEF Begin, IType, TypeOK, InProgress, cluster, memory
<1>10. ASSUME Preflight PROVE IType'
  <2>1. pc # "idle"
    BY <1>10 DEF Preflight
  <2> QED BY <1>1, <1>2, <1>3, <1>4, <1>5, <1>6, <1>7, <1>10, <2>1, ActionBecomes, TypeOfStep
          DEF cluster, memory, Preflight
<1>11. ASSUME TraceMarker PROVE IType'
  <2>1. pc # "idle"
    BY <1>11 DEF TraceMarker
  <2> QED BY <1>1, <1>2, <1>3, <1>4, <1>5, <1>6, <1>7, <1>11, <2>1, ActionBecomes, TypeOfStep
          DEF cluster, memory, TraceMarker
<1>12. ASSUME CreateMarker PROVE IType'
  <2>1. pc # "idle"
    BY <1>12 DEF CreateMarker
  <2> QED BY <1>1, <1>2, <1>3, <1>4, <1>5, <1>6, <1>7, <1>12, <2>1, ActionBecomes, TypeOfStep
          DEF cluster, memory, CreateMarker
<1>13. ASSUME MarkerExists PROVE IType'
  <2>1. pc # "idle"
    BY <1>13 DEF MarkerExists
  <2> QED BY <1>1, <1>2, <1>3, <1>4, <1>5, <1>6, <1>7, <1>13, <2>1, ActionBecomes, TypeOfStep
          DEF cluster, memory, MarkerExists
<1>14. ASSUME PollMarker PROVE IType'
  <2>1. pc # "idle"
    BY <1>14 DEF PollMarker
  <2> QED BY <1>1, <1>2, <1>3, <1>4, <1>5, <1>6, <1>7, <1>14, <2>1, ActionBecomes, TypeOfStep
          DEF cluster, memory, PollMarker
<1>15. ASSUME MarkerFails PROVE IType'
  <2>1. pc # "idle"
    BY <1>15 DEF MarkerFails
  <2> QED BY <1>1, <1>2, <1>3, <1>4, <1>5, <1>6, <1>7, <1>15, <2>1, ActionBecomes, TypeOfStep
          DEF cluster, memory, MarkerFails
<1>16. ASSUME DeleteMarker PROVE IType'
  <2>1. pc # "idle"
    BY <1>16 DEF DeleteMarker
  <2> QED BY <1>1, <1>2, <1>3, <1>4, <1>5, <1>6, <1>7, <1>16, <2>1, ActionBecomes, TypeOfStep
          DEF cluster, memory, DeleteMarker, AfterMarker
<1>17. ASSUME DeleteMarkerFails PROVE IType'
  <2>1. pc # "idle"
    BY <1>17 DEF DeleteMarkerFails
  <2> QED BY <1>1, <1>2, <1>3, <1>4, <1>5, <1>6, <1>7, <1>17, <2>1, ActionBecomes, TypeOfStep
          DEF cluster, memory, DeleteMarkerFails, AfterMarker
<1>18. ASSUME Prepare PROVE IType'
  <2>1. pc # "idle"
    BY <1>18 DEF Prepare
  <2> QED BY <1>1, <1>2, <1>3, <1>4, <1>5, <1>6, <1>7, <1>18, <2>1, ActionBecomes, TypeOfStep
          DEF cluster, memory, Prepare
<1>19. ASSUME StartWarmup PROVE IType'
  <2>1. pc # "idle"
    BY <1>19 DEF StartWarmup
  <2> QED BY <1>1, <1>2, <1>3, <1>4, <1>5, <1>6, <1>7, <1>19, <2>1, ActionBecomes, TypeOfStep
          DEF cluster, memory, StartWarmup
<1>20. ASSUME NoWarmup PROVE IType'
  <2>1. pc # "idle"
    BY <1>20 DEF NoWarmup
  <2> QED BY <1>1, <1>2, <1>3, <1>4, <1>5, <1>6, <1>7, <1>20, <2>1, ActionBecomes, TypeOfStep
          DEF cluster, memory, NoWarmup
<1>21. ASSUME EndWarmup PROVE IType'
  <2>1. pc # "idle"
    BY <1>21 DEF EndWarmup
  <2> QED BY <1>1, <1>2, <1>3, <1>4, <1>5, <1>6, <1>7, <1>21, <2>1, ActionBecomes, TypeOfStep
          DEF cluster, memory, EndWarmup
<1>22. ASSUME StartLoad PROVE IType'
  <2>1. pc # "idle"
    BY <1>22 DEF StartLoad
  <2> QED BY <1>1, <1>2, <1>3, <1>4, <1>5, <1>6, <1>7, <1>22, <2>1, ActionBecomes, TypeOfStep
          DEF cluster, memory, StartLoad
<1>23. ASSUME EndLoad PROVE IType'
  <2>1. pc # "idle"
    BY <1>23 DEF EndLoad
  <2> QED BY <1>1, <1>2, <1>3, <1>4, <1>5, <1>6, <1>7, <1>23, <2>1, ActionBecomes, TypeOfStep
          DEF cluster, memory, EndLoad
<1>24. ASSUME LoadFails PROVE IType'
  <2>1. pc # "idle"
    BY <1>24 DEF LoadFails
  <2> QED BY <1>1, <1>2, <1>3, <1>4, <1>5, <1>6, <1>7, <1>24, <2>1, ActionBecomes, TypeOfStep
          DEF cluster, memory, LoadFails
<1>25. ASSUME Postflight PROVE IType'
  <2>1. pc # "idle"
    BY <1>25 DEF Postflight
  <2> QED BY <1>1, <1>2, <1>3, <1>4, <1>5, <1>6, <1>7, <1>25, <2>1, ActionBecomes, TypeOfStep
          DEF cluster, memory, Postflight
<1>26. ASSUME Gates PROVE IType'
  <2>1. pc # "idle"
    BY <1>26 DEF Gates
  <2> QED BY <1>1, <1>2, <1>3, <1>4, <1>5, <1>6, <1>7, <1>26, <2>1, ActionBecomes, TypeOfStep
          DEF cluster, memory, Gates
<1>27. ASSUME Summarise PROVE IType'
  <2>1. pc = "summarise" /\ pc' = "report"
    BY <1>27 DEF Summarise
  <2>2. PICK a \in SummaryFactors :
          Becomes(r.history, r.files \cup {"summary"}, factors \cup a, r.reason, r.window)
    BY <1>27, <2>1, ActionBecomes
  <2> QED BY <1>1, <1>2, <1>27, <2>1, <2>2, TypeOfStep DEF Summarise, cluster, memory
<1>28. ASSUME Return PROVE IType'
  <2>1. pc # "idle"
    BY <1>28 DEF Return
  <2> QED BY <1>1, <1>2, <1>3, <1>4, <1>5, <1>6, <1>7, <1>28, <2>1, ActionBecomes, TypeOfStep
          DEF cluster, memory, Return
<1>29. ASSUME Raises PROVE IType'
  <2>1. pc # "idle"
    BY <1>29 DEF Raises
  <2> QED BY <1>1, <1>2, <1>3, <1>4, <1>5, <1>6, <1>7, <1>29, <2>1, ActionBecomes, TypeOfStep
          DEF cluster, memory, Raises
<1>30. ASSUME CompletionNotWritten PROVE IType'
  <2>1. pc # "idle"
    BY <1>30 DEF CompletionNotWritten
  <2> QED BY <1>1, <1>2, <1>3, <1>4, <1>5, <1>6, <1>7, <1>30, <2>1, ActionBecomes, TypeOfStep
          DEF cluster, memory, CompletionNotWritten
<1>31. ASSUME Fail PROVE IType'
  <2>1. pc # "idle"
    BY <1>31 DEF Fail
  <2> QED BY <1>1, <1>2, <1>3, <1>4, <1>5, <1>6, <1>7, <1>31, <2>1, ActionBecomes, TypeOfStep
          DEF cluster, memory, Fail
<1>32. ASSUME Crash PROVE IType'
  <2>1. pc # "idle"
    BY <1>32 DEF Crash
  <2> QED BY <1>1, <1>2, <1>3, <1>4, <1>5, <1>6, <1>7, <1>32, <2>1, ActionBecomes, TypeOfStep
          DEF cluster, memory, Crash
<1>33. ASSUME Cluster PROVE IType'
  <2>1. /\ pods' \in [Services -> Pod] /\ window' \in Windows /\ shocks' \in Nat
        /\ k6' \subseteq DOMAIN runs
        /\ UNCHANGED <<runs, markers, pc, memory, faults>>
    <3>1. CASE OrphanEnds
      BY <1>1, <3>1 DEF OrphanEnds, cluster
    <3>2. ASSUME NEW s \in Services, RestartPod(s)
          PROVE  /\ pods' \in [Services -> Pod] /\ window' \in Windows /\ shocks' \in Nat
                 /\ UNCHANGED <<runs, markers, k6, pc, memory, faults>>
      <4>1. [pods[s] EXCEPT !.restarts = @ + 1, !.ready = FALSE] \in Pod
        <5>1. pods[s] \in Pod
          BY <1>1
        <5>2. \A p \in Pod : [p EXCEPT !.restarts = @ + 1, !.ready = FALSE] \in Pod
          <6>1. ASSUME NEW p \in Pod
                PROVE  [p EXCEPT !.restarts = @ + 1, !.ready = FALSE] \in Pod
            <7>1. p.instance \in Nat /\ p.restarts + 1 \in Nat
              BY DEF Pod
            <7>2. [p EXCEPT !.restarts = p.restarts + 1, !.ready = FALSE] \in Pod
              BY <7>1 DEF Pod
            <7> QED BY <7>2
          <6> QED BY <6>1
        <5> QED BY <5>1, <5>2
      <4>2. pods' = [pods EXCEPT ![s] = [pods[s] EXCEPT !.restarts = @ + 1, !.ready = FALSE]]
        BY <1>1, <3>2 DEF RestartPod
      <4>3. pods' \in [Services -> Pod]
        BY <1>1, <4>1, <4>2
      <4>4. window' \in Windows /\ shocks' \in Nat
        BY <1>1, <3>2 DEF RestartPod, Shock, Windows
      <4> QED BY <3>2, <4>3, <4>4 DEF RestartPod
    <3>3. ASSUME NEW s \in Services, ReplacePod(s)
          PROVE  /\ pods' \in [Services -> Pod] /\ window' \in Windows /\ shocks' \in Nat
                 /\ UNCHANGED <<runs, markers, k6, pc, memory, faults>>
      BY <1>1, <3>3 DEF ReplacePod, Shock, Pod, Windows
    <3>4. ASSUME NEW s \in Services, PodReady(s)
          PROVE  /\ pods' \in [Services -> Pod] /\ window' \in Windows /\ shocks' \in Nat
                 /\ UNCHANGED <<runs, markers, k6, pc, memory, faults>>
      BY <1>1, <3>4 DEF PodReady, Pod
    <3> QED BY <1>1, <1>33, <3>1, <3>2, <3>3, <3>4 DEF Cluster
  <2> QED BY <1>1, <2>1 DEF IType, TypeOK, InProgress, memory, This
<1>34. CASE UNCHANGED vars
  BY <1>34 DEF vars, cluster, memory, IType, TypeOK, InProgress, This
<1> QED BY <1>9, <1>10, <1>11, <1>12, <1>13, <1>14, <1>15, <1>16, <1>17, <1>18, <1>19,
           <1>20, <1>21, <1>22, <1>23, <1>24, <1>25, <1>26, <1>27, <1>28, <1>29, <1>30,
           <1>31, <1>32, <1>33, <1>34 DEF Next, Step

-----------------------------------------------------------------------------
\* The evidence of every run.

LEMMA WrittenAt ==
  /\ Written("preflight") = {} /\ Written("trace") = {"preflight"}
  /\ Written("mark") = {"preflight"} /\ Written("poll") = {"preflight"}
  /\ Written("unmark") = {"preflight"} /\ Written("prepare") = {"preflight"}
  /\ Written("warm") = {"preflight", "manifest"}
  /\ Written("warming") = {"preflight", "manifest"}
  /\ Written("warmed") = {"preflight", "manifest"}
  /\ Written("loading") = {"preflight", "manifest"}
  /\ Written("collect") = {"preflight", "manifest", "k6"}
  /\ Written("gates") = {"preflight", "manifest", "k6"}
  /\ Written("summarise") = {"preflight", "manifest", "k6", "postflight", "gates"}
  /\ Written("report") = {"summary"} /\ Written("raised") = {} /\ Written("idle") = {}
BY DEF Written

\* The directories are sound, and that of the run in progress holds what it
\* should.
Evidence == AllSound /\ EvidenceSoFar

\* A step that leaves the run in progress with this history and these files,
\* factors and pods.
LEMMA EvidenceOfStep ==
  ASSUME AllSound, NEW h, NEW f, NEW g, NEW q, NEW w, Becomes(h, f, g, q, w),
         "summary" \in f =>
           {"preflight", "manifest", "k6", "postflight", "gates"} \subseteq f,
         Last(h) = "COMPLETED" => {"summary", "report"} \subseteq f,
         "summary" \in f /\ g = {} => w.restarted = {},
         pc' # "idle" => Written(pc') \subseteq f /\ (Unsummarised(pc') => "summary" \notin f)
  PROVE  Evidence'
<1>1. Sound(runs'[This])
  BY DEF Sound, Becomes
<1>2. \A i \in DOMAIN runs' : Sound(runs'[i])
  BY <1>1 DEF Becomes, AllSound
<1>3. EvidenceSoFar'
  BY DEF EvidenceSoFar, Becomes
<1> QED BY <1>2, <1>3 DEF Evidence, AllSound

LEMMA EvidenceStep == IType /\ Evidence /\ GatesClosed /\ [Next]_vars => Evidence'
<1> SUFFICES ASSUME IType, Evidence, GatesClosed, [Next]_vars
             PROVE  Evidence'
  OBVIOUS
<1> USE WrittenAt DEF Unsummarised
<1> DEFINE r == runs[This]
<1>1. AllSound /\ EvidenceSoFar
  BY DEF Evidence
<1>2. ASSUME pc # "idle"
      PROVE  /\ "summary" \in r.files =>
                   {"preflight", "manifest", "k6", "postflight", "gates"} \subseteq r.files
             /\ Last(r.history) = "COMPLETED" => {"summary", "report"} \subseteq r.files
             /\ "summary" \in r.files /\ r.factors = {} => r.window.restarted = {}
             /\ Written(pc) \subseteq r.files
             /\ Unsummarised(pc) => "summary" \notin r.files
             /\ \A s : Last(Append(r.history, s)) = s
  BY <1>1, <1>2, ThisRun, HistoryNow DEF IType, AllSound, Sound, EvidenceSoFar
<1>3. ASSUME NEW c \in Conditions, Begin(c)
      PROVE  Evidence'
  <2> DEFINE x == [condition |-> c, history |-> <<"PLANNED">>, files |-> {}, factors |-> {},
                   reason |-> "NONE", window |-> Quiet]
  <2>1. Sound(x) /\ "summary" \notin x.files
    BY FirstHistory DEF Sound
  <2>2. runs' = Append(runs, x) /\ pc' = "preflight"
    BY <1>3 DEF Begin
  <2> HIDE DEF x
  <2>3. runs \in Seq(Run) /\ Len(runs) \in Nat /\ DOMAIN runs = 1 .. Len(runs)
    BY LenProperties DEF IType, TypeOK
  <2>4. /\ This' = Len(runs) + 1 /\ runs'[This'] = x /\ DOMAIN runs' = 1 .. Len(runs) + 1
        /\ \A i \in DOMAIN runs : runs'[i] = runs[i]
    BY <2>2, <2>3 DEF This
  <2>5. AllSound'
    BY <1>1, <2>1, <2>3, <2>4 DEF AllSound
  <2>6. EvidenceSoFar'
    BY <2>1, <2>2, <2>4 DEF EvidenceSoFar
  <2> QED BY <2>5, <2>6 DEF Evidence
<1>4. ASSUME TraceMarker PROVE Evidence'
  <2>1. pc # "idle"
    BY <1>4 DEF TraceMarker
  <2> QED BY <1>1, <1>2, <1>4, <2>1, ActionBecomes, EvidenceOfStep DEF TraceMarker
<1>5. ASSUME CreateMarker PROVE Evidence'
  <2>1. pc # "idle"
    BY <1>5 DEF CreateMarker
  <2> QED BY <1>1, <1>2, <1>5, <2>1, ActionBecomes, EvidenceOfStep DEF CreateMarker
<1>6. ASSUME PollMarker PROVE Evidence'
  <2>1. pc # "idle"
    BY <1>6 DEF PollMarker
  <2> QED BY <1>1, <1>2, <1>6, <2>1, ActionBecomes, EvidenceOfStep DEF PollMarker
<1>7. ASSUME DeleteMarker PROVE Evidence'
  <2>1. pc # "idle"
    BY <1>7 DEF DeleteMarker
  <2> QED BY <1>1, <1>2, <1>7, <2>1, ActionBecomes, EvidenceOfStep
             DEF DeleteMarker, AfterMarker
<1>8. ASSUME DeleteMarkerFails PROVE Evidence'
  <2>1. pc # "idle"
    BY <1>8 DEF DeleteMarkerFails
  <2> QED BY <1>1, <1>2, <1>8, <2>1, ActionBecomes, EvidenceOfStep
             DEF DeleteMarkerFails, AfterMarker
<1>9. ASSUME StartWarmup PROVE Evidence'
  <2>1. pc # "idle"
    BY <1>9 DEF StartWarmup
  <2> QED BY <1>1, <1>2, <1>9, <2>1, ActionBecomes, EvidenceOfStep DEF StartWarmup
<1>10. ASSUME NoWarmup PROVE Evidence'
  <2>1. pc # "idle"
    BY <1>10 DEF NoWarmup
  <2> QED BY <1>1, <1>2, <1>10, <2>1, ActionBecomes, EvidenceOfStep DEF NoWarmup
<1>11. ASSUME EndWarmup PROVE Evidence'
  <2>1. pc # "idle"
    BY <1>11 DEF EndWarmup
  <2> QED BY <1>1, <1>2, <1>11, <2>1, ActionBecomes, EvidenceOfStep DEF EndWarmup
<1>12. ASSUME Crash PROVE Evidence'
  <2>1. pc # "idle"
    BY <1>12 DEF Crash
  <2> QED BY <1>1, <1>2, <1>12, <2>1, ActionBecomes, EvidenceOfStep DEF Crash
<1>13. ASSUME Preflight PROVE Evidence'
  <2>1. pc # "idle"
    BY <1>13 DEF Preflight
  <2> QED BY <1>1, <1>2, <1>13, <2>1, ActionBecomes, EvidenceOfStep DEF Preflight
<1>14. ASSUME MarkerExists PROVE Evidence'
  <2>1. pc # "idle"
    BY <1>14 DEF MarkerExists
  <2> QED BY <1>1, <1>2, <1>14, <2>1, ActionBecomes, EvidenceOfStep DEF MarkerExists
<1>15. ASSUME MarkerFails PROVE Evidence'
  <2>1. pc # "idle"
    BY <1>15 DEF MarkerFails
  <2> QED BY <1>1, <1>2, <1>15, <2>1, ActionBecomes, EvidenceOfStep DEF MarkerFails
<1>16. ASSUME LoadFails PROVE Evidence'
  <2>1. pc # "idle"
    BY <1>16 DEF LoadFails
  <2> QED BY <1>1, <1>2, <1>16, <2>1, ActionBecomes, EvidenceOfStep DEF LoadFails
<1>17. ASSUME Raises PROVE Evidence'
  <2>1. pc # "idle"
    BY <1>17 DEF Raises
  <2> QED BY <1>1, <1>2, <1>17, <2>1, ActionBecomes, EvidenceOfStep DEF Raises
<1>18. ASSUME Prepare PROVE Evidence'
  <2>1. pc # "idle"
    BY <1>18 DEF Prepare
  <2> QED BY <1>1, <1>2, <1>18, <2>1, ActionBecomes, EvidenceOfStep DEF Prepare
<1>19. ASSUME StartLoad PROVE Evidence'
  <2>1. pc # "idle"
    BY <1>19 DEF StartLoad
  <2> QED BY <1>1, <1>2, <1>19, <2>1, ActionBecomes, EvidenceOfStep DEF StartLoad
<1>20. ASSUME EndLoad PROVE Evidence'
  <2>1. pc # "idle"
    BY <1>20 DEF EndLoad
  <2> QED BY <1>1, <1>2, <1>20, <2>1, ActionBecomes, EvidenceOfStep DEF EndLoad
<1>21. ASSUME Postflight PROVE Evidence'
  <2>1. pc # "idle"
    BY <1>21 DEF Postflight
  <2> QED BY <1>1, <1>2, <1>21, <2>1, ActionBecomes, EvidenceOfStep DEF Postflight
<1>22. ASSUME Gates PROVE Evidence'
  <2>1. pc # "idle"
    BY <1>22 DEF Gates
  <2> QED BY <1>1, <1>2, <1>22, <2>1, ActionBecomes, EvidenceOfStep DEF Gates
<1>23. ASSUME Summarise PROVE Evidence'
  <2>1. pc = "summarise" /\ pc' = "report"
    BY <1>23 DEF Summarise
  <2>2. PICK a \in SummaryFactors :
          Becomes(r.history, r.files \cup {"summary"}, factors \cup a, r.reason, r.window)
    BY <1>23, <2>1, ActionBecomes
  <2>3. factors \cup a = {} => r.window.restarted = {}
    BY <2>1 DEF GatesClosed
  <2>4. Last(r.history) # "COMPLETED"
    BY <1>2, <2>1
  <2> QED BY <1>1, <1>2, <2>1, <2>2, <2>3, <2>4, EvidenceOfStep
<1>24. ASSUME Return PROVE Evidence'
  <2>1. pc # "idle"
    BY <1>24 DEF Return
  <2> QED BY <1>1, <1>2, <1>24, <2>1, ActionBecomes, EvidenceOfStep DEF Return
<1>25. ASSUME CompletionNotWritten PROVE Evidence'
  <2>1. pc # "idle"
    BY <1>25 DEF CompletionNotWritten
  <2> QED BY <1>1, <1>2, <1>25, <2>1, ActionBecomes, EvidenceOfStep DEF CompletionNotWritten
<1>26. ASSUME Fail PROVE Evidence'
  <2>1. pc # "idle"
    BY <1>26 DEF Fail
  <2> QED BY <1>1, <1>2, <1>26, <2>1, ActionBecomes, EvidenceOfStep DEF Fail
<1>27. ASSUME Cluster \/ UNCHANGED vars PROVE Evidence'
  <2>1. UNCHANGED <<runs, pc>>
    BY <1>27 DEF Cluster, OrphanEnds, RestartPod, ReplacePod, PodReady, vars
  <2> QED BY <1>1, <2>1 DEF Evidence, AllSound, EvidenceSoFar, This
<1> QED BY <1>3, <1>4, <1>5, <1>6, <1>7, <1>8, <1>9, <1>10, <1>11, <1>12, <1>13, <1>14,
           <1>15, <1>16, <1>17, <1>18, <1>19, <1>20, <1>21, <1>22, <1>23, <1>24, <1>25,
           <1>26, <1>27 DEF Next, Step

-----------------------------------------------------------------------------
\* The restarts between the snapshots.

LEMMA RestartsCountedStep == IType /\ RestartsCounted /\ [Next]_vars => RestartsCounted'
<1> SUFFICES ASSUME IType, RestartsCounted, [Next]_vars, pc' \in Measuring
             PROVE  \A s \in Services :
                      /\ pods'[s].instance >= before'[s].instance
                      /\ pods'[s].restarts >= Known(s, pods)'
                      /\ s \in window'.restarted => pods'[s].restarts > Known(s, pods)'
  BY DEF RestartsCounted
<1>1. /\ pods \in [Services -> Pod] /\ before \in [Services -> Pod]
      /\ window \in Windows
  BY DEF IType, TypeOK
<1>2. CASE Preflight
  BY <1>1, <1>2 DEF Preflight, Quiet, Known, Pod, cluster
<1>3. ASSUME UNCHANGED <<pods, before, window>>, pc \in Measuring
      PROVE  \A s \in Services :
               /\ pods'[s].instance >= before'[s].instance
               /\ pods'[s].restarts >= Known(s, pods)'
               /\ s \in window'.restarted => pods'[s].restarts > Known(s, pods)'
  BY <1>3 DEF RestartsCounted, Known
<1>4. CASE \E c \in Conditions : Begin(c)
  BY <1>4 DEF Begin, Measuring
<1>5. CASE TraceMarker \/ CreateMarker \/ MarkerExists \/ PollMarker \/ MarkerFails
           \/ DeleteMarker \/ DeleteMarkerFails \/ Prepare
  BY <1>3, <1>5
     DEF TraceMarker, CreateMarker, MarkerExists, PollMarker, MarkerFails, DeleteMarker,
         DeleteMarkerFails, Prepare, AfterMarker, Measuring, cluster, memory, Forget
<1>6. CASE StartWarmup \/ NoWarmup \/ EndWarmup \/ StartLoad \/ EndLoad
           \/ LoadFails \/ Postflight \/ Gates
  BY <1>3, <1>6
     DEF StartWarmup, NoWarmup, EndWarmup, StartLoad, EndLoad, LoadFails, Postflight, Gates,
         Measuring, cluster, memory, Forget
<1>7. CASE Summarise \/ Return \/ Raises \/ CompletionNotWritten \/ Fail
           \/ Crash
  BY <1>3, <1>7
     DEF Summarise, Return, Raises, CompletionNotWritten, Fail, Crash, Measuring, cluster,
         memory, Forget
<1>8. ASSUME pc \in Measuring, UNCHANGED before, NEW t \in Services,
             \A s \in Services : s # t =>
               /\ pods'[s] = pods[s]
               /\ s \in window'.restarted <=> s \in window.restarted,
             pods'[t].instance >= before[t].instance,
             pods'[t].restarts >= Known(t, pods)',
             t \in window'.restarted => pods'[t].restarts > Known(t, pods)'
      PROVE  \A s \in Services :
               /\ pods'[s].instance >= before'[s].instance
               /\ pods'[s].restarts >= Known(s, pods)'
               /\ s \in window'.restarted => pods'[s].restarts > Known(s, pods)'
  BY <1>8 DEF RestartsCounted, Known
<1>9. ASSUME NEW t \in Services
      PROVE  /\ pods[t].instance \in Nat /\ pods[t].restarts \in Nat
             /\ before[t].instance \in Nat /\ before[t].restarts \in Nat
             /\ pc \in Measuring => pods[t].instance >= before[t].instance
             /\ pc \in Measuring => pods[t].restarts >= Known(t, pods)
             /\ pc \in Measuring /\ t \in window.restarted =>
                  pods[t].restarts > Known(t, pods)
  BY <1>1 DEF Pod, RestartsCounted
<1>10. ASSUME NEW t \in Services, RestartPod(t)
       PROVE  \A s \in Services :
                /\ pods'[s].instance >= before'[s].instance
                /\ pods'[s].restarts >= Known(s, pods)'
                /\ s \in window'.restarted => pods'[s].restarts > Known(s, pods)'
  <2>1. pc \in Measuring /\ UNCHANGED before
    BY <1>10 DEF RestartPod, memory
  <2>2. pods' = [pods EXCEPT ![t].restarts = @ + 1, ![t].ready = FALSE]
    BY <1>10 DEF RestartPod
  <2>3. /\ pods'[t].instance = pods[t].instance /\ pods'[t].restarts = pods[t].restarts + 1
        /\ \A s \in Services : s # t => pods'[s] = pods[s]
    BY <1>1, <2>2 DEF Pod
  <2>4. \A s \in Services : s # t => (s \in window'.restarted <=> s \in window.restarted)
    BY <1>1, <1>10 DEF RestartPod, Windows
  <2>5. pods'[t].restarts > Known(t, pods)' /\ pods'[t].restarts >= Known(t, pods)'
    BY <1>9, <2>1, <2>3 DEF Known
  <2> QED BY <1>8, <1>9, <2>1, <2>3, <2>4, <2>5
<1>11. ASSUME NEW t \in Services, ReplacePod(t)
       PROVE  \A s \in Services :
                /\ pods'[s].instance >= before'[s].instance
                /\ pods'[s].restarts >= Known(s, pods)'
                /\ s \in window'.restarted => pods'[s].restarts > Known(s, pods)'
  <2>1. pc \in Measuring /\ UNCHANGED before
    BY <1>11 DEF ReplacePod, memory
  <2>2. /\ pods'[t].instance = pods[t].instance + 1 /\ pods'[t].restarts = 0
        /\ \A s \in Services : s # t => pods'[s] = pods[s]
    BY <1>1, <1>11 DEF ReplacePod
  <2>3. /\ t \notin window'.restarted
        /\ \A s \in Services : s # t => (s \in window'.restarted <=> s \in window.restarted)
    BY <1>1, <1>11 DEF ReplacePod, Windows
  <2>4. pods'[t].restarts >= Known(t, pods)' /\ pods'[t].instance >= before[t].instance
    BY <1>9, <2>1, <2>2 DEF Known
  <2> QED BY <1>8, <2>1, <2>2, <2>3, <2>4
<1>12. ASSUME NEW t \in Services, PodReady(t)
       PROVE  \A s \in Services :
                /\ pods'[s].instance >= before'[s].instance
                /\ pods'[s].restarts >= Known(s, pods)'
                /\ s \in window'.restarted => pods'[s].restarts > Known(s, pods)'
  <2>1. pc \in Measuring /\ UNCHANGED <<before, window>>
    BY <1>12 DEF PodReady, memory
  <2>2. /\ pods'[t].instance = pods[t].instance /\ pods'[t].restarts = pods[t].restarts
        /\ \A s \in Services : s # t => pods'[s] = pods[s]
    BY <1>1, <1>12 DEF PodReady, Pod
  <2>3. /\ pods'[t].restarts >= Known(t, pods)'
        /\ t \in window'.restarted => pods'[t].restarts > Known(t, pods)'
    BY <1>9, <2>1, <2>2 DEF Known
  <2> QED BY <1>8, <1>9, <2>1, <2>2, <2>3
<1>13. CASE OrphanEnds \/ UNCHANGED vars
  BY <1>3, <1>13 DEF OrphanEnds, vars, cluster, memory
<1> QED BY <1>2, <1>4, <1>5, <1>6, <1>7, <1>10, <1>11, <1>12, <1>13 DEF Next, Step, Cluster

\* Only three actions lead to a point where the gates are looked at.
LEMMA GatesReached ==
  ASSUME Next, pc' \in {"gates", "summarise"}
  PROVE  Postflight \/ Gates \/ Cluster
BY DEF Next, Step, Begin, Preflight, TraceMarker, CreateMarker, MarkerExists, PollMarker,
   MarkerFails, DeleteMarker, DeleteMarkerFails, Prepare, StartWarmup, NoWarmup, EndWarmup,
   StartLoad, EndLoad, LoadFails, Summarise, Return, Raises, CompletionNotWritten, Fail,
   Crash, AfterMarker

LEMMA GatesStep ==
  IType /\ RestartsCounted /\ RestartsSeen /\ GatesClosed /\ [Next]_vars
    => RestartsSeen' /\ GatesClosed'
<1> SUFFICES ASSUME IType, RestartsCounted, RestartsSeen, GatesClosed, [Next]_vars,
                    pc' \in {"gates", "summarise"}
             PROVE  RestartsSeen' /\ GatesClosed'
  BY DEF RestartsSeen, GatesClosed
<1>1. ASSUME Postflight
      PROVE  RestartsSeen' /\ GatesClosed'
  <2>1. pc = "collect" /\ pc' = "gates" /\ after' = pods /\ before' = before
    BY <1>1 DEF Postflight
  <2>2. This' = This /\ runs'[This].window = window
    BY <1>1, <2>1, ActionBecomes DEF Becomes
  <2>3. \A s \in window.restarted : pods[s].restarts > Known(s, pods)
    BY <2>1 DEF RestartsCounted, Measuring, IType, TypeOK, Windows
  <2>4. RestartsSeen'
    BY <2>1, <2>2, <2>3 DEF RestartsSeen, Known
  <2> QED BY <2>1, <2>4 DEF GatesClosed
<1>2. ASSUME Gates
      PROVE  RestartsSeen' /\ GatesClosed'
  <2>1. pc = "gates" /\ pc' = "summarise" /\ UNCHANGED markers
    BY <1>2 DEF Gates
  <2>2. This' = This /\ runs'[This].window = runs[This].window
    BY <1>2, <2>1, ActionBecomes DEF Becomes
  <2>3. ASSUME NEW s \in runs[This].window.restarted
        PROVE  RestartDeltaGate(before, after) = {"WORKLOAD_RESTARTS_INCREASED"}
    <3>1. s \in Services
      BY <2>1, ThisRun, RunFields DEF IType, Windows
    <3>2. after[s].restarts > Known(s, after)
      BY <2>1 DEF RestartsSeen
    <3> QED BY <3>1, <3>2 DEF RestartDeltaGate, Known
  <2>4. CleanupGate \subseteq factors' /\ RestartDeltaGate(before, after) \subseteq factors'
    BY <1>2 DEF Gates
  <2>5. factors' = {} => markers' = {}
    BY <2>1, <2>4 DEF CleanupGate
  <2>6. runs'[This'].window.restarted # {} => "WORKLOAD_RESTARTS_INCREASED" \in factors'
    BY <2>2, <2>3, <2>4
  <2> QED BY <2>1, <2>5, <2>6 DEF RestartsSeen, GatesClosed
<1>3. ASSUME Cluster \/ UNCHANGED vars
      PROVE  RestartsSeen' /\ GatesClosed'
  <2>1. UNCHANGED <<runs, pc, before, after, factors, markers>>
    BY <1>3 DEF Cluster, OrphanEnds, RestartPod, ReplacePod, PodReady, vars, memory
  <2> QED BY <2>1 DEF RestartsSeen, GatesClosed, Known, This
<1> QED BY <1>1, <1>2, <1>3, GatesReached

-----------------------------------------------------------------------------
\* The namespace.

LEMMA ValidLeavesNothingStep ==
  IType /\ EvidenceSoFar /\ GatesClosed /\ ValidLeavesNothing /\ [Next]_vars
    => ValidLeavesNothing'
<1> SUFFICES ASSUME IType, EvidenceSoFar, GatesClosed, ValidLeavesNothing, [Next]_vars
             PROVE  ValidLeavesNothing'
  OBVIOUS
<1> USE DEF Unsummarised, ValidLeavesNothing, ValidRun, Summarised
<1> DEFINE r == runs[This]
<1>1. ASSUME pc # "idle"
      PROVE  runs # <<>>
  BY <1>1 DEF IType, TypeOK
<1>2. ASSUME pc # "idle", NEW h, NEW f, NEW g, NEW q, NEW w, Becomes(h, f, g, q, w),
             "summary" \notin f
      PROVE  ValidLeavesNothing'
  BY <1>2 DEF Becomes
<1>3. ASSUME pc # "idle", NEW h, NEW f, NEW g, NEW q, NEW w, Becomes(h, f, g, q, w),
             "summary" \in f => "summary" \in r.files, g = r.factors,
             markers' \subseteq markers
      PROVE  ValidLeavesNothing'
  BY <1>1, <1>3 DEF Becomes
<1>4. ASSUME NEW c \in Conditions, Begin(c)
      PROVE  ValidLeavesNothing'
  <2> DEFINE x == [condition |-> c, history |-> <<"PLANNED">>, files |-> {}, factors |-> {},
                   reason |-> "NONE", window |-> Quiet]
  <2>1. "summary" \notin x.files
    OBVIOUS
  <2>2. runs' = Append(runs, x)
    BY <1>4 DEF Begin
  <2> HIDE DEF x
  <2>3. runs \in Seq(Run) /\ Len(runs) \in Nat
    BY LenProperties DEF IType, TypeOK
  <2>4. runs'[This'] = x
    BY <2>2, <2>3 DEF This
  <2> QED BY <2>1, <2>4
<1>5. ASSUME Preflight PROVE ValidLeavesNothing'
  <2>1. pc # "idle"
    BY <1>5 DEF Preflight
  <2> QED BY <1>3, <1>5, <2>1, ActionBecomes DEF Preflight
<1>6. ASSUME TraceMarker PROVE ValidLeavesNothing'
  <2>1. pc # "idle"
    BY <1>6 DEF TraceMarker
  <2> QED BY <1>3, <1>6, <2>1, ActionBecomes DEF TraceMarker
<1>7. ASSUME CreateMarker PROVE ValidLeavesNothing'
  <2>1. pc # "idle"
    BY <1>7 DEF CreateMarker
  <2>2. "summary" \notin r.files
    BY <1>7 DEF CreateMarker, EvidenceSoFar
  <2> QED BY <1>2, <1>7, <2>1, <2>2, ActionBecomes DEF CreateMarker
<1>8. ASSUME MarkerExists PROVE ValidLeavesNothing'
  <2>1. pc # "idle"
    BY <1>8 DEF MarkerExists
  <2> QED BY <1>3, <1>8, <2>1, ActionBecomes DEF MarkerExists
<1>9. ASSUME PollMarker PROVE ValidLeavesNothing'
  <2>1. pc # "idle"
    BY <1>9 DEF PollMarker
  <2> QED BY <1>3, <1>9, <2>1, ActionBecomes DEF PollMarker
<1>10. ASSUME MarkerFails PROVE ValidLeavesNothing'
  <2>1. pc # "idle"
    BY <1>10 DEF MarkerFails
  <2> QED BY <1>3, <1>10, <2>1, ActionBecomes DEF MarkerFails
<1>11. ASSUME DeleteMarker PROVE ValidLeavesNothing'
  <2>1. pc # "idle"
    BY <1>11 DEF DeleteMarker
  <2> QED BY <1>3, <1>11, <2>1, ActionBecomes DEF DeleteMarker
<1>12. ASSUME DeleteMarkerFails PROVE ValidLeavesNothing'
  <2>1. pc # "idle"
    BY <1>12 DEF DeleteMarkerFails
  <2> QED BY <1>3, <1>12, <2>1, ActionBecomes DEF DeleteMarkerFails
<1>13. ASSUME Prepare PROVE ValidLeavesNothing'
  <2>1. pc # "idle"
    BY <1>13 DEF Prepare
  <2> QED BY <1>3, <1>13, <2>1, ActionBecomes DEF Prepare
<1>14. ASSUME StartWarmup PROVE ValidLeavesNothing'
  <2>1. pc # "idle"
    BY <1>14 DEF StartWarmup
  <2> QED BY <1>3, <1>14, <2>1, ActionBecomes DEF StartWarmup
<1>15. ASSUME NoWarmup PROVE ValidLeavesNothing'
  <2>1. pc # "idle"
    BY <1>15 DEF NoWarmup
  <2> QED BY <1>3, <1>15, <2>1, ActionBecomes DEF NoWarmup
<1>16. ASSUME EndWarmup PROVE ValidLeavesNothing'
  <2>1. pc # "idle"
    BY <1>16 DEF EndWarmup
  <2> QED BY <1>3, <1>16, <2>1, ActionBecomes DEF EndWarmup
<1>17. ASSUME StartLoad PROVE ValidLeavesNothing'
  <2>1. pc # "idle"
    BY <1>17 DEF StartLoad
  <2> QED BY <1>3, <1>17, <2>1, ActionBecomes DEF StartLoad
<1>18. ASSUME EndLoad PROVE ValidLeavesNothing'
  <2>1. pc # "idle"
    BY <1>18 DEF EndLoad
  <2> QED BY <1>3, <1>18, <2>1, ActionBecomes DEF EndLoad
<1>19. ASSUME LoadFails PROVE ValidLeavesNothing'
  <2>1. pc # "idle"
    BY <1>19 DEF LoadFails
  <2> QED BY <1>3, <1>19, <2>1, ActionBecomes DEF LoadFails
<1>20. ASSUME Postflight PROVE ValidLeavesNothing'
  <2>1. pc # "idle"
    BY <1>20 DEF Postflight
  <2> QED BY <1>3, <1>20, <2>1, ActionBecomes DEF Postflight
<1>21. ASSUME Gates PROVE ValidLeavesNothing'
  <2>1. pc # "idle"
    BY <1>21 DEF Gates
  <2> QED BY <1>3, <1>21, <2>1, ActionBecomes DEF Gates
<1>22. ASSUME Summarise PROVE ValidLeavesNothing'
  <2>1. pc = "summarise" /\ UNCHANGED markers
    BY <1>22 DEF Summarise
  <2>2. PICK a \in SummaryFactors :
          Becomes(r.history, r.files \cup {"summary"}, factors \cup a, r.reason, r.window)
    BY <1>22, <2>1, ActionBecomes
  <2>3. factors \cup a = {} => markers = {}
    BY <2>1 DEF GatesClosed
  <2> QED BY <2>1, <2>2, <2>3 DEF Becomes
<1>23. ASSUME Return PROVE ValidLeavesNothing'
  <2>1. pc # "idle"
    BY <1>23 DEF Return
  <2> QED BY <1>3, <1>23, <2>1, ActionBecomes DEF Return
<1>24. ASSUME Raises PROVE ValidLeavesNothing'
  <2>1. pc # "idle"
    BY <1>24 DEF Raises
  <2> QED BY <1>3, <1>24, <2>1, ActionBecomes DEF Raises
<1>25. ASSUME CompletionNotWritten PROVE ValidLeavesNothing'
  <2>1. pc # "idle"
    BY <1>25 DEF CompletionNotWritten
  <2>2. UNCHANGED markers
    BY <1>25 DEF CompletionNotWritten
  <2>3. Becomes(Append(r.history, "COMPLETED"), r.files \cup {"report"}, r.factors, "ERROR",
                r.window)
    BY <1>25, <2>1, ActionBecomes
  <2> QED BY <1>3, <2>1, <2>2, <2>3
<1>26. ASSUME Fail PROVE ValidLeavesNothing'
  <2>1. pc # "idle"
    BY <1>26 DEF Fail
  <2> QED BY <1>3, <1>26, <2>1, ActionBecomes DEF Fail
<1>27. ASSUME Crash PROVE ValidLeavesNothing'
  <2>1. pc # "idle"
    BY <1>27 DEF Crash
  <2> QED BY <1>3, <1>27, <2>1, ActionBecomes DEF Crash
<1>28. ASSUME Cluster \/ UNCHANGED vars PROVE ValidLeavesNothing'
  <2>1. UNCHANGED <<runs, markers>>
    BY <1>28 DEF Cluster, OrphanEnds, RestartPod, ReplacePod, PodReady, vars
  <2> QED BY <2>1 DEF This
<1> QED BY <1>4, <1>5, <1>6, <1>7, <1>8, <1>9, <1>10, <1>11, <1>12, <1>13, <1>14, <1>15,
           <1>16, <1>17, <1>18, <1>19, <1>20, <1>21, <1>22, <1>23, <1>24, <1>25, <1>26,
           <1>27, <1>28 DEF Next, Step

-----------------------------------------------------------------------------
\* The invariant.

LEMMA Initially == Init => IInv
<1> SUFFICES ASSUME Init
             PROVE  IInv
  OBVIOUS
<1>1. runs = <<>> /\ pc = "idle" /\ DOMAIN runs = {}
  BY DEF Init
<1>2. TypeOK
  <2>1. /\ pods \in [Services -> Pod] /\ before \in [Services -> Pod]
        /\ after \in [Services -> Pod]
    BY DEF Init, NoPods, Pod
  <2>2. Shown(pc) = "ANY"
    BY <1>1, ShownAt
  <2> QED BY <1>1, <2>1, <2>2 DEF Init, TypeOK, Quiet, Windows
<1> QED BY <1>1, <1>2 DEF IInv, IType, InProgress, EvidenceSoFar, AllSound, RestartsCounted,
           Measuring, RestartsSeen, GatesClosed, ValidLeavesNothing

LEMMA Inductive == IInv /\ [Next]_vars => IInv'
BY TypeStep, EvidenceStep, RestartsCountedStep, GatesStep, ValidLeavesNothingStep
   DEF IInv, Evidence

LEMMA Invariant == Spec => []IInv
<1>1. Init => IInv
  BY Initially
<1>2. IInv /\ [Next]_vars => IInv'
  BY Inductive
<1> QED BY <1>1, <1>2, PTL DEF Spec

\* The state has its type: the history of every run is one that BW-07 allows,
\* and shows where _repeat is.
THEOREM TypeCorrect == Spec => []TypeOK
<1>1. IInv => TypeOK
  BY DEF IInv, IType
<1> QED BY <1>1, Invariant, PTL

\* A run whose summary is without a factor saw no restart of a pod that was
\* there at its end: restart_delta_gate misses none between its snapshots.
THEOREM RestartsInvalidate == Spec => []RestartInvalidates
<1>1. IInv => RestartInvalidates
  BY DEF IInv, AllSound, Sound, RestartInvalidates, ValidRun, Summarised
<1> QED BY <1>1, Invariant, PTL

\* After a valid run there is no temporary pod in the namespace, whoever left it.
THEOREM ValidRunsLeaveNothing == Spec => []ValidLeavesNothing
<1>1. IInv => ValidLeavesNothing
  BY DEF IInv
<1> QED BY <1>1, Invariant, PTL

\* A summary is written after all the evidence it rests on, and COMPLETED after
\* the summary, wherever _repeat was interrupted.
THEOREM SummaryIsLast == Spec => []EvidenceComplete
<1>1. IInv => EvidenceComplete
  BY DEF IInv, AllSound, Sound, EvidenceComplete, Summarised
<1> QED BY <1>1, Invariant, PTL

-----------------------------------------------------------------------------
\* The accounts of the marker pods.

LEMMA FiniteAccounts ==
  ASSUME IType
  PROVE  IsFiniteSet(Blocked) /\ IsFiniteSet(Leaked)
<1>1. IsFiniteSet(Leaked)
  <2>1. Leaked \subseteq Conditions
    BY DEF Leaked, IType, TypeOK
  <2> QED BY <2>1, FS_Subset, RunAssumption
<1>2. IsFiniteSet(Blocked)
  <2>1. DOMAIN runs = 1 .. Len(runs) /\ Len(runs) \in Nat
    BY LenProperties DEF IType, TypeOK
  <2>2. IsFiniteSet(1 .. Len(runs))
    BY <2>1, FS_Interval
  <2>3. Blocked \subseteq 1 .. Len(runs)
    BY <2>1 DEF Blocked
  <2> QED BY <2>2, <2>3, FS_Subset
<1> QED BY <1>1, <1>2

LEMMA NoMore ==
  ASSUME NEW S, NEW T, IsFiniteSet(S), T \subseteq S
  PROVE  Cardinality(S) \in Nat /\ Cardinality(T) \in Nat /\ Cardinality(T) <= Cardinality(S)
BY FS_Subset, FS_CardinalityType

LEMMA OneMore ==
  ASSUME NEW S, NEW T, NEW e, IsFiniteSet(S), T \subseteq S \cup {e}
  PROVE  /\ Cardinality(S) \in Nat /\ Cardinality(T) \in Nat
         /\ Cardinality(T) <= Cardinality(S) + 1
<1>1. /\ IsFiniteSet(S \cup {e}) /\ Cardinality(S \cup {e}) <= Cardinality(S) + 1
      /\ Cardinality(S) \in Nat
  <2>1. Cardinality(S) \in Nat
    BY FS_CardinalityType
  <2>2. /\ IsFiniteSet(S \cup {e})
        /\ Cardinality(S \cup {e}) = IF e \in S THEN Cardinality(S) ELSE Cardinality(S) + 1
    BY FS_AddElement
  <2> QED BY <2>1, <2>2
<1>2. /\ Cardinality(S \cup {e}) \in Nat /\ Cardinality(T) \in Nat
      /\ Cardinality(T) <= Cardinality(S \cup {e})
  BY <1>1, NoMore
<1> QED BY <1>1, <1>2

LEMMA OneLess ==
  ASSUME NEW S, NEW e \in S, IsFiniteSet(S)
  PROVE  /\ Cardinality(S) \in Nat /\ Cardinality(S \ {e}) \in Nat
         /\ Cardinality(S \ {e}) + 1 = Cardinality(S)
<1>1. IsFiniteSet(S \ {e}) /\ Cardinality(S \ {e}) = Cardinality(S) - 1
  BY FS_RemoveElement
<1>2. Cardinality(S) \in Nat /\ Cardinality(S \ {e}) \in Nat
  BY <1>1, FS_CardinalityType
<1> QED BY <1>1, <1>2

LEMMA LeakStep == IType /\ LeakCostsOneRun /\ [Next]_vars => LeakCostsOneRun'
<1> SUFFICES ASSUME IType, LeakCostsOneRun, [Next]_vars
             PROVE  Cardinality(Blocked') + Cardinality(Leaked') <= faults'
  BY DEF LeakCostsOneRun
<1>1. /\ faults \in Nat /\ Cardinality(Blocked) + Cardinality(Leaked) <= faults
      /\ IsFiniteSet(Blocked) /\ IsFiniteSet(Leaked)
  BY FiniteAccounts DEF LeakCostsOneRun, IType, TypeOK
<1>2. Fault => faults' = faults + 1
  BY DEF Fault
\* A step that adds to neither account,
<1>3. ASSUME Blocked' \subseteq Blocked, Leaked' \subseteq Leaked,
             faults' = faults \/ faults' = faults + 1
      PROVE  Cardinality(Blocked') + Cardinality(Leaked') <= faults'
  <2>1. /\ Cardinality(Blocked) \in Nat /\ Cardinality(Blocked') \in Nat
        /\ Cardinality(Blocked') <= Cardinality(Blocked)
    BY <1>1, <1>3, NoMore
  <2>2. /\ Cardinality(Leaked) \in Nat /\ Cardinality(Leaked') \in Nat
        /\ Cardinality(Leaked') <= Cardinality(Leaked)
    BY <1>1, <1>3, NoMore
  <2> QED BY <1>1, <1>3, <2>1, <2>2
\* one that leaks a marker and is charged to a fault,
<1>4. ASSUME NEW c, Blocked' \subseteq Blocked, Leaked' \subseteq Leaked \cup {c},
             faults' = faults + 1
      PROVE  Cardinality(Blocked') + Cardinality(Leaked') <= faults'
  <2>1. /\ Cardinality(Blocked) \in Nat /\ Cardinality(Blocked') \in Nat
        /\ Cardinality(Blocked') <= Cardinality(Blocked)
    BY <1>1, <1>4, NoMore
  <2>2. /\ Cardinality(Leaked) \in Nat /\ Cardinality(Leaked') \in Nat
        /\ Cardinality(Leaked') <= Cardinality(Leaked) + 1
    BY <1>1, <1>4, OneMore
  <2> QED BY <1>1, <1>4, <2>1, <2>2
\* and one that moves an entry from one account to the other.
<1>5. ASSUME NEW i, NEW c \in Leaked, Blocked' \subseteq Blocked \cup {i},
             Leaked' = Leaked \ {c}, faults' = faults
      PROVE  Cardinality(Blocked') + Cardinality(Leaked') <= faults'
  <2>1. /\ Cardinality(Blocked) \in Nat /\ Cardinality(Blocked') \in Nat
        /\ Cardinality(Blocked') <= Cardinality(Blocked) + 1
    BY <1>1, <1>5, OneMore
  <2>2. /\ Cardinality(Leaked) \in Nat /\ Cardinality(Leaked') \in Nat
        /\ Cardinality(Leaked') + 1 = Cardinality(Leaked)
    BY <1>1, <1>5, OneLess
  <2> QED BY <1>1, <1>5, <2>1, <2>2
<1> DEFINE r == runs[This]
\* Which runs are blocked after a step of the run in progress.
<1>6. ASSUME pc # "idle", NEW h, NEW f, NEW g, NEW q, NEW w, Becomes(h, f, g, q, w)
      PROVE  /\ Condition' = Condition
             /\ q # "MARKER_EXISTS" \/ q = r.reason => Blocked' \subseteq Blocked
             /\ Blocked' \subseteq Blocked \cup {This}
  <2>1. This \in DOMAIN runs
    BY <1>6, ThisRun DEF IType
  <2> QED BY <1>6, <2>1 DEF Becomes, Blocked
<1>7. ASSUME NEW c \in Conditions, Begin(c)
      PROVE  Cardinality(Blocked') + Cardinality(Leaked') <= faults'
  <2> DEFINE x == [condition |-> c, history |-> <<"PLANNED">>, files |-> {}, factors |-> {},
                   reason |-> "NONE", window |-> Quiet]
  <2>1. x.reason = "NONE"
    OBVIOUS
  <2>2. runs' = Append(runs, x)
    BY <1>7 DEF Begin
  <2> HIDE DEF x
  <2>3. runs \in Seq(Run) /\ Len(runs) \in Nat /\ DOMAIN runs = 1 .. Len(runs)
    BY LenProperties DEF IType, TypeOK
  <2>4. /\ DOMAIN runs' = 1 .. Len(runs) + 1 /\ runs'[Len(runs) + 1] = x
        /\ \A i \in DOMAIN runs : runs'[i] = runs[i]
    BY <2>2, <2>3
  <2>5. Blocked' \subseteq Blocked
    BY <2>1, <2>3, <2>4 DEF Blocked
  <2>6. Leaked' \subseteq Leaked /\ faults' = faults
    BY <1>7 DEF Begin, Leaked
  <2> QED BY <1>3, <2>5, <2>6
<1>8. ASSUME Preflight
      PROVE  Cardinality(Blocked') + Cardinality(Leaked') <= faults'
  <2>1. pc # "idle"
    BY <1>8 DEF Preflight
  <2>2. Blocked' \subseteq Blocked /\ Condition' = Condition
    BY <1>6, <1>8, <2>1, ActionBecomes DEF Preflight
  <2>3. Leaked' \subseteq Leaked /\ (faults' = faults \/ faults' = faults + 1)
    BY <1>2, <1>8, <2>2 DEF Preflight, Leaked
  <2> QED BY <1>3, <2>2, <2>3
<1>9. ASSUME TraceMarker
      PROVE  Cardinality(Blocked') + Cardinality(Leaked') <= faults'
  <2>1. pc # "idle"
    BY <1>9 DEF TraceMarker
  <2>2. Blocked' \subseteq Blocked /\ Condition' = Condition
    BY <1>6, <1>9, <2>1, ActionBecomes DEF TraceMarker
  <2>3. Leaked' \subseteq Leaked /\ (faults' = faults \/ faults' = faults + 1)
    BY <1>2, <1>9, <2>2 DEF TraceMarker, Leaked
  <2> QED BY <1>3, <2>2, <2>3
<1>10. ASSUME CreateMarker
      PROVE  Cardinality(Blocked') + Cardinality(Leaked') <= faults'
  <2>1. pc # "idle"
    BY <1>10 DEF CreateMarker
  <2>2. Blocked' \subseteq Blocked /\ Condition' = Condition
    BY <1>6, <1>10, <2>1, ActionBecomes DEF CreateMarker
  <2>3. Leaked' \subseteq Leaked /\ (faults' = faults \/ faults' = faults + 1)
    BY <1>2, <1>10, <2>2 DEF CreateMarker, Leaked
  <2> QED BY <1>3, <2>2, <2>3
<1>11. ASSUME PollMarker
      PROVE  Cardinality(Blocked') + Cardinality(Leaked') <= faults'
  <2>1. pc # "idle"
    BY <1>11 DEF PollMarker
  <2>2. Blocked' \subseteq Blocked /\ Condition' = Condition
    BY <1>6, <1>11, <2>1, ActionBecomes DEF PollMarker
  <2>3. Leaked' \subseteq Leaked /\ (faults' = faults \/ faults' = faults + 1)
    BY <1>2, <1>11, <2>2 DEF PollMarker, Leaked
  <2> QED BY <1>3, <2>2, <2>3
<1>12. ASSUME MarkerFails
      PROVE  Cardinality(Blocked') + Cardinality(Leaked') <= faults'
  <2>1. pc # "idle"
    BY <1>12 DEF MarkerFails
  <2>2. Blocked' \subseteq Blocked /\ Condition' = Condition
    BY <1>6, <1>12, <2>1, ActionBecomes DEF MarkerFails
  <2>3. Leaked' \subseteq Leaked /\ (faults' = faults \/ faults' = faults + 1)
    BY <1>2, <1>12, <2>2 DEF MarkerFails, Leaked
  <2> QED BY <1>3, <2>2, <2>3
<1>13. ASSUME DeleteMarker
      PROVE  Cardinality(Blocked') + Cardinality(Leaked') <= faults'
  <2>1. pc # "idle"
    BY <1>13 DEF DeleteMarker
  <2>2. Blocked' \subseteq Blocked /\ Condition' = Condition
    BY <1>6, <1>13, <2>1, ActionBecomes DEF DeleteMarker
  <2>3. Leaked' \subseteq Leaked /\ (faults' = faults \/ faults' = faults + 1)
    BY <1>2, <1>13, <2>2 DEF DeleteMarker, Leaked, AfterMarker
  <2> QED BY <1>3, <2>2, <2>3
<1>14. ASSUME Prepare
      PROVE  Cardinality(Blocked') + Cardinality(Leaked') <= faults'
  <2>1. pc # "idle"
    BY <1>14 DEF Prepare
  <2>2. Blocked' \subseteq Blocked /\ Condition' = Condition
    BY <1>6, <1>14, <2>1, ActionBecomes DEF Prepare
  <2>3. Leaked' \subseteq Leaked /\ (faults' = faults \/ faults' = faults + 1)
    BY <1>2, <1>14, <2>2 DEF Prepare, Leaked
  <2> QED BY <1>3, <2>2, <2>3
<1>15. ASSUME StartWarmup
      PROVE  Cardinality(Blocked') + Cardinality(Leaked') <= faults'
  <2>1. pc # "idle"
    BY <1>15 DEF StartWarmup
  <2>2. Blocked' \subseteq Blocked /\ Condition' = Condition
    BY <1>6, <1>15, <2>1, ActionBecomes DEF StartWarmup
  <2>3. Leaked' \subseteq Leaked /\ (faults' = faults \/ faults' = faults + 1)
    BY <1>2, <1>15, <2>2 DEF StartWarmup, Leaked
  <2> QED BY <1>3, <2>2, <2>3
<1>16. ASSUME NoWarmup
      PROVE  Cardinality(Blocked') + Cardinality(Leaked') <= faults'
  <2>1. pc # "idle"
    BY <1>16 DEF NoWarmup
  <2>2. Blocked' \subseteq Blocked /\ Condition' = Condition
    BY <1>6, <1>16, <2>1, ActionBecomes DEF NoWarmup
  <2>3. Leaked' \subseteq Leaked /\ (faults' = faults \/ faults' = faults + 1)
    BY <1>2, <1>16, <2>2 DEF NoWarmup, Leaked
  <2> QED BY <1>3, <2>2, <2>3
<1>17. ASSUME EndWarmup
      PROVE  Cardinality(Blocked') + Cardinality(Leaked') <= faults'
  <2>1. pc # "idle"
    BY <1>17 DEF EndWarmup
  <2>2. Blocked' \subseteq Blocked /\ Condition' = Condition
    BY <1>6, <1>17, <2>1, ActionBecomes DEF EndWarmup
  <2>3. Leaked' \subseteq Leaked /\ (faults' = faults \/ faults' = faults + 1)
    BY <1>2, <1>17, <2>2 DEF EndWarmup, Leaked
  <2> QED BY <1>3, <2>2, <2>3
<1>18. ASSUME StartLoad
      PROVE  Cardinality(Blocked') + Cardinality(Leaked') <= faults'
  <2>1. pc # "idle"
    BY <1>18 DEF StartLoad
  <2>2. Blocked' \subseteq Blocked /\ Condition' = Condition
    BY <1>6, <1>18, <2>1, ActionBecomes DEF StartLoad
  <2>3. Leaked' \subseteq Leaked /\ (faults' = faults \/ faults' = faults + 1)
    BY <1>2, <1>18, <2>2 DEF StartLoad, Leaked
  <2> QED BY <1>3, <2>2, <2>3
<1>19. ASSUME EndLoad
      PROVE  Cardinality(Blocked') + Cardinality(Leaked') <= faults'
  <2>1. pc # "idle"
    BY <1>19 DEF EndLoad
  <2>2. Blocked' \subseteq Blocked /\ Condition' = Condition
    BY <1>6, <1>19, <2>1, ActionBecomes DEF EndLoad
  <2>3. Leaked' \subseteq Leaked /\ (faults' = faults \/ faults' = faults + 1)
    BY <1>2, <1>19, <2>2 DEF EndLoad, Leaked
  <2> QED BY <1>3, <2>2, <2>3
<1>20. ASSUME LoadFails
      PROVE  Cardinality(Blocked') + Cardinality(Leaked') <= faults'
  <2>1. pc # "idle"
    BY <1>20 DEF LoadFails
  <2>2. Blocked' \subseteq Blocked /\ Condition' = Condition
    BY <1>6, <1>20, <2>1, ActionBecomes DEF LoadFails
  <2>3. Leaked' \subseteq Leaked /\ (faults' = faults \/ faults' = faults + 1)
    BY <1>2, <1>20, <2>2 DEF LoadFails, Leaked
  <2> QED BY <1>3, <2>2, <2>3
<1>21. ASSUME Postflight
      PROVE  Cardinality(Blocked') + Cardinality(Leaked') <= faults'
  <2>1. pc # "idle"
    BY <1>21 DEF Postflight
  <2>2. Blocked' \subseteq Blocked /\ Condition' = Condition
    BY <1>6, <1>21, <2>1, ActionBecomes DEF Postflight
  <2>3. Leaked' \subseteq Leaked /\ (faults' = faults \/ faults' = faults + 1)
    BY <1>2, <1>21, <2>2 DEF Postflight, Leaked
  <2> QED BY <1>3, <2>2, <2>3
<1>22. ASSUME Gates
      PROVE  Cardinality(Blocked') + Cardinality(Leaked') <= faults'
  <2>1. pc # "idle"
    BY <1>22 DEF Gates
  <2>2. Blocked' \subseteq Blocked /\ Condition' = Condition
    BY <1>6, <1>22, <2>1, ActionBecomes DEF Gates
  <2>3. Leaked' \subseteq Leaked /\ (faults' = faults \/ faults' = faults + 1)
    BY <1>2, <1>22, <2>2 DEF Gates, Leaked
  <2> QED BY <1>3, <2>2, <2>3
<1>23. ASSUME Summarise
      PROVE  Cardinality(Blocked') + Cardinality(Leaked') <= faults'
  <2>1. pc # "idle"
    BY <1>23 DEF Summarise
  <2>2. Blocked' \subseteq Blocked /\ Condition' = Condition
    BY <1>6, <1>23, <2>1, ActionBecomes DEF Summarise
  <2>3. Leaked' \subseteq Leaked /\ (faults' = faults \/ faults' = faults + 1)
    BY <1>2, <1>23, <2>2 DEF Summarise, Leaked
  <2> QED BY <1>3, <2>2, <2>3
<1>24. ASSUME Return
      PROVE  Cardinality(Blocked') + Cardinality(Leaked') <= faults'
  <2>1. pc # "idle"
    BY <1>24 DEF Return
  <2>2. Blocked' \subseteq Blocked /\ Condition' = Condition
    BY <1>6, <1>24, <2>1, ActionBecomes DEF Return
  <2>3. Leaked' \subseteq Leaked /\ (faults' = faults \/ faults' = faults + 1)
    BY <1>2, <1>24, <2>2 DEF Return, Leaked
  <2> QED BY <1>3, <2>2, <2>3
<1>25. ASSUME Raises
      PROVE  Cardinality(Blocked') + Cardinality(Leaked') <= faults'
  <2>1. pc # "idle"
    BY <1>25 DEF Raises
  <2>2. Blocked' \subseteq Blocked /\ Condition' = Condition
    BY <1>6, <1>25, <2>1, ActionBecomes DEF Raises
  <2>3. Leaked' \subseteq Leaked /\ (faults' = faults \/ faults' = faults + 1)
    BY <1>2, <1>25, <2>2 DEF Raises, Leaked
  <2> QED BY <1>3, <2>2, <2>3
<1>26. ASSUME CompletionNotWritten
      PROVE  Cardinality(Blocked') + Cardinality(Leaked') <= faults'
  <2>1. pc # "idle"
    BY <1>26 DEF CompletionNotWritten
  <2>2. Blocked' \subseteq Blocked /\ Condition' = Condition
    BY <1>6, <1>26, <2>1, ActionBecomes DEF CompletionNotWritten
  <2>3. Leaked' \subseteq Leaked /\ (faults' = faults \/ faults' = faults + 1)
    BY <1>2, <1>26, <2>2 DEF CompletionNotWritten, Leaked
  <2> QED BY <1>3, <2>2, <2>3
<1>27. ASSUME Fail
      PROVE  Cardinality(Blocked') + Cardinality(Leaked') <= faults'
  <2>1. pc # "idle"
    BY <1>27 DEF Fail
  <2>2. Blocked' \subseteq Blocked /\ Condition' = Condition
    BY <1>6, <1>27, <2>1, ActionBecomes DEF Fail
  <2>3. Leaked' \subseteq Leaked /\ (faults' = faults \/ faults' = faults + 1)
    BY <1>2, <1>27, <2>2 DEF Fail, Leaked
  <2> QED BY <1>3, <2>2, <2>3
<1>28. ASSUME DeleteMarkerFails
      PROVE  Cardinality(Blocked') + Cardinality(Leaked') <= faults'
  <2>1. pc # "idle"
    BY <1>28 DEF DeleteMarkerFails
  <2>2. Blocked' \subseteq Blocked
    BY <1>28 DEF DeleteMarkerFails, Blocked
  <2>3. Leaked' \subseteq Leaked \cup {Condition} /\ faults' = faults + 1
    BY <1>2, <1>28 DEF DeleteMarkerFails, Leaked, AfterMarker
  <2> QED BY <1>4, <2>2, <2>3
<1>29. ASSUME Crash
      PROVE  Cardinality(Blocked') + Cardinality(Leaked') <= faults'
  <2>1. pc # "idle"
    BY <1>29 DEF Crash
  <2>2. Blocked' \subseteq Blocked
    BY <1>29 DEF Crash, Blocked
  <2>3. Leaked' \subseteq Leaked \cup {Condition} /\ faults' = faults + 1
    BY <1>2, <1>29 DEF Crash, Leaked
  <2> QED BY <1>4, <2>2, <2>3
<1>30. ASSUME MarkerExists
      PROVE  Cardinality(Blocked') + Cardinality(Leaked') <= faults'
  <2>1. pc = "mark" /\ pc' = "unmark" /\ Condition \in markers
        /\ UNCHANGED <<markers, faults>>
    BY <1>30 DEF MarkerExists
  <2>2. Blocked' \subseteq Blocked \cup {This} /\ Condition' = Condition
    BY <1>6, <1>30, <2>1, ActionBecomes
  <2>3. Condition \in Leaked /\ Leaked' = Leaked \ {Condition}
    BY <2>1, <2>2 DEF Leaked
  <2> QED BY <1>5, <2>1, <2>2, <2>3
<1>31. ASSUME Cluster \/ UNCHANGED vars
      PROVE  Cardinality(Blocked') + Cardinality(Leaked') <= faults'
  <2>1. UNCHANGED <<runs, markers, pc, faults>>
    BY <1>31 DEF Cluster, OrphanEnds, RestartPod, ReplacePod, PodReady, vars
  <2>2. Blocked' \subseteq Blocked /\ Leaked' \subseteq Leaked
    BY <2>1 DEF Blocked, Leaked, Condition, This
  <2> QED BY <1>3, <2>1, <2>2
<1> QED BY <1>7, <1>8, <1>9, <1>10, <1>11, <1>12, <1>13, <1>14, <1>15, <1>16, <1>17, <1>18,
           <1>19, <1>20, <1>21, <1>22, <1>23, <1>24, <1>25, <1>26, <1>27, <1>28, <1>29,
           <1>30, <1>31 DEF Next, Step

\* Every run lost to a marker pod in use, and every marker pod still around,
\* is paid for by a fault of its own: log_marker deletes what it trips over.
THEOREM LeaksAreAccountedFor == Spec => []LeakCostsOneRun
<1>1. Init => LeakCostsOneRun
  <2> SUFFICES ASSUME Init
               PROVE  LeakCostsOneRun
    OBVIOUS
  <2>1. Blocked = {} /\ Leaked = {} /\ faults = 0
    BY DEF Init, Blocked, Leaked
  <2>2. Cardinality({}) = 0
    BY FS_EmptySet
  <2> QED BY <2>1, <2>2 DEF LeakCostsOneRun
<1>2. IInv => IType
  BY DEF IInv
<1> QED BY <1>1, <1>2, Invariant, LeakStep, PTL DEF Spec

-----------------------------------------------------------------------------
\* The refinement of RunContract.

LEMMA AbstractState ==
  /\ DOMAIN Verdicts = DOMAIN runs /\ DOMAIN Exits = DOMAIN runs
  /\ \A i \in DOMAIN runs : Verdicts[i] = Verdict(i) /\ Exits[i] = Exit(i)
BY DEF Verdicts, Exits

\* Both are determined by their entries.
LEMMA SameVerdicts ==
  ASSUME NEW v, v = [i \in DOMAIN v |-> v[i]], DOMAIN v = DOMAIN runs,
         \A i \in DOMAIN runs : v[i] = Verdict(i)
  PROVE  Verdicts = v
BY DEF Verdicts

LEMMA SameExits ==
  ASSUME NEW e, e = [i \in DOMAIN e |-> e[i]], DOMAIN e = DOMAIN runs,
         \A i \in DOMAIN runs : e[i] = Exit(i)
  PROVE  Exits = e
BY DEF Exits

LEMMA EndedAs ==
  ASSUME NEW h
  PROVE  /\ Ended(h) \in {"RETURNED", "RAISED", "DIED"}
         /\ Ended(h) = "RETURNED" => Last(h) = "COMPLETED"
BY DEF Ended

LEMMA ContractInit == Init => Contract!Init
<1> SUFFICES ASSUME Init
             PROVE  Contract!Init
  OBVIOUS
<1>1. runs = <<>> /\ DOMAIN runs = {}
  BY DEF Init
<1>2. Verdicts = <<>> /\ Exits = <<>>
  BY <1>1 DEF Verdicts, Exits
<1> QED BY <1>2 DEF Contract!Init

LEMMA ContractStart ==
  ASSUME IType, NEW c \in Conditions, Begin(c)
  PROVE  Contract!Start
<1> DEFINE x == [condition |-> c, history |-> <<"PLANNED">>, files |-> {}, factors |-> {},
                 reason |-> "NONE", window |-> Quiet]
<1>1. "summary" \notin x.files
  OBVIOUS
<1>2. runs' = Append(runs, x) /\ pc = "idle" /\ pc' = "preflight"
  BY DEF Begin
<1> HIDE DEF x
<1> DEFINE n == Len(runs)
<1>3. runs \in Seq(Run) /\ n \in Nat /\ DOMAIN runs = 1 .. n
  BY LenProperties DEF IType, TypeOK
<1>4. /\ This' = n + 1 /\ runs'[n + 1] = x /\ DOMAIN runs' = 1 .. n + 1
      /\ \A i \in 1 .. n : runs'[i] = runs[i]
  BY <1>2, <1>3 DEF This
<1>5. \A i \in DOMAIN Exits : ~Contract!Running(i)
  BY <1>2, AbstractState, EndedAs DEF Contract!Running, Exit
<1>6. ASSUME NEW i \in 1 .. n + 1
      PROVE  /\ Verdict(i)' = IF i = n + 1 THEN "NONE" ELSE Verdict(i)
             /\ Exit(i)' = IF i = n + 1 THEN "RUNNING" ELSE Exit(i)
  BY <1>1, <1>2, <1>3, <1>4 DEF Verdict, Summarised, Exit
<1>7. Verdicts' = Append(Verdicts, "NONE") /\ Exits' = Append(Exits, "RUNNING")
  <2> DEFINE V == {"NONE", "COMPLETED", "INVALID"}
             E == {"RUNNING", "RETURNED", "RAISED", "DIED"}
  <2>1. Verdicts \in Seq(V) /\ Len(Verdicts) = n
    BY <1>3 DEF Verdicts, Verdict
  <2>2. Exits \in Seq(E) /\ Len(Exits) = n
    BY <1>3, EndedAs DEF Exits, Exit
  <2>3. Verdicts' \in Seq(V) /\ Len(Verdicts') = n + 1
    BY <1>3, <1>4 DEF Verdicts, Verdict
  <2>4. Exits' \in Seq(E) /\ Len(Exits') = n + 1
    BY <1>3, <1>4, EndedAs DEF Exits, Exit
  <2>5. /\ Append(Verdicts, "NONE") \in Seq(V) /\ Len(Append(Verdicts, "NONE")) = n + 1
        /\ \A i \in 1 .. n + 1 : Append(Verdicts, "NONE")[i] =
             IF i = n + 1 THEN "NONE" ELSE Verdict(i)
    BY <1>3, <2>1, AppendProperties, AbstractState
  <2>6. /\ Append(Exits, "RUNNING") \in Seq(E) /\ Len(Append(Exits, "RUNNING")) = n + 1
        /\ \A i \in 1 .. n + 1 : Append(Exits, "RUNNING")[i] =
             IF i = n + 1 THEN "RUNNING" ELSE Exit(i)
    BY <1>3, <2>2, AppendProperties, AbstractState
  <2>7. \A i \in 1 .. n + 1 : Verdicts'[i] = Verdict(i)' /\ Exits'[i] = Exit(i)'
    BY <1>4 DEF Verdicts, Exits
  <2>8. Verdicts' = Append(Verdicts, "NONE")
    BY <1>3, <1>6, <2>3, <2>5, <2>7, SeqEqual
  <2>9. Exits' = Append(Exits, "RUNNING")
    BY <1>3, <1>6, <2>4, <2>6, <2>7, SeqEqual
  <2> QED BY <2>8, <2>9
<1> QED BY <1>5, <1>7 DEF Contract!Start

\* A step that neither summarises nor ends the run in progress is invisible,
LEMMA ContractStutter ==
  ASSUME IType, pc # "idle", pc' # "idle", NEW h, NEW f, NEW g, NEW q, NEW w,
         Becomes(h, f, g, q, w), g = runs[This].factors,
         "summary" \in f <=> "summary" \in runs[This].files
  PROVE  UNCHANGED <<Verdicts, Exits>>
<1>1. ASSUME NEW i \in DOMAIN runs
      PROVE  Verdict(i)' = Verdict(i) /\ Exit(i)' = Exit(i)
  <2>1. CASE i = This
    BY <2>1 DEF Becomes, Verdict, Summarised, Exit
  <2>2. CASE i # This
    <3>1. runs'[i] = runs[i] /\ This' = This
      BY <2>2 DEF Becomes
    <3> QED BY <2>2, <3>1 DEF Verdict, Summarised, Exit
  <2> QED BY <2>1, <2>2
<1> QED BY <1>1 DEF Becomes, Verdicts, Exits

\* the summary is that of RunContract,
LEMMA ContractSummarise ==
  ASSUME IType, EvidenceSoFar, Summarise
  PROVE  Contract!Summarise(This)
<1> DEFINE r == runs[This]
<1>1. pc = "summarise" /\ pc' = "report" /\ This \in DOMAIN runs
  BY ThisRun DEF Summarise, IType
<1>2. PICK a \in SummaryFactors :
        Becomes(r.history, r.files \cup {"summary"}, factors \cup a, r.reason, r.window)
  BY <1>1, ActionBecomes
<1>3. "summary" \notin r.files
  BY <1>1 DEF EvidenceSoFar, Unsummarised
<1>4. ASSUME NEW i \in DOMAIN runs
      PROVE  /\ Exit(i)' = Exit(i)
             /\ Verdict(i)' =
                  IF i = This THEN IF factors \cup a = {} THEN "COMPLETED" ELSE "INVALID"
                  ELSE Verdict(i)
  <2>1. CASE i = This
    BY <1>1, <1>2, <2>1 DEF Becomes, Verdict, Summarised, Exit
  <2>2. CASE i # This
    <3>1. runs'[i] = runs[i] /\ This' = This
      BY <1>2, <2>2 DEF Becomes
    <3> QED BY <2>2, <3>1 DEF Verdict, Summarised, Exit
  <2> QED BY <2>1, <2>2
<1>5. UNCHANGED Exits
  BY <1>2, <1>4 DEF Becomes, Exits
<1> DEFINE v == IF factors \cup a = {} THEN "COMPLETED" ELSE "INVALID"
<1>6. Verdicts' = [Verdicts EXCEPT ![This] = v]
  BY <1>1, <1>2, <1>4 DEF Becomes, Verdicts
<1>7. Contract!Running(This) /\ Verdicts[This] = "NONE"
  BY <1>1, <1>3, AbstractState DEF Contract!Running, Exit, Verdict, Summarised
<1>8. v \in {"COMPLETED", "INVALID"}
  OBVIOUS
<1> QED BY <1>5, <1>6, <1>7, <1>8 DEF Contract!Summarise

\* and however a run ends, it returns only with a summary.
LEMMA ContractEnd ==
  ASSUME IType, AllSound', pc # "idle", pc' = "idle", NEW h, NEW f, NEW g, NEW q, NEW w,
         Becomes(h, f, g, q, w), g = runs[This].factors,
         "summary" \in f <=> "summary" \in runs[This].files
  PROVE  Contract!End(This)
<1>1. This \in DOMAIN runs
  BY ThisRun DEF IType
<1>2. ASSUME NEW i \in DOMAIN runs
      PROVE  /\ Verdict(i)' = Verdict(i)
             /\ Exit(i)' = IF i = This THEN Ended(h) ELSE Exit(i)
  <2>1. CASE i = This
    BY <2>1 DEF Becomes, Verdict, Summarised, Exit
  <2>2. CASE i # This
    <3>1. runs'[i] = runs[i] /\ This' = This
      BY <2>2 DEF Becomes
    <3> QED BY <2>2, <3>1 DEF Verdict, Summarised, Exit
  <2> QED BY <2>1, <2>2
<1>3. UNCHANGED Verdicts
  BY <1>2 DEF Becomes, Verdicts
<1>4. Exits' = [Exits EXCEPT ![This] = Ended(h)]
  BY <1>1, <1>2 DEF Becomes, Exits
<1>5. Contract!Running(This)
  BY <1>1, AbstractState DEF Contract!Running, Exit
<1>6. Ended(h) = "RETURNED" => Verdicts[This] # "NONE"
  <2>1. Last(h) = "COMPLETED" => "summary" \in f
    BY <1>1 DEF AllSound, Sound, Becomes
  <2> QED BY <1>1, <2>1, EndedAs, AbstractState DEF Verdict, Summarised
<1> QED BY <1>3, <1>4, <1>5, <1>6, EndedAs DEF Contract!End

LEMMA ContractStep == IInv /\ IInv' /\ [Next]_vars => [Contract!Next]_<<Verdicts, Exits>>
<1> SUFFICES ASSUME IInv, IInv', [Next]_vars
             PROVE  [Contract!Next]_<<Verdicts, Exits>>
  OBVIOUS
<1>1. IType /\ EvidenceSoFar /\ AllSound'
  BY DEF IInv
<1> DEFINE r == runs[This]
<1>2. pc # "idle" => This \in DOMAIN Exits
  BY <1>1, ThisRun, AbstractState DEF IType
<1>3. ASSUME NEW c \in Conditions, Begin(c)
      PROVE  Contract!Next
  BY <1>1, <1>3, ContractStart DEF Contract!Next
<1>4. ASSUME Summarise
      PROVE  Contract!Next
  BY <1>1, <1>2, <1>4, ContractSummarise DEF Contract!Next, Summarise
<1>5. ASSUME Return
      PROVE  Contract!Next
  <2>1. pc # "idle" /\ pc' = "idle"
    BY <1>5 DEF Return
  <2>2. Becomes(Append(r.history, "COMPLETED"), r.files \cup {"report"}, r.factors,
                r.reason, r.window)
    BY <1>1, <1>5, <2>1, ActionBecomes
  <2>3. "summary" \in r.files \cup {"report"} <=> "summary" \in r.files
    OBVIOUS
  <2>4. Contract!End(This)
    BY <1>1, <2>1, <2>2, <2>3, ContractEnd
  <2> QED BY <1>2, <2>1, <2>4 DEF Contract!Next
<1>6. ASSUME Fail
      PROVE  Contract!Next
  <2>1. pc # "idle" /\ pc' = "idle"
    BY <1>6 DEF Fail
  <2>2. Becomes(Append(r.history, "FAILED"), r.files \cup {"failure"}, r.factors,
                r.reason, r.window)
    BY <1>1, <1>6, <2>1, ActionBecomes
  <2>3. "summary" \in r.files \cup {"failure"} <=> "summary" \in r.files
    OBVIOUS
  <2>4. Contract!End(This)
    BY <1>1, <2>1, <2>2, <2>3, ContractEnd
  <2> QED BY <1>2, <2>1, <2>4 DEF Contract!Next
<1>7. ASSUME Crash
      PROVE  Contract!Next
  <2>1. pc # "idle" /\ pc' = "idle"
    BY <1>7 DEF Crash
  <2>2. Becomes(r.history, r.files, r.factors, r.reason, r.window)
    BY <1>1, <1>7, <2>1, ActionBecomes DEF Crash
  <2>3. Contract!End(This)
    BY <1>1, <2>1, <2>2, ContractEnd
  <2> QED BY <1>2, <2>1, <2>3 DEF Contract!Next
<1>8. ASSUME Preflight
      PROVE  UNCHANGED <<Verdicts, Exits>>
  <2>1. pc # "idle" /\ pc' # "idle"
    BY <1>8 DEF Preflight
  <2> QED BY <1>1, <1>8, <2>1, ActionBecomes, ContractStutter DEF Preflight
<1>9. ASSUME TraceMarker
      PROVE  UNCHANGED <<Verdicts, Exits>>
  <2>1. pc # "idle" /\ pc' # "idle"
    BY <1>9 DEF TraceMarker
  <2> QED BY <1>1, <1>9, <2>1, ActionBecomes, ContractStutter DEF TraceMarker
<1>10. ASSUME CreateMarker
      PROVE  UNCHANGED <<Verdicts, Exits>>
  <2>1. pc # "idle" /\ pc' # "idle"
    BY <1>10 DEF CreateMarker
  <2> QED BY <1>1, <1>10, <2>1, ActionBecomes, ContractStutter DEF CreateMarker
<1>11. ASSUME MarkerExists
      PROVE  UNCHANGED <<Verdicts, Exits>>
  <2>1. pc # "idle" /\ pc' # "idle"
    BY <1>11 DEF MarkerExists
  <2> QED BY <1>1, <1>11, <2>1, ActionBecomes, ContractStutter DEF MarkerExists
<1>12. ASSUME PollMarker
      PROVE  UNCHANGED <<Verdicts, Exits>>
  <2>1. pc # "idle" /\ pc' # "idle"
    BY <1>12 DEF PollMarker
  <2> QED BY <1>1, <1>12, <2>1, ActionBecomes, ContractStutter DEF PollMarker
<1>13. ASSUME MarkerFails
      PROVE  UNCHANGED <<Verdicts, Exits>>
  <2>1. pc # "idle" /\ pc' # "idle"
    BY <1>13 DEF MarkerFails
  <2> QED BY <1>1, <1>13, <2>1, ActionBecomes, ContractStutter DEF MarkerFails
<1>14. ASSUME DeleteMarker
      PROVE  UNCHANGED <<Verdicts, Exits>>
  <2>1. pc # "idle" /\ pc' # "idle"
    BY <1>14 DEF DeleteMarker, AfterMarker
  <2> QED BY <1>1, <1>14, <2>1, ActionBecomes, ContractStutter DEF DeleteMarker
<1>15. ASSUME DeleteMarkerFails
      PROVE  UNCHANGED <<Verdicts, Exits>>
  <2>1. pc # "idle" /\ pc' # "idle"
    BY <1>15 DEF DeleteMarkerFails, AfterMarker
  <2> QED BY <1>1, <1>15, <2>1, ActionBecomes, ContractStutter DEF DeleteMarkerFails
<1>16. ASSUME Prepare
      PROVE  UNCHANGED <<Verdicts, Exits>>
  <2>1. pc # "idle" /\ pc' # "idle"
    BY <1>16 DEF Prepare
  <2> QED BY <1>1, <1>16, <2>1, ActionBecomes, ContractStutter DEF Prepare
<1>17. ASSUME StartWarmup
      PROVE  UNCHANGED <<Verdicts, Exits>>
  <2>1. pc # "idle" /\ pc' # "idle"
    BY <1>17 DEF StartWarmup
  <2> QED BY <1>1, <1>17, <2>1, ActionBecomes, ContractStutter DEF StartWarmup
<1>18. ASSUME NoWarmup
      PROVE  UNCHANGED <<Verdicts, Exits>>
  <2>1. pc # "idle" /\ pc' # "idle"
    BY <1>18 DEF NoWarmup
  <2> QED BY <1>1, <1>18, <2>1, ActionBecomes, ContractStutter DEF NoWarmup
<1>19. ASSUME EndWarmup
      PROVE  UNCHANGED <<Verdicts, Exits>>
  <2>1. pc # "idle" /\ pc' # "idle"
    BY <1>19 DEF EndWarmup
  <2> QED BY <1>1, <1>19, <2>1, ActionBecomes, ContractStutter DEF EndWarmup
<1>20. ASSUME StartLoad
      PROVE  UNCHANGED <<Verdicts, Exits>>
  <2>1. pc # "idle" /\ pc' # "idle"
    BY <1>20 DEF StartLoad
  <2> QED BY <1>1, <1>20, <2>1, ActionBecomes, ContractStutter DEF StartLoad
<1>21. ASSUME EndLoad
      PROVE  UNCHANGED <<Verdicts, Exits>>
  <2>1. pc # "idle" /\ pc' # "idle"
    BY <1>21 DEF EndLoad
  <2> QED BY <1>1, <1>21, <2>1, ActionBecomes, ContractStutter DEF EndLoad
<1>22. ASSUME LoadFails
      PROVE  UNCHANGED <<Verdicts, Exits>>
  <2>1. pc # "idle" /\ pc' # "idle"
    BY <1>22 DEF LoadFails
  <2> QED BY <1>1, <1>22, <2>1, ActionBecomes, ContractStutter DEF LoadFails
<1>23. ASSUME Postflight
      PROVE  UNCHANGED <<Verdicts, Exits>>
  <2>1. pc # "idle" /\ pc' # "idle"
    BY <1>23 DEF Postflight
  <2> QED BY <1>1, <1>23, <2>1, ActionBecomes, ContractStutter DEF Postflight
<1>24. ASSUME Gates
      PROVE  UNCHANGED <<Verdicts, Exits>>
  <2>1. pc # "idle" /\ pc' # "idle"
    BY <1>24 DEF Gates
  <2> QED BY <1>1, <1>24, <2>1, ActionBecomes, ContractStutter DEF Gates
<1>25. ASSUME Raises
      PROVE  UNCHANGED <<Verdicts, Exits>>
  <2>1. pc # "idle" /\ pc' # "idle"
    BY <1>25 DEF Raises
  <2> QED BY <1>1, <1>25, <2>1, ActionBecomes, ContractStutter DEF Raises
<1>26. ASSUME CompletionNotWritten
      PROVE  UNCHANGED <<Verdicts, Exits>>
  <2>1. pc # "idle" /\ pc' # "idle"
    BY <1>26 DEF CompletionNotWritten
  <2>2. Becomes(Append(r.history, "COMPLETED"), r.files \cup {"report"}, r.factors, "ERROR",
                r.window)
    BY <1>1, <1>26, <2>1, ActionBecomes
  <2>3. "summary" \in r.files \cup {"report"} <=> "summary" \in r.files
    OBVIOUS
  <2> QED BY <1>1, <2>1, <2>2, <2>3, ContractStutter
<1>27. ASSUME Cluster \/ UNCHANGED vars
      PROVE  UNCHANGED <<Verdicts, Exits>>
  <2>1. UNCHANGED <<runs, pc>>
    BY <1>27 DEF Cluster, OrphanEnds, RestartPod, ReplacePod, PodReady, vars
  <2> QED BY <2>1 DEF Verdicts, Verdict, Summarised, Exits, Exit, This
<1> QED BY <1>3, <1>4, <1>5, <1>6, <1>7, <1>8, <1>9, <1>10, <1>11, <1>12, <1>13, <1>14,
           <1>15, <1>16, <1>17, <1>18, <1>19, <1>20, <1>21, <1>22, <1>23, <1>24, <1>25,
           <1>26, <1>27 DEF Next, Step

\* The lifecycle implements RunContract: Begin starts a run, Summarise gives its
\* verdict, Return, Fail and Crash end it, and no other step shows.
THEOREM RunsKeepContract == Spec => ImplementsContract
<1>1. Init => Contract!Init
  BY ContractInit
<1>2. IInv /\ IInv' /\ [Next]_vars => [Contract!Next]_<<Verdicts, Exits>>
  BY ContractStep
<1> QED BY <1>1, <1>2, Invariant, PTL
           DEF Spec, ImplementsContract, Contract!Spec, Contract!vars
=============================================================================
