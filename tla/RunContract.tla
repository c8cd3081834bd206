----------------------------- MODULE RunContract -----------------------------
(***************************************************************************)
(* What the schedulers (baseline.py, capacity.py) rely on when they call   *)
(* Runner._repeat: a run returns only with a summary, a summary is written *)
(* at most once and while its run is in progress, and a run that raised or *)
(* died is over. Runs do not overlap.                                      *)
(***************************************************************************)
EXTENDS Naturals, Sequences

VARIABLES
  verdicts,  \* verdicts[i]: summary of the i-th run: NONE, COMPLETED, INVALID
  exits      \* exits[i]: RUNNING, RETURNED, RAISED, DIED

vars == <<verdicts, exits>>

Init == verdicts = <<>> /\ exits = <<>>

Running(i) == i \in DOMAIN exits /\ exits[i] = "RUNNING"

Start ==
  /\ \A i \in DOMAIN exits : ~Running(i)
  /\ verdicts' = Append(verdicts, "NONE")
  /\ exits' = Append(exits, "RUNNING")

Summarise(i) ==
  /\ Running(i)
  /\ verdicts[i] = "NONE"
  /\ \E v \in {"COMPLETED", "INVALID"} : verdicts' = [verdicts EXCEPT ![i] = v]
  /\ UNCHANGED exits

End(i) ==
  /\ Running(i)
  /\ \E e \in {"RETURNED", "RAISED", "DIED"} :
       /\ e = "RETURNED" => verdicts[i] # "NONE"
       /\ exits' = [exits EXCEPT ![i] = e]
  /\ UNCHANGED verdicts

Next == Start \/ \E i \in DOMAIN exits : Summarise(i) \/ End(i)

Spec == Init /\ [][Next]_vars

=============================================================================
