-------------------------- MODULE AtLeastOnceQueue --------------------------
(***************************************************************************)
(* What the asynchronous pipeline promises about its tasks: a published    *)
(* task is acknowledged only after it has been worked, and neither fact is *)
(* ever taken back. It may be worked more than once.                       *)
(***************************************************************************)
CONSTANT Keys

VARIABLES
  published,     \* tasks that are in the queue
  worked,        \* tasks that some worker finished with
  acknowledged   \* tasks that will not be delivered again

vars == <<published, worked, acknowledged>>

Init == published = {} /\ worked = {} /\ acknowledged = {}

Publish(k) ==
  /\ published' = published \cup {k}
  /\ UNCHANGED <<worked, acknowledged>>

Work(k) ==
  /\ k \in published
  /\ worked' = worked \cup {k}
  /\ UNCHANGED <<published, acknowledged>>

Acknowledge(S) ==
  /\ S \subseteq worked
  /\ acknowledged' = acknowledged \cup S
  /\ UNCHANGED <<published, worked>>

Next ==
  \/ \E k \in Keys : Publish(k) \/ Work(k)
  \/ \E S \in SUBSET Keys : Acknowledge(S)

Spec == Init /\ [][Next]_vars

=============================================================================
