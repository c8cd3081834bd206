--------------------------- MODULE EvidenceLedger ---------------------------
(***************************************************************************)
(* What a measurement campaign promises about its evidence, without the    *)
(* scheduler that keeps the promise: valid runs are produced, never more   *)
(* than the policy allows for a condition, and each one is credited to the *)
(* campaign at most once, after it was produced.                           *)
(*                                                                         *)
(* BaselineScheduler implements this specification when its sessions are   *)
(* resumed in order.                                                       *)
(***************************************************************************)
EXTENDS Naturals, FiniteSets

CONSTANTS
  Conditions,   \* operating points of the campaign
  MaxValid      \* most valid runs a condition may have

VARIABLES
  produced,     \* produced[c]: repeats of c whose evidence is valid
  credited      \* credited[c]: entry of the books |-> the repeat of c it credits

vars == <<produced, credited>>

Credits(c) == {credited[c][k] : k \in DOMAIN credited[c]}

\* The books f with one more entry k, for repeat r.
Entered(f, k, r) == [j \in DOMAIN f \cup {k} |-> IF j = k THEN r ELSE f[j]]

Init ==
  /\ produced = [c \in Conditions |-> {}]
  /\ credited = [c \in Conditions |-> [k \in {} |-> 0]]

Produce(c, r) ==
  /\ r \notin produced[c]
  /\ Cardinality(produced[c]) < MaxValid
  /\ produced' = [produced EXCEPT ![c] = @ \cup {r}]
  /\ UNCHANGED credited

Credit(c, k, r) ==
  /\ \A j \in DOMAIN credited[c] : j < k
  /\ r \in produced[c] \ Credits(c)
  /\ credited' = [credited EXCEPT ![c] = Entered(@, k, r)]
  /\ UNCHANGED produced

Next ==
  \E c \in Conditions :
    \/ \E r \in produced'[c] : Produce(c, r)
    \/ \E k \in DOMAIN credited'[c], r \in produced[c] : Credit(c, k, r)

Spec == Init /\ [][Next]_vars

=============================================================================
