--------------------------- MODULE MCRunLifecycle ---------------------------
(***************************************************************************)
(* Small instances of RunLifecycle for TLC.                                *)
(***************************************************************************)
EXTENDS RunLifecycle, TLC

\* Conditions are alike, and so are the services.
Symmetry == Permutations(Conditions) \cup Permutations(Services)

=============================================================================
