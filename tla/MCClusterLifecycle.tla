------------------------- MODULE MCClusterLifecycle -------------------------
(***************************************************************************)
(* Model-checking instance of ClusterLifecycle.  Requests of a kind are    *)
(* interchangeable; addresses are numbers and are not.                     *)
(***************************************************************************)
EXTENDS ClusterLifecycle, TLC

RequestSymmetry ==
  Permutations(Creates) \cup Permutations(Deletes) \cup Permutations(Monitors)

=============================================================================
