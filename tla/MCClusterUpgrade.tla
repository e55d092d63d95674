-------------------------- MODULE MCClusterUpgrade --------------------------
(***************************************************************************)
(* Model-checking instance of ClusterUpgrade.  Requests are interchangeable*)
(* names, so runs that check safety alone may identify states that differ  *)
(* by a permutation of them.                                               *)
(***************************************************************************)
EXTENDS ClusterUpgrade, TLC

RequestSymmetry == Permutations(Upgrades) \cup Permutations(HARequests)

=============================================================================
