---------------------------- MODULE ClusterLives ----------------------------
(***************************************************************************)
(* What creating and deleting a cluster promises to its users, who hold    *)
(* kubeconfigs and know nothing of requests, calls and kills.              *)
(*                                                                         *)
(* A cluster lives in a namespace and has one identity per life, the       *)
(* certificates its API server and its users trust.  It serves only when   *)
(* every kubeconfig that is handed out is for that identity, and while it  *)
(* serves neither changes.  It has to stop serving before its identity is  *)
(* withdrawn and before its namespace is given up, and only once the       *)
(* namespace has ended can there be another one.  Between these steps it   *)
(* may stop and start to serve as often as it likes: that is what requests *)
(* cut short and sent again come to.                                       *)
(***************************************************************************)

CONSTANTS
  Certificates,  \* identities, NoCa among them
  NoCa,          \* none
  Kubeconfigs    \* records with fields ca and host

VARIABLES
  phase,     \* of the namespace: "none", "active" or "terminating"
  identity,  \* certificates of the cluster, or NoCa
  handed,    \* kubeconfigs that are handed out
  serving    \* is everything there that makes a cluster?

vars == <<phase, identity, handed, serving>>

Init ==
  /\ phase = "none"
  /\ identity = NoCa
  /\ handed = {}
  /\ serving = FALSE

Found ==
  /\ phase = "none"
  /\ phase' = "active"
  /\ UNCHANGED <<identity, handed, serving>>

Certify ==
  /\ phase = "active"
  /\ identity = NoCa
  /\ identity' \in Certificates \ {NoCa}
  /\ UNCHANGED <<phase, handed, serving>>

HandOut ==
  /\ ~serving
  /\ handed' \in SUBSET Kubeconfigs
  /\ UNCHANGED <<phase, identity, serving>>

Serve ==
  /\ phase = "active"
  /\ ~serving
  /\ identity # NoCa
  /\ \E k \in Kubeconfigs : k.ca = identity /\ handed = {k}
  /\ serving' = TRUE
  /\ UNCHANGED <<phase, identity, handed>>

Interrupt ==
  /\ serving
  /\ serving' = FALSE
  /\ UNCHANGED <<phase, identity, handed>>

Withdraw ==
  /\ ~serving
  /\ identity # NoCa
  /\ identity' = NoCa
  /\ UNCHANGED <<phase, handed, serving>>

GiveUp ==
  /\ phase = "active"
  /\ ~serving
  /\ phase' = "terminating"
  /\ UNCHANGED <<identity, handed, serving>>

\* What is handed out as a file outlives the namespace.
End ==
  /\ phase = "terminating"
  /\ ~serving
  /\ phase' = "none"
  /\ identity' = NoCa
  /\ handed' \subseteq handed
  /\ UNCHANGED serving

Next ==
  \/ Found
  \/ Certify
  \/ HandOut
  \/ Serve
  \/ Interrupt
  \/ Withdraw
  \/ GiveUp
  \/ End

Spec == Init /\ [][Next]_vars

=============================================================================
