----------------------------- MODULE MCRolloutWait -----------------------------
(* RolloutWait for TLC: etcd and two Deployments that depend on each other.   *)
EXTENDS RolloutWait

UpgradeOrder == <<"etcd", "kube-apiserver", "kube-controller-manager">>
=============================================================================
