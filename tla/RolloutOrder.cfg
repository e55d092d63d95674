\* One upgrade over etcd, kube-apiserver and kube-controller-manager.
SPECIFICATION Spec
CONSTANTS
  Order <- UpgradeOrder
  StatefulSets = {"etcd"}
  MaxVersion = 2
  MaxEvictions = 1
INVARIANTS
  TypeOK
  NoPodAheadOfItsServer
  StatefulSetSuccessIsTrue
CHECK_DEADLOCK FALSE
