\* Expected violation: the message of a Deployment wait.
SPECIFICATION Spec
CONSTANTS
  Order <- UpgradeOrder
  StatefulSets = {"etcd"}
  MaxVersion = 2
  MaxEvictions = 0
PROPERTY
  DeploymentSuccessIsTrue
CHECK_DEADLOCK FALSE
