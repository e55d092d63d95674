SPECIFICATION Spec
INVARIANTS
  DialogVersionIsTrue
CHECK_DEADLOCK FALSE
CONSTANTS
  Versions = {1, 2, 3}
  FirstVersion = 1
  NetworkVersions = {1}
  FirstNetwork = 1
  Addons = {coredns}
  Upgrades = {u1, u2}
  HARequests = {}
  Serial = FALSE
  ApiErrors = FALSE
  Deletable = {}
  MaxCrashes = 0
  MaxLabelParts = 4
  coredns = coredns
  u1 = u1
  u2 = u2
