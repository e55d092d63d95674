SPECIFICATION FairSpec
PROPERTIES
  AcceptedUpgradeCompletes
CHECK_DEADLOCK FALSE
CONSTANTS
  Versions = {1, 2}
  FirstVersion = 1
  NetworkVersions = {1}
  FirstNetwork = 1
  Addons = {coredns}
  Upgrades = {u1}
  HARequests = {h1}
  Serial = TRUE
  ApiErrors = FALSE
  Deletable = {}
  MaxCrashes = 0
  MaxLabelParts = 2
  coredns = coredns
  u1 = u1
  h1 = h1
