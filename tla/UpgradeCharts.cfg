SPECIFICATION FairSpec
INVARIANTS
  SettledChartsAgree
PROPERTIES
  UpgradeEnds
CHECK_DEADLOCK FALSE
CONSTANTS
  Versions = {1, 2, 3}
  FirstVersion = 1
  NetworkVersions = {1, 2}
  FirstNetwork = 1
  Addons = {coredns}
  Upgrades = {u1, u2}
  HARequests = {h1}
  Serial = TRUE
  ApiErrors = FALSE
  Deletable = {}
  MaxCrashes = 1
  MaxLabelParts = 4
  coredns = coredns
  h1 = h1
  u1 = u1
  u2 = u2
