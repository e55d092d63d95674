SPECIFICATION Spec
SYMMETRY RequestSymmetry
INVARIANTS
  EnlargedInOrder
  SettledLabelIsPlain
PROPERTIES
  ReplicasNeverLowered
CHECK_DEADLOCK FALSE
CONSTANTS
  Versions = {1, 2, 3}
  FirstVersion = 1
  NetworkVersions = {1}
  FirstNetwork = 1
  Addons = {coredns}
  Upgrades = {u1, u2}
  HARequests = {h1, h2}
  Serial = FALSE
  ApiErrors = FALSE
  Deletable = {}
  MaxCrashes = 1
  MaxLabelParts = 4
  coredns = coredns
  u1 = u1
  u2 = u2
  h1 = h1
  h2 = h2
