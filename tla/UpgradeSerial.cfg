SPECIFICATION Spec
SYMMETRY RequestSymmetry
INVARIANTS
  TypeOK
  LabelNamesImages
  PlainLabelIsTrue
  NothingAheadOfItsServer
PROPERTIES
  ImplementsSequential
CHECK_DEADLOCK FALSE
CONSTANTS
  Versions = {1, 2, 3}
  FirstVersion = 1
  NetworkVersions = {1}
  FirstNetwork = 1
  Addons = {coredns}
  Upgrades = {u1, u2, u3}
  HARequests = {}
  Serial = TRUE
  ApiErrors = TRUE
  Deletable = {2}
  MaxCrashes = 1
  MaxLabelParts = 3
  coredns = coredns
  u1 = u1
  u2 = u2
  u3 = u3
