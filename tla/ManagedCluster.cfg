\* An upgrade of a name that is deleted, created and enlarged meanwhile, while
\* a call fails or the process is killed.
SPECIFICATION ManagedSpec
INVARIANTS
  ManagedTypeOK
  OrderlyRequestsKeepKokUp
  WholeClusterLabelIsTrue
  MarkStands
PROPERTIES
  OnlyCreateRevives
  EnlargedStaysEnlarged
CHECK_DEADLOCK FALSE
CONSTANTS
  Versions = {1, 2}
  FirstVersion = 1
  NetworkVersions = {1}
  FirstNetwork = 1
  Addons = {}
  Upgrades = {u1}
  HARequests = {h1}
  Creates = {c1}
  Deletes = {d1}
  Serial = TRUE
  ApiErrors = FALSE
  Deletable = {}
  MaxCrashes = 1
  MaxLabelParts = 4
  MaxFaults = 1
  u1 = u1
  c1 = c1
  d1 = d1
  h1 = h1
