SPECIFICATION FairSpec
PROPERTIES
  CreateEnds
CHECK_DEADLOCK FALSE
CONSTANTS
  Creates = {c1}
  Deletes = {d1}
  Monitors = {}
  NoOne = NoOne
  Networks = {"calico"}
  Addresses = {1}
  Serial = FALSE
  MaxErrors = 1
  MaxCrashes = 1
  MaxFaults = 2
  c1 = c1
  d1 = d1
