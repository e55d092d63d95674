SPECIFICATION Spec
PROPERTIES
  DeletedStaysGone
CHECK_DEADLOCK FALSE
CONSTANTS
  Creates = {c1}
  Deletes = {d1}
  Monitors = {}
  NoOne = NoOne
  Networks = {"calico"}
  Addresses = {1}
  Serial = TRUE
  MaxErrors = 0
  MaxCrashes = 0
  MaxFaults = 1
  c1 = c1
  d1 = d1
