SPECIFICATION Spec
INVARIANTS
  TypeOK
  CompleteClusterAgrees
  LoneCreateHeals
  NeedsPresent
  GoneLeavesNothing
  OnlyKillsStopKok
PROPERTIES
  CertificatesKept
  ImplementsLives
CHECK_DEADLOCK FALSE
CONSTANTS
  Creates = {c1, c2}
  Deletes = {d1}
  Monitors = {m1}
  NoOne = NoOne
  Networks = {"calico"}
  Addresses = {1, 2}
  Serial = TRUE
  MaxErrors = 1
  MaxCrashes = 1
  MaxFaults = 1
  c1 = c1
  c2 = c2
  d1 = d1
  m1 = m1
