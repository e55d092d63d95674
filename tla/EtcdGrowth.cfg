\* One to three members, kills anywhere.
SPECIFICATION FairSpec
CONSTANTS
  Enlarged = 3
  MaxCrashes = 3
INVARIANTS
  TypeOK
  OneJoinAtATime
  CachedClusterIsCurrent
PROPERTIES
  MembersStay
  ImplementsGrowing
  OnlyOrphansAreStuck
CHECK_DEADLOCK FALSE
