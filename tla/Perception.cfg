CONSTANTS
  None = none
  MaxBuilds = 2
  MaxGeneration = 1
  MaxSequence = 1
SPECIFICATION FairSpec
CHECK_DEADLOCK FALSE
INVARIANTS
  DetectorsHeld
  FreshIsFollowed
PROPERTIES
  SourceFollowsLink
  ShutdownEnds
