CONSTANTS
  Sessions = {r1, r2}
  Viewers = {v1, v2, v3}
  MaxViewers = 2
  MaxRevision = 3
  MaxEntries = 3
  None = none
SPECIFICATION FairSpec
CHECK_DEADLOCK FALSE
INVARIANTS
  SoleSessionsPicture
  SlotsAreHeld
  NoLostWakeUp
PROPERTY ParkedViewersFinish
