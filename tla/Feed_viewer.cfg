CONSTANTS
  Sessions = {r1, r2}
  Viewers = {v1}
  MaxViewers = 1
  MaxRevision = 3
  MaxEntries = 3
  None = none
SPECIFICATION Spec
CHECK_DEADLOCK FALSE
INVARIANT ViewerEndsWithItsSession
