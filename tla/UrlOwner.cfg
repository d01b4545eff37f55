CONSTANTS
  Sources = {s1, s2, s3}
  Urls = {u1, u2}
  Unset = unset
  None = none
  Attempts = 2
SPECIFICATION FairSpec
CHECK_DEADLOCK FALSE
INVARIANTS
  NoOverlap
  SourceMatchesEffective
  NoSourceForgotten
PROPERTIES
  NothingAfterShutdown
  RestorationEnds
  ShutdownEnds
