CONSTANTS
  Sources = {s1, s2, s3}
  Urls = {u1, u2}
  Unset = unset
  None = none
  Attempts = 2
SPECIFICATION Spec
CHECK_DEADLOCK FALSE
INVARIANT SourceOrReason
