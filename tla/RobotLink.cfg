CONSTANTS
  None = none
  MaxTransports = 3
  MaxFrames = 2
  MaxCalls = 1
SPECIFICATION FairSpec
CHECK_DEADLOCK FALSE
INVARIANTS
  OneTransport
  SequencesPerSession
PROPERTIES
  AppliedInOrder
  LinkComesBack
  CloseEnds
