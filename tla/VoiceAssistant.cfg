CONSTANTS
  Players <- Outputs
  None = none
  MaxPlays = 2
  MaxConnections = 2
SPECIFICATION FairSpec
CHECK_DEADLOCK FALSE
INVARIANTS
  CallbackOnce
  TakenIsOwed
  MutedIsShown
PROPERTIES
  PipelineFrees
