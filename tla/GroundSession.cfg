CONSTANTS
  face = face
  gesture = gesture
  other = other
  Capabilities <- MCCapabilities
  Factories <- MCFactories
  Offers <- MCOffers
  None = none
  Bound = 2
  MaxFrames = 3
  MaxCancels = 2
SPECIFICATION FairSpec
CHECK_DEADLOCK FALSE
INVARIANTS
  NoLostWakeup
  AgreedIsRouted
PROPERTIES
  KeepsPromise
  SessionEnds
