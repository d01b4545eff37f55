CONSTANTS
  Groups = {body}
  Body = body
  Producers = {}
  MaxGeneration <- MCMaxGeneration
  Cancellation = FALSE
SPECIFICATION BodyFairSpec
CHECK_DEADLOCK FALSE
INVARIANTS
  BodyTypeOK
  YawOffBeforeTorque
  PolicyComesBack
PROPERTIES
  YawOnOnlyTorqued
  NoRestoreBehindTerminal
  OwnershipIsAsserted
