CONSTANTS
  Groups = {head, body}
  Body = body
  Producers = {p1}
  MaxGeneration <- MCMaxGeneration
  Cancellation = TRUE
SPECIFICATION FairSpec
CHECK_DEADLOCK FALSE
INVARIANTS
  QuiescedBeforeWrite
  CommandsOnlyTorquedGroups
  NoRestoreAgainstUnknownTorque
  ClosedIsQuiet
PROPERTIES
  TerminalWins
  OperationEnds
  AcloseReturns
