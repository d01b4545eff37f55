CONSTANTS
  Groups = {head, body}
  Body = body
  Producers = {p1}
  MaxGeneration <- MCMaxGeneration
  Cancellation = FALSE
SPECIFICATION Spec
CHECK_DEADLOCK FALSE
INVARIANT OffRequestKeepsGateClosed
