CONSTANTS
  Tickets <- MCPair
  DependsOn <- MCPairNobody
  Awaits <- MCPairEdge
  Scoped <- MCPair
  p = p
  q = q
  Procs <- MCSolo
  MaxRetryConfig = 2
  MaxDispatches = 2
  Lengths = {TRUE}
  Faults = {"error"}
SPECIFICATION Spec
PROPERTIES FreshWritesAreLawful ImplementsTicketFsm
INVARIANTS TypeOK CardsOK CardsNameOwnDispatches
CHECK_DEADLOCK FALSE
