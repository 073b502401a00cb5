CONSTANTS
  Tickets <- MCTickets
  DependsOn <- MCDependsOn
  Awaits <- MCAwaits
  Scoped <- MCTickets
  MaxRetryConfig = 2
  MaxDispatches = 2
  Lengths = {TRUE}
  Faults = {"error"}
SPECIFICATION LiveSpec
INVARIANT TypeOK
PROPERTIES ImplementsTicketFsm DispatchedResolves
CHECK_DEADLOCK FALSE
