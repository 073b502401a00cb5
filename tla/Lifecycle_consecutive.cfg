CONSTANTS
  Tickets <- MCTickets
  DependsOn <- MCNobody
  Awaits <- MCNobody
  Scoped <- MCTickets
  MaxRetryConfig = 2
  MaxDispatches = 3
  Lengths = {TRUE, FALSE}
  Faults = {}
SPECIFICATION HSpec
INVARIANT AutoBlockNeedsConsecutiveFailures
CHECK_DEADLOCK FALSE
