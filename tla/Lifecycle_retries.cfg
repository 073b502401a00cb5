CONSTANTS
  Tickets <- MCTickets
  DependsOn <- MCNobody
  Awaits <- MCNobody
  Scoped <- MCTickets
  MaxRetryConfig = 2
  MaxDispatches = 3
  Lengths = {TRUE, FALSE}
  Faults = {"error", "longError", "other"}
SPECIFICATION HSpec
INVARIANTS CardsOK CurrentDispatchIsNewest FailuresBounded
PROPERTY ResultsKept
CHECK_DEADLOCK FALSE
