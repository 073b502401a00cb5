CONSTANTS
  Tickets <- MCOne
  DependsOn <- MCOneNobody
  Awaits <- MCOneNobody
  Scoped <- MCOne
  p = p
  q = q
  Procs <- MCProcs
  MaxRetryConfig = 2
  MaxDispatches = 1
  Lengths = {TRUE}
  Faults = {}
SYMMETRY Symmetry
SPECIFICATION Spec
PROPERTY ReconcileTrustsTheArtifact
CHECK_DEADLOCK FALSE
