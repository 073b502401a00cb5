CONSTANTS
  Tickets <- MCTickets
  DependsOn <- MCDependsOn
  Awaits <- MCAwaits
  Manual = {}
  Scoped <- MCTickets
  EngineOf <- MCEngineOf
  WeightOf <- MCWeightOf
  Cap <- MCCap
  MaxDispatch = 2
  Interval = 2
  Timeout = 2
  ByHand = {"complete", "fail", "cancel", "reopen", "block", "close"}
  MaxCommands = 1
SPECIFICATION LiveSpec
INVARIANTS TypeOK Counted CapsHold
PROPERTIES ReadyIsDispatched HungIsFailedWhenQuiet
