CONSTANTS
  Tickets <- MCPair
  DependsOn <- MCPairDependsOn
  Awaits <- MCPairNobody
  Manual = {}
  Scoped <- MCPair
  EngineOf <- MCPairEngineOf
  WeightOf <- MCPairWeightOf
  Cap <- MCNoCap
  MaxDispatch = 1
  Interval = 2
  Timeout = 2
  ByHand = {}
  MaxCommands = 0
SPECIFICATION LiveSpec
PROPERTY HungIsFailed
