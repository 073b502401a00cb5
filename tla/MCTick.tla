------------------------------- MODULE MCTick -------------------------------
(* Three tickets: 1 and 2 share the capped engine, 2 weighs as much as the  *)
(* cap; 3 runs elsewhere and awaits 1.  Or two: 2 depends on 1, no caps.    *)
EXTENDS Tick

MCTickets == {1, 2, 3}
MCDependsOn == [t \in MCTickets |-> {}]
MCAwaits == [t \in MCTickets |-> IF t = 3 THEN {1} ELSE {}]
MCEngineOf == [t \in MCTickets |-> IF t = 3 THEN "codex" ELSE "claude"]
MCWeightOf == [t \in MCTickets |-> IF t = 2 THEN 2 ELSE 1]
MCCap == [e \in {"claude"} |-> 2]

MCPair == {1, 2}
MCPairDependsOn == [t \in MCPair |-> IF t = 2 THEN {1} ELSE {}]
MCPairNobody == [t \in MCPair |-> {}]
MCPairEngineOf == [t \in MCPair |-> "claude"]
MCPairWeightOf == [t \in MCPair |-> 1]
MCNoCap == [e \in {} |-> 0]
=============================================================================
