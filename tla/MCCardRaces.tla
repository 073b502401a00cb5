---------------------------- MODULE MCCardRaces ----------------------------
(* Two processes over one ticket, or over a ticket "b" that needs "a". *)
EXTENDS CardRaces, TLC

CONSTANTS p, q
MCProcs == {p, q}
MCSolo == {p}
Symmetry == Permutations(MCProcs)

MCOne == {"a"}
MCOneNobody == [t \in MCOne |-> {}]

MCPair == {"a", "b"}
MCPairEdge == [t \in MCPair |-> IF t = "b" THEN {"a"} ELSE {}]
MCPairNobody == [t \in MCPair |-> {}]
=============================================================================
