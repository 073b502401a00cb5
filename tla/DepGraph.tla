------------------------------ MODULE DepGraph ------------------------------
(***************************************************************************)
(* The dependency graph of a ticket tree and what validateDependencyGraph  *)
(* asks of it.  A graph E gives every name the set of names its card       *)
(* depends on or awaits; a name without a card has none.  The searches of  *)
(* the code are in DepSearch; here is what they look for.                  *)
(***************************************************************************)
EXTENDS Naturals

\* No ticket of S names one outside of it.
Closed(E, S) == \A n \in S : E[n] \subseteq S

\* What the searches come past when they start at x, x included.
Reach(E, x) ==
  {n \in DOMAIN E : \A S \in SUBSET DOMAIN E : x \in S /\ Closed(E, S) => n \in S}

\* Every part of S has a ticket that needs nothing in it, so no cycle is in S.
Acyclic(E, S) == \A T \in SUBSET S : T # {} => \E n \in T : E[n] \cap T = {}

\* A chain of more than three tickets starts at x.
TooDeep(E, x) == \E a \in E[x] : \E b \in E[a] : E[b] # {}

\* Bug: the chain is not measured.
AcceptsAnyDepth(nodes, E, x) == E[x] \subseteq nodes /\ Acyclic(E, Reach(E, x))

\* Ticket x passes: what it names exists, and nothing below it is circular
\* or too deep.  Looking at depends_on and awaits one after the other, as the
\* commands do, comes to the same: a cycle or a chain leaves x by one of them.
Accepts(nodes, E, x) ==
  /\ E[x] \subseteq nodes
  /\ Acyclic(E, Reach(E, x))
  /\ ~TooDeep(E, x)

\* The tickets that name x.
Dependents(nodes, E, x) == {n \in nodes : x \in E[n]}

\* Bug: the cascade stops after the direct dependents.
BranchDirect(nodes, E, x) == {x} \cup Dependents(nodes, E, x)

\* The tickets that a cascade from x takes along, x included.
Branch(nodes, E, x) == {n \in nodes : x \in Reach(E, n)}
=============================================================================
