---------------------------- MODULE MCDepSearch -----------------------------
(* Four names, for a chain that is too deep, and at most two needs each, for *)
(* two ways down to one ticket.  The names are interchangeable.              *)
EXTENDS DepSearch, FiniteSets, TLC

CONSTANTS a, b, c, d
MCIds == {a, b, c, d}
MCLists == {L \in SUBSET MCIds : Cardinality(L) <= 2}
MCSymmetry == Permutations(MCIds)
=============================================================================
