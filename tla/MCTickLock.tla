----------------------------- MODULE MCTickLock -----------------------------
(* Two or three pids.  Every process has at most one file open and the path *)
(* names one more, so with one file more than processes there is always a   *)
(* free one to create.                                                      *)
EXTENDS TickLock, TLC

CONSTANTS p1, p2, p3, f1, f2, f3, f4
MCProcs == {p1, p2, p3}
MCFiles == {f1, f2, f3, f4}
MCPair == {p1, p2}
MCPairFiles == {f1, f2, f3}
Symmetry == Permutations(MCProcs) \cup Permutations(MCFiles)
=============================================================================
