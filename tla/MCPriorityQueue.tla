--------------------------- MODULE MCPriorityQueue ---------------------------
(* Model checking of PriorityQueue.                                        *)
EXTENDS PriorityQueue, TLC

CallerSymmetry == Permutations(Callers)
=============================================================================
