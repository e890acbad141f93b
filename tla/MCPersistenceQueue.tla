------------------------- MODULE MCPersistenceQueue -------------------------
(* Model checking of PersistenceQueue: workers are interchangeable.        *)
EXTENDS PersistenceQueue, TLC

WorkerSymmetry == Permutations(Workers)
=============================================================================
