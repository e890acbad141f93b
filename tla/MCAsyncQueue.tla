---------------------------- MODULE MCAsyncQueue ----------------------------
(* Model checking of AsyncQueue: callers are interchangeable model values. *)
EXTENDS AsyncQueue, TLC

CallerSymmetry == Permutations(Callers)
=============================================================================
