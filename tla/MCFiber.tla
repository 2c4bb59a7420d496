------------------------------ MODULE MCFiber -------------------------------
(* TLC instances of Fiber. *)
EXTENDS Fiber, TLC

CONSTANTS w1, w2, f1, f2, f3, f4, j1, j2, j3

Symmetry == Permutations(Workers) \cup Permutations(Fibers) \cup Permutations(Jobs)
=============================================================================
