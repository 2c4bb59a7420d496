--------------------------- MODULE MCEventPoller ----------------------------
(* TLC instances of EventPoller. *)
EXTENDS EventPoller, TLC

CONSTANTS c1, c2, p1, p2, f1, f2, big, w1, w2

Symmetry == Permutations(Callers) \cup Permutations(Pollers) \cup Permutations(Waiters)
=============================================================================
