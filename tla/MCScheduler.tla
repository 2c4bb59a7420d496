---------------------------- MODULE MCScheduler -----------------------------
(* TLC instances of Scheduler. *)
EXTENDS Scheduler

CONSTANTS r0, w1, w2, t1, t2, t3

\* t1 is for the creator's thread, the others for any.
MCPin == [t \in Tasks |-> IF t = t1 THEN r0 ELSE AnyThread]
=============================================================================
