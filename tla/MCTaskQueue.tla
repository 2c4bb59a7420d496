---------------------------- MODULE MCTaskQueue -----------------------------
(* TLC instance of TaskQueue. *)
EXTENDS TaskQueue, TLC

CONSTANTS p1, p2, w1, w2, t1, t2, t3, t4

MCPin == [t \in Tasks |-> IF t = t3 THEN w2 ELSE AnyWorker]
=============================================================================
