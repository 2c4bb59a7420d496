------------------------------ MODULE TaskPool ------------------------------
(***************************************************************************)
(* What the scheduler's task list promises its callers, without lists,     *)
(* locks or threads: a task is submitted at most once, and from then on it *)
(* is pending until it is either handed to one worker or lost.  It never   *)
(* comes back.  Nothing here forbids a loss: TaskQueue shows where the     *)
(* code can lose a task.                                                   *)
(***************************************************************************)
EXTENDS Sequences

CONSTANT Tasks

VARIABLES
    status,     \* of each task
    handed      \* the tasks handed to workers, in order

Status == {"new", "pending", "taken", "lost"}

Init == /\ status = [t \in Tasks |-> "new"]
        /\ handed = <<>>

Submit(t) ==
    /\ status[t] = "new"
    /\ status' = [status EXCEPT ![t] = "pending"]
    /\ UNCHANGED handed

\* t is handed out; L is lost in the same step.
Take(t, L) ==
    /\ \A u \in L \cup {t} : status[u] = "pending"
    /\ t \notin L
    /\ status' = [u \in Tasks |-> IF u = t THEN "taken"
                                  ELSE IF u \in L THEN "lost" ELSE status[u]]
    /\ handed' = Append(handed, t)

Lose(L) ==
    /\ \A u \in L : status[u] = "pending"
    /\ status' = [u \in Tasks |-> IF u \in L THEN "lost" ELSE status[u]]
    /\ UNCHANGED handed

Next == \/ \E t \in Tasks : Submit(t)
        \/ \E L \in SUBSET Tasks : Lose(L) \/ \E t \in Tasks : Take(t, L)

Spec == Init /\ [][Next]_<<status, handed>>
=============================================================================
