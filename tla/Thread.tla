------------------------------- MODULE Thread -------------------------------
(***************************************************************************)
(* The life of one Thread object: the constructor that waits for its       *)
(* thread to be set up, the thread, and the owner that joins or destroys.  *)
(***************************************************************************)
EXTENDS Integers

CONSTANT MaxJoins       \* calls of join()

ASSUME ThreadAssumption == MaxJoins \in Nat

VARIABLES
    owner,          \* constructor and owner
    body,           \* the thread
    object,         \* alive, m_thread assigned, m_running, m_id set, m_sem
    handle,         \* the std::thread: none, joinable, joined or detached
    self,           \* t_thread of the thread: unset, empty or known
    joins,          \* calls so far
    dangling,       \* the thread has used the object after its destruction
    terminated      \* std::terminate

threadVars == <<owner, body, object, handle, self, joins, dangling, terminated>>

ThreadInit ==
    /\ owner = "new" /\ body = "none"
    /\ object = [alive |-> TRUE, assigned |-> FALSE, running |-> FALSE, id |-> FALSE, sem |-> 0]
    /\ handle = "none" /\ self = "unset"
    /\ joins = 0 /\ dangling = FALSE /\ terminated = FALSE

\* The constructor: the thread starts before make_shared has returned its handle.
Spawn ==
    /\ owner = "new"
    /\ owner' = "assign" /\ body' = "start" /\ handle' = "joinable"
    /\ UNCHANGED <<object, self, joins, dangling, terminated>>

Assign ==
    /\ owner = "assign"
    /\ owner' = "wait"
    /\ object' = [object EXCEPT !.assigned = TRUE]
    /\ UNCHANGED <<body, handle, self, joins, dangling, terminated>>

\* m_sem.wait()
Constructed ==
    /\ owner = "wait" /\ object.sem > 0
    /\ owner' = "owns"
    /\ object' = [object EXCEPT !.sem = @ - 1]
    /\ UNCHANGED <<body, handle, self, joins, dangling, terminated>>

\* The thread: m_running = true
BodyStart ==
    /\ body = "start"
    /\ body' = "setup"
    /\ object' = [object EXCEPT !.running = TRUE]
    /\ UNCHANGED <<owner, handle, self, joins, dangling, terminated>>

\* Mutant: the constructor is let go before setup().
SetupLate ==
    /\ body = "setup"
    /\ body' = "task"
    /\ object' = [object EXCEPT !.sem = @ + 1]
    /\ UNCHANGED <<owner, handle, self, joins, dangling, terminated>>

\* setup(): t_thread is empty for good if m_thread has not been assigned.
Setup ==
    /\ body = "setup"
    /\ body' = "notify"
    /\ self' = IF object.assigned THEN "known" ELSE "empty"
    /\ object' = [object EXCEPT !.id = TRUE]
    /\ UNCHANGED <<owner, handle, joins, dangling, terminated>>

SemNotify ==
    /\ body = "notify"
    /\ body' = "task"
    /\ object' = [object EXCEPT !.sem = @ + 1]
    /\ UNCHANGED <<owner, handle, self, joins, dangling, terminated>>

\* (*m_task)(): m_task is read through the object, the task's function is kept alive.
RunTask ==
    /\ body = "task"
    /\ body' = "run"
    /\ dangling' = ~object.alive
    /\ UNCHANGED <<owner, object, handle, self, joins, terminated>>

BodyEnd ==
    /\ body = "run"
    /\ body' = "end"
    /\ UNCHANGED <<owner, object, handle, self, joins, dangling, terminated>>

\* join(), also of a thread that is joined
JoinEnter ==
    /\ owner = "owns" /\ joins < MaxJoins
    /\ joins' = joins + 1
    /\ owner' = "join"
    /\ UNCHANGED <<body, object, handle, self, dangling, terminated>>

Join ==
    /\ owner = "join" /\ (handle = "joinable" => body = "end")
    /\ owner' = "owns" /\ handle' = "joined"
    /\ object' = [object EXCEPT !.running = FALSE]
    /\ UNCHANGED <<body, self, joins, dangling, terminated>>

\* ~Thread(): detach() throws if there is nothing to detach, and a joinable std::thread
\* must not be destroyed; both end the program.
Destroy ==
    /\ owner = "owns"
    /\ owner' = "gone"
    /\ object' = [object EXCEPT !.alive = FALSE]
    /\ terminated' = IF object.running THEN handle # "joinable" ELSE handle = "joinable"
    /\ handle' = IF object.running THEN "detached" ELSE handle
    /\ UNCHANGED <<body, self, joins, dangling>>

ThreadNext ==
    \/ Spawn \/ Assign \/ Constructed \/ JoinEnter \/ Join \/ Destroy
    \/ BodyStart \/ Setup \/ SemNotify \/ RunTask \/ BodyEnd

ThreadSpec == ThreadInit /\ [][ThreadNext]_threadVars

-----------------------------------------------------------------------------
(* Properties                                                                *)

\* Whoever has a Thread has its id and finds it running, until it is joined.
ReadyWhenConstructed ==
    owner \in {"owns", "join"} => object.id /\ (object.running <=> handle = "joinable")

\* Joined once, twice or never, a Thread can be destroyed; only one that was not joined
\* may be used by its thread afterwards.
DestroyedSafely ==
    /\ ~terminated
    /\ dangling => handle = "detached"

\* A Thread is complete for whoever has it and can be destroyed at any time.
ThreadInv == ReadyWhenConstructed /\ DestroyedSafely
=============================================================================
