----------------------------- MODULE Scheduler ------------------------------
(***************************************************************************)
(* The life of a Scheduler: start(), the run() loops of its workers and,   *)
(* inside stop(), of its creator, and how they end.  m_fibers is a set     *)
(* here (TaskQueue has the list) and a task is one step (Fiber has the     *)
(* switch).  With Poller = TRUE idle() and stopping() are EventPoller's.   *)
(*                                                                         *)
(* m_activeThreadNum is a plain size_t: run() adds one under m_fibers_mtx  *)
(* and subtracts one without it, so both are a load and a store.           *)
(***************************************************************************)
EXTENDS Integers, FiniteSets

CONSTANTS
    Workers,        \* threads that start() may create
    Root,           \* the thread that creates and stops the scheduler
    UseCaller,      \* use_caller: m_mainFiber exists
    Poller,
    Tasks,
    Pin,            \* FiberTask::thread_id, AnyThread for -1
    AnyThread,
    CountLimit      \* stands for 2^64, the range of m_activeThreadNum

Runners == Workers \cup {Root}

ASSUME RootAssumption == Root \notin Workers /\ AnyThread \notin Runners
ASSUME PinAssumption == Pin \in [Tasks -> Runners \cup {AnyThread}]
ASSUME ThreadsAssumption == UseCaller \in BOOLEAN /\ Poller \in BOOLEAN
ASSUME LimitAssumption ==
    IsFiniteSet(Workers) /\ CountLimit \in Nat /\ CountLimit > Cardinality(Runners)

VARIABLES
    threads,                \* the m_threadNum workers of this scheduler
    running, autoStop,      \* m_running, m_autoStop
    active,                 \* m_activeThreadNum
    fibers, fibersMtx,      \* m_fibers and the holder of its mutex
    run,                    \* the run() loop of each thread
    root,                   \* what the creator is doing
    submitted, done         \* history: tasks scheduled, tasks executed

vars == <<threads, running, autoStop, active, fibers, fibersMtx, run, root, submitted, done>>

RunRec == [pc : {"out", "scan", "inc", "task", "dec", "idle", "gone"},
           loaded : 0..CountLimit - 1,      \* m_activeThreadNum as loaded
           idleTerm : BOOLEAN]              \* idle_fiber is TERM

Looping == [pc |-> "scan", loaded |-> 0, idleTerm |-> FALSE]

\* The constructor asserts threads > 0 and, with use_caller, counts the creator as
\* one of them.
Init ==
    /\ threads \in SUBSET Workers /\ (UseCaller \/ threads # {})
    /\ running = FALSE /\ autoStop = FALSE
    /\ active = 0
    /\ fibers = {} /\ fibersMtx = AnyThread
    /\ run = [r \in Runners |-> [Looping EXCEPT !.pc = "out"]]
    /\ root = "use"
    /\ submitted = {} /\ done = {}

-----------------------------------------------------------------------------
(* The creator: start() and schedule()                                       *)

start ==
    /\ root = "use" /\ ~running
    /\ running' = TRUE
    /\ run' = [r \in Runners |-> IF r \in threads THEN Looping ELSE run[r]]
    /\ UNCHANGED <<threads, autoStop, active, fibers, fibersMtx, root, submitted, done>>

\* The creator before it stops, or a task that is being executed, schedules t.
schedule(t) ==
    /\ t \notin submitted
    /\ root = "use" \/ \E r \in Runners : run[r].pc = "task"
    /\ fibers' = fibers \cup {t}
    /\ submitted' = submitted \cup {t}
    /\ UNCHANGED <<threads, running, autoStop, active, fibersMtx, run, root, done>>

-----------------------------------------------------------------------------
(* run()                                                                     *)

\* m_activeThreadNum is unsigned.
CountSigned(n) == n

Count(n) == n % CountLimit

Eligible(t, r) == Pin[t] \in {AnyThread, r}

\* The scan finds a task and erases it; ++m_activeThreadNum has loaded.
Take(r, t) ==
    /\ run[r].pc = "scan" /\ fibersMtx = AnyThread
    /\ t \in fibers /\ Eligible(t, r)
    /\ fibers' = fibers \ {t}
    /\ done' = done \cup {t}
    /\ fibersMtx' = r
    /\ run' = [run EXCEPT ![r].pc = "inc", ![r].loaded = active]
    /\ UNCHANGED <<threads, running, autoStop, active, root, submitted>>

Increment(r) ==
    /\ run[r].pc = "inc"
    /\ active' = Count(run[r].loaded + 1)
    /\ fibersMtx' = AnyThread
    /\ run' = [run EXCEPT ![r].pc = "task"]
    /\ UNCHANGED <<threads, running, autoStop, fibers, root, submitted, done>>

\* The task has run; --m_activeThreadNum has loaded.
TaskEnd(r) ==
    /\ run[r].pc = "task"
    /\ run' = [run EXCEPT ![r].pc = "dec", ![r].loaded = active]
    /\ UNCHANGED <<threads, running, autoStop, active, fibers, fibersMtx, root, submitted, done>>

Decrement(r) ==
    /\ run[r].pc = "dec"
    /\ active' = Count(run[r].loaded - 1)
    /\ run' = [run EXCEPT ![r].pc = "scan"]
    /\ UNCHANGED <<threads, running, autoStop, fibers, fibersMtx, root, submitted, done>>

\* Nothing to take: swap the idle fiber in, or leave run() if it has ended.
NoTask(r) ==
    /\ run[r].pc = "scan" /\ fibersMtx = AnyThread
    /\ \A t \in fibers : ~Eligible(t, r)
    /\ run' = [run EXCEPT ![r].pc = IF run[r].idleTerm THEN "gone" ELSE "idle"]
    /\ UNCHANGED <<threads, running, autoStop, active, fibers, fibersMtx, root, submitted, done>>

StoppingWithTasks == autoStop /\ ~running /\ active = 0

SchedulerStopping == autoStop /\ ~running /\ fibers = {} /\ active = 0

\* getNextTimer() without timers (none are set here), and the value that
\* EventPoller::stopping(timeout) takes for "no timers".
getNextTimer == 0
NoTimers == -1      \* ~0ull

PollerStopping == getNextTimer = NoTimers /\ SchedulerStopping

\* Scheduler::idle returns at once; EventPoller::idle when stopping(timeout),
\* and otherwise swaps out after each epoll_wait.
IdleStays(r) == FALSE

IdleEnds(r) == IF Poller THEN PollerStopping ELSE TRUE

idle(r) ==
    /\ run[r].pc = "idle"
    /\ Poller => fibersMtx = AnyThread
    /\ run' = [run EXCEPT ![r].pc = "scan", ![r].idleTerm = IdleEnds(r)]
    /\ UNCHANGED <<threads, running, autoStop, active, fibers, fibersMtx, root, submitted, done>>

-----------------------------------------------------------------------------
(* stop()                                                                    *)

\* What stopping() returns to stop().  EventPoller's override has no return
\* statement.
Stopping(b) == IF Poller THEN b \in BOOLEAN ELSE b = SchedulerStopping

stop ==
    /\ root = "use"
    /\ autoStop' = TRUE
    /\ running' = FALSE
    /\ root' = IF UseCaller /\ threads = {} THEN "early" ELSE "join"
    /\ UNCHANGED <<threads, active, fibers, fibersMtx, run, submitted, done>>

\* Without threads a scheduler whose m_mainFiber is not running (it is INIT: stop()
\* is called once) may be done already.
stopEarly ==
    /\ root = "early"
    /\ \E b \in BOOLEAN : Stopping(b) /\ root' = IF b THEN "returned" ELSE "join"
    /\ UNCHANGED <<threads, running, autoStop, active, fibers, fibersMtx, run, submitted, done>>

Joined == \A w \in Workers : run[w].pc \in {"out", "gone"}

\* Every thread is joined; if work is left m_mainFiber->call() runs it here.
join ==
    /\ root = "join" /\ Joined
    /\ \E b \in BOOLEAN :
         /\ Stopping(b)
         /\ IF b THEN root' = "returned" /\ UNCHANGED run
            ELSE IF ~UseCaller THEN root' = "null call" /\ UNCHANGED run
            ELSE root' = "main" /\ run' = [run EXCEPT ![Root] = Looping]
    /\ UNCHANGED <<threads, running, autoStop, active, fibers, fibersMtx, submitted, done>>

\* m_mainFiber ends and returns to stop().
back ==
    /\ root = "main" /\ run[Root].pc = "gone"
    /\ root' = "returned"
    /\ UNCHANGED <<threads, running, autoStop, active, fibers, fibersMtx, run, submitted, done>>

-----------------------------------------------------------------------------
RunStep(r) ==
    \/ \E t \in Tasks : Take(r, t)
    \/ Increment(r) \/ TaskEnd(r) \/ Decrement(r) \/ NoTask(r) \/ idle(r)

Finished == root = "returned" /\ UNCHANGED vars

Next ==
    \/ start \/ stop \/ stopEarly \/ join \/ back
    \/ \E t \in Tasks : schedule(t)
    \/ \E r \in Runners : RunStep(r)
    \/ Finished

Spec == Init /\ [][Next]_vars

\* Threads run, and stop() goes on when it can; nobody has to call anything.
Fairness == /\ WF_vars(stopEarly) /\ WF_vars(join) /\ WF_vars(back)
            /\ \A r \in Runners : /\ WF_vars(Increment(r) \/ TaskEnd(r) \/ Decrement(r))
                                  /\ SF_vars(NoTask(r) \/ idle(r))
                                  /\ SF_vars(\E t \in Tasks : Take(r, t))

FairSpec == Spec /\ Fairness

-----------------------------------------------------------------------------
TypeOK ==
    /\ threads \subseteq Workers
    /\ running \in BOOLEAN /\ autoStop \in BOOLEAN
    /\ active \in 0..CountLimit - 1
    /\ fibers \subseteq Tasks
    /\ fibersMtx \in Runners \cup {AnyThread}
    /\ run \in [Runners -> RunRec]
    /\ root \in {"use", "early", "join", "main", "returned", "null call"}
    /\ submitted \subseteq Tasks /\ done \subseteq Tasks

\* stop() returns only when every task that was scheduled, by the creator or by
\* other tasks, has been executed and no thread is executing one: although the
\* workers may have left run() long before, and whatever the unprotected
\* m_activeThreadNum has become.
StopDrains ==
    root = "returned" =>
      /\ submitted = done
      /\ \A r \in Runners : run[r].pc \in {"out", "gone"}

\* stop() returns.
StopReturns == root \in {"early", "join", "main"} ~> root = "returned"
=============================================================================
