----------------------------- MODULE TaskQueue ------------------------------
(***************************************************************************)
(* Scheduler::m_fibers, the std::list through which tasks reach the worker *)
(* threads.  schedule() appends under m_threads_mtx; run() scans and       *)
(* erases under m_fibers_mtx.  The two critical sections exclude only      *)
(* their own kind, so an append and an erase overlap, and list operations  *)
(* are modelled by their loads and stores of the node links:               *)
(*                                                                         *)
(*   append   empty()?   p := End.prev   p.next := n   End.prev := n       *)
(*   erase    read it.next, it.prev      link the two neighbours           *)
(*                                                                         *)
(* fibers is the chain of nodes reachable from the sentinel by _M_next,    *)
(* last is the sentinel's _M_prev.  They agree while nobody races.         *)
(***************************************************************************)
EXTENDS Naturals, SequencesExt

CONSTANTS
    Producers,      \* threads inside schedule()
    Workers,        \* threads inside run()
    Tasks,          \* list nodes: one per FiberTask that is scheduled
    FiberTasks,     \* the tasks that carry a fiber instead of a callback
    Pin,            \* FiberTask::thread_id, AnyWorker for -1
    AnyWorker,
    End,            \* the list's sentinel
    NoTask          \* a FiberTask with neither callback nor fiber

ASSUME PinAssumption == Pin \in [Tasks -> Workers \cup {AnyWorker}]
ASSUME FiberTasksAssumption == FiberTasks \subseteq Tasks
ASSUME NamesAssumption ==
    /\ End \notin Tasks
    /\ NoTask \notin Tasks
    /\ AnyWorker \notin Workers \cup Producers
    /\ Workers \cap Producers = {}

VARIABLES
    fibers, last,           \* m_fibers
    threadsMtx, fibersMtx,  \* the holder of each mutex, AnyWorker if free
    sched,                  \* schedule() of each producer
    work,                   \* run() of each worker
    pipe,                   \* an unread wake-up written by tickle()
    submitted, taken        \* history: tasks in append order, in erase order

vars == <<fibers, last, threadsMtx, fibersMtx, sched, work, pipe, submitted, taken>>

Free == AnyWorker

SchedRec == [pc : {"out", "in", "read", "hook", "publish", "tickle"},
             node : Tasks \cup {NoTask},
             prev : Tasks \cup {End},
             need : BOOLEAN]

WorkRec == [pc : {"scan", "erase", "tickle", "run", "idle"},
            node : Tasks \cup {NoTask},
            pos : Nat,
            atEnd : BOOLEAN,
            need : BOOLEAN]

Init ==
    /\ fibers = <<>> /\ last = End
    /\ threadsMtx = Free /\ fibersMtx = Free
    /\ sched = [p \in Producers |->
                  [pc |-> "out", node |-> NoTask, prev |-> End, need |-> FALSE]]
    /\ work = [w \in Workers |->
                  [pc |-> "scan", node |-> NoTask, pos |-> 0,
                   atEnd |-> FALSE, need |-> FALSE]]
    /\ pipe = FALSE
    /\ submitted = <<>> /\ taken = <<>>

-----------------------------------------------------------------------------
(* schedule(cb, thread) and schedule(begin, end)                            *)

ScheduleLock(p) ==
    /\ sched[p].pc = "out"
    /\ threadsMtx = Free
    /\ threadsMtx' = p
    /\ sched' = [sched EXCEPT ![p] = [@ EXCEPT !.pc = "in", !.need = FALSE]]
    /\ UNCHANGED <<fibers, last, fibersMtx, work, pipe, submitted, taken>>

\* scheduleNonLock: need_tickle is read first.  An item with neither fiber nor
\* callback is not appended (the whole call then only reads need_tickle).
ScheduleItemNoCheck(p, t) ==
    /\ sched[p].pc = "in"
    /\ sched' = [sched EXCEPT ![p] =
                   [@ EXCEPT !.pc = "read", !.node = t, !.need = sched[p].need \/ fibers = <<>>]]
    /\ submitted' = Append(submitted, t)
    /\ UNCHANGED <<fibers, last, threadsMtx, fibersMtx, work, pipe, taken>>

ScheduleItem(p, t) ==
    /\ sched[p].pc = "in"
    /\ sched' = [sched EXCEPT ![p] =
                   [@ EXCEPT !.pc = IF t = NoTask THEN "in" ELSE "read",
                             !.node = t,
                             !.need = sched[p].need \/ fibers = <<>>]]
    /\ submitted' = IF t = NoTask THEN submitted ELSE Append(submitted, t)
    /\ UNCHANGED <<fibers, last, threadsMtx, fibersMtx, work, pipe, taken>>

\* emplace_back, first part: the new node takes the sentinel's _M_prev.
HookRead(p) ==
    /\ sched[p].pc = "read"
    /\ sched' = [sched EXCEPT ![p] = [@ EXCEPT !.pc = "hook", !.prev = last]]
    /\ UNCHANGED <<fibers, last, threadsMtx, fibersMtx, work, pipe, submitted, taken>>

\* emplace_back, second part: prev._M_next := node.  If prev has left the chain
\* meanwhile the store goes to a freed node and the new node is unreachable.
LinkedAtFront(s, prev, node) == <<node>> \o s

Linked(s, prev, node) ==
    IF prev = End THEN <<node>>
    ELSE IF s # <<>> /\ s[Len(s)] = prev THEN Append(s, node)
    ELSE s

HookLink(p) ==
    /\ sched[p].pc = "hook"
    /\ fibers' = Linked(fibers, sched[p].prev, sched[p].node)
    /\ sched' = [sched EXCEPT ![p].pc = "publish"]
    /\ UNCHANGED <<last, threadsMtx, fibersMtx, work, pipe, submitted, taken>>

\* emplace_back, last part: the sentinel's _M_prev := node.
HookPublish(p) ==
    /\ sched[p].pc = "publish"
    /\ last' = sched[p].node
    /\ sched' = [sched EXCEPT ![p] = [@ EXCEPT !.pc = "in", !.node = NoTask]]
    /\ UNCHANGED <<fibers, threadsMtx, fibersMtx, work, pipe, submitted, taken>>

ScheduleUnlock(p) ==
    /\ sched[p].pc = "in"
    /\ threadsMtx' = Free
    /\ sched' = [sched EXCEPT ![p].pc = IF sched[p].need THEN "tickle" ELSE "out"]
    /\ UNCHANGED <<fibers, last, fibersMtx, work, pipe, submitted, taken>>

ScheduleTickle(p) ==
    /\ sched[p].pc = "tickle"
    /\ pipe' = TRUE
    /\ sched' = [sched EXCEPT ![p].pc = "out"]
    /\ UNCHANGED <<fibers, last, threadsMtx, fibersMtx, work, submitted, taken>>

-----------------------------------------------------------------------------
(* run(): one pass of the scheduling loop                                   *)

PinnedElsewhere(t, w) == Pin[t] \notin {AnyWorker, w}

\* The scan skips tasks of other threads and fibers that some thread is
\* executing; exec is the set of the latter.
Eligible(t, w, exec) == ~PinnedElsewhere(t, w) /\ t \notin exec

\* it is the first eligible task; erase() has read its neighbours.
ScanTake(w) ==
    /\ work[w].pc = "scan"
    /\ fibersMtx = Free
    /\ \E exec \in SUBSET FiberTasks, k \in 1..Len(fibers) :
         /\ Eligible(fibers[k], w, exec)
         /\ \A i \in 1..(k-1) : ~Eligible(fibers[i], w, exec)
         /\ work' = [work EXCEPT ![w] =
                       [pc |-> "erase", node |-> fibers[k], pos |-> k,
                        atEnd |-> k = Len(fibers),
                        need |-> \E i \in 1..(k-1) : PinnedElsewhere(fibers[i], w)]]
    /\ fibersMtx' = w
    /\ UNCHANGED <<fibers, last, threadsMtx, sched, pipe, submitted, taken>>

\* The rest of erase().  When it was the last node at the time of the read, its
\* predecessor becomes the last node, and whatever was appended in between goes.
ErasedNothing(s, pos, atEnd) == s

Erased(s, pos, atEnd) ==
    IF atEnd THEN SubSeq(s, 1, pos - 1) ELSE RemoveAt(s, pos)

LastAfterErase(s, pos, atEnd) ==
    IF ~atEnd THEN last ELSE IF pos = 1 THEN End ELSE s[pos - 1]

EraseUnlink(w) ==
    /\ work[w].pc = "erase"
    /\ fibers' = Erased(fibers, work[w].pos, work[w].atEnd)
    /\ last' = LastAfterErase(fibers, work[w].pos, work[w].atEnd)
    /\ fibersMtx' = Free
    /\ taken' = Append(taken, work[w].node)
    /\ work' = [work EXCEPT ![w].pc = IF work[w].need THEN "tickle" ELSE "run"]
    /\ UNCHANGED <<threadsMtx, sched, pipe, submitted>>

\* Nothing to take: needTickle |= (it == m_fibers.end()).
ScanEndNeedNever(w) == FALSE

ScanEndNeed(w) == TRUE

ScanEnd(w) ==
    /\ work[w].pc = "scan"
    /\ fibersMtx = Free
    /\ \E exec \in SUBSET FiberTasks :
         \A i \in 1..Len(fibers) : ~Eligible(fibers[i], w, exec)
    /\ work' = [work EXCEPT ![w].pc = IF ScanEndNeed(w) THEN "tickle" ELSE "idle"]
    /\ UNCHANGED <<fibers, last, threadsMtx, fibersMtx, sched, pipe, submitted, taken>>

Tickle(w) ==
    /\ work[w].pc = "tickle"
    /\ pipe' = TRUE
    /\ work' = [work EXCEPT ![w].pc = IF work[w].node = NoTask THEN "idle" ELSE "run"]
    /\ UNCHANGED <<fibers, last, threadsMtx, fibersMtx, sched, submitted, taken>>

\* The task runs (or is dropped, if its fiber has ended); ft.reset().
Run(w) ==
    /\ work[w].pc = "run"
    /\ work' = [work EXCEPT ![w] = [@ EXCEPT !.pc = "scan", !.node = NoTask, !.pos = 0,
                                             !.atEnd = FALSE, !.need = FALSE]]
    /\ UNCHANGED <<fibers, last, threadsMtx, fibersMtx, sched, pipe, submitted, taken>>

\* EventPoller::idle: epoll_wait returns for the pipe, which is drained, or at
\* its timeout.
Wake(w) ==
    /\ work[w].pc = "idle"
    /\ pipe' \in {pipe, FALSE}
    /\ work' = [work EXCEPT ![w].pc = "scan"]
    /\ UNCHANGED <<fibers, last, threadsMtx, fibersMtx, sched, submitted, taken>>

-----------------------------------------------------------------------------
Unsubmitted == Tasks \ ToSet(submitted)

Next ==
    \/ \E p \in Producers :
         \/ ScheduleLock(p) \/ HookRead(p) \/ HookLink(p) \/ HookPublish(p)
         \/ ScheduleUnlock(p) \/ ScheduleTickle(p)
         \/ \E t \in Unsubmitted \cup {NoTask} : ScheduleItem(p, t)
    \/ \E w \in Workers :
         \/ ScanTake(w) \/ EraseUnlink(w) \/ ScanEnd(w)
         \/ Tickle(w) \/ Run(w) \/ Wake(w)

Spec == Init /\ [][Next]_vars
-----------------------------------------------------------------------------
TypeOK ==
    /\ fibers \in Seq(Tasks)
    /\ last \in Tasks \cup {End}
    /\ threadsMtx \in Producers \cup {Free}
    /\ fibersMtx \in Workers \cup {Free}
    /\ sched \in [Producers -> SchedRec]
    /\ work \in [Workers -> WorkRec]
    /\ pipe \in BOOLEAN
    /\ submitted \in Seq(Tasks)
    /\ taken \in Seq(Tasks)

\* A task leaves the list for one worker only: however appends and erases
\* overlap, no task is handed out twice, and none that was handed out is still
\* reachable in m_fibers except while its own erase is under way.
AtMostOnce ==
    /\ \A i, j \in DOMAIN taken : taken[i] = taken[j] => i = j
    /\ \A i \in DOMAIN fibers, j \in DOMAIN taken : fibers[i] # taken[j]

Before(s, t, u) == \E i, j \in DOMAIN s : i < j /\ s[i] = t /\ s[j] = u

\* Callbacks scheduled for any thread are handed out in the order in which
\* schedule() appended them, although many threads scan the list (tasks with a
\* thread id, and fibers that were executing when scanned, may be overtaken).
CallbackOrder ==
    LET Plain == {t \in Tasks \ FiberTasks : Pin[t] = AnyWorker}
    IN  \A t, u \in Plain : Before(taken, t, u) => Before(submitted, t, u)

\* The wake-up that schedule() writes only for an empty list is never used up in
\* vain: when every worker sleeps in epoll_wait and no schedule() is under way,
\* a non-empty list comes with an unread wake-up, whoever consumed earlier ones.
NoStalledBacklog ==
    /\ fibers # <<>>
    /\ \A w \in Workers : work[w].pc = "idle"
    /\ \A p \in Producers : sched[p].pc = "out"
    => pipe

\* Nodes that schedule() has created and not yet linked.
InFlight == {sched[p].node : p \in {q \in Producers : sched[q].pc \in {"read", "hook"}}}

Lost == ToSet(submitted) \ (ToSet(fibers) \cup ToSet(taken) \cup InFlight)

\* Every task given to schedule() stays in m_fibers until run() takes it.
NoTaskLost == Lost = {}

\* The list implements the task pool.
TaskStatus(t) ==
    IF t \in ToSet(taken) THEN "taken"
    ELSE IF t \notin ToSet(submitted) THEN "new"
    ELSE IF t \in ToSet(fibers) \cup InFlight THEN "pending"
    ELSE "lost"

Pool == INSTANCE TaskPool WITH status <- [t \in Tasks |-> TaskStatus(t)], handed <- taken

\* Every step of schedule() and run() on the list is a submission, a hand-out or
\* a loss of pending tasks, or changes no task's status: no task that was taken
\* or lost is ever seen again.
PoolSpec == Pool!Spec
=============================================================================
