---------------------------- MODULE EventPoller -----------------------------
(***************************************************************************)
(* EventPoller: the table of FdContexts, the calls that register and       *)
(* withdraw waiters (addEvent, delEvent, cancelEvent, cancelAll) and the   *)
(* part of idle() that turns epoll results into scheduled waiters, run by  *)
(* many threads.                                                           *)
(*                                                                         *)
(* One step of a thread is what it does between two points at which other  *)
(* threads or the kernel can tell the difference: taking m_mtx, the        *)
(* epoll_ctl under the FdContext's mutex, each change of                   *)
(* m_pendingEventCount, each schedule(), the unlocks.  A failed Assert     *)
(* aborts the process: abort names it and nothing happens afterwards.      *)
(***************************************************************************)
EXTENDS Integers, FiniteSets

CONSTANTS
    Callers,        \* threads whose fibers call addEvent, delEvent, ...
    Pollers,        \* threads that run idle()
    Fds,
    Table,          \* the fds below m_fdContexts.size()
    Waiters,        \* fibers and callbacks passed to addEvent
    Conditions,     \* what may hold of an fd: EPOLLIN as "READ", EPOLLOUT as
                    \* "WRITE", EPOLLERR and EPOLLHUP as "HUP"
    CtlResults,     \* what epoll_ctl may return: {TRUE} or {TRUE, FALSE}
    NoThread, NoWaiter

ASSUME TableAssumption == Table \subseteq Fds /\ Fds # {}
ASSUME CtlAssumption == CtlResults \subseteq BOOLEAN
ASSUME NullAssumption == NoWaiter \notin Waiters /\ NoThread \notin Callers \cup Pollers
ASSUME FiniteAssumption == IsFiniteSet(Table)

Threads == Callers \cup Pollers
Events == {"READ", "WRITE"}

ASSUME ConditionsAssumption == Conditions \subseteq Events \cup {"HUP"}

VARIABLES
    events, ctx, mutex,         \* FdContext: events, read/write, mutex
    pending,                    \* m_pendingEventCount
    readers,                    \* shared holders that m_mtx counts
    interest, level, ready,     \* the kernel: registered events, conditions that
                                \* hold, whether the fd is on epoll's ready list
    waiter,                     \* where each waiter is
    call,                       \* what each thread is doing
    batch,                      \* epoll results not yet handled by each thread
    abort                       \* the Assert that failed, or "no"

kernel == <<interest, level, ready>>
table == <<events, ctx>>
vars == <<events, ctx, mutex, pending, readers, interest, level, ready,
          waiter, call, batch, abort>>

WaiterStates == {"running",     \* free to register (again)
                 "adding",      \* its addEvent is under way
                 "waiting",     \* registered
                 "queued",      \* scheduled
                 "dropped",     \* discarded by delEvent
                 "failed"}      \* its addEvent threw

Ops == {"none", "add", "del", "cancel", "cancelAll", "idle"}
Pcs == {"free", "rdlock", "lookup", "grow", "ctl", "set", "dec", "trig", "exit",
        "unlock", "items"}

Aborts == {"no", "addEvent: event already registered", "addEvent: context in use",
           "triggerEvent: event not registered", "cancelAll: events left"}

CallRec == [op : Ops, pc : Pcs, fd : Fds, ev : Events,
            who : Waiters \cup {NoWaiter}, todo : SUBSET Events]

Result == [fd : Table, evs : SUBSET Conditions]

Init ==
    /\ events = [f \in Table |-> {}]
    /\ ctx = [f \in Table |-> [e \in Events |-> NoWaiter]]
    /\ mutex = [f \in Table |-> NoThread]
    /\ pending = 0
    /\ readers = 0
    /\ interest = [f \in Table |-> {}]
    /\ level = [f \in Table |-> {}]
    /\ ready = [f \in Table |-> FALSE]
    /\ waiter = [w \in Waiters |-> "running"]
    /\ call = [t \in Threads |-> [op |-> "none", pc |-> "free", fd |-> CHOOSE f \in Fds : TRUE,
                                  ev |-> "READ", who |-> NoWaiter, todo |-> {}]]
    /\ batch = [t \in Threads |-> {}]
    /\ abort = "no"

-----------------------------------------------------------------------------
(* The kernel, as idle() and the registration calls use it (external).      *)

\* epoll_ctl (ADD and MOD with a non-empty set, DEL otherwise).  A registration
\* that is edge-triggered reports a condition that already holds.
EpollCtl(f, evs, ok) ==
    /\ interest' = IF ok THEN [interest EXCEPT ![f] = evs] ELSE interest
    /\ ready' = IF ~ok THEN ready
                ELSE [ready EXCEPT ![f] = evs # {} /\ level[f] \cap (evs \cup {"HUP"}) # {}]
    /\ UNCHANGED level

\* A condition (again) becomes true: EPOLLHUP and EPOLLERR need no registration.
Edge(f, c) ==
    /\ level' = [level EXCEPT ![f] = @ \cup {c}]
    /\ ready' = [ready EXCEPT ![f] =
                   @ \/ (interest[f] # {} /\ c \in interest[f] \cup {"HUP"})]
    /\ UNCHANGED <<events, ctx, mutex, pending, readers, interest, waiter, call, batch, abort>>

\* A condition ends: the input has been read, the send buffer is full.
Drain(f, c) ==
    /\ c \in Events \cap level[f]
    /\ level' = [level EXCEPT ![f] = @ \ {c}]
    /\ UNCHANGED <<events, ctx, mutex, pending, readers, interest, ready, waiter, call,
                   batch, abort>>

Reported(f) == level[f] \cap (interest[f] \cup {"HUP"})

-----------------------------------------------------------------------------
(* Calls                                                                     *)

Goto(t, pc) == call' = [call EXCEPT ![t].pc = pc]

Go(t, op, pc, f, e, todo) ==
    call' = [call EXCEPT ![t] = [op |-> op, pc |-> pc, fd |-> f, ev |-> e,
                                 who |-> call[t].who, todo |-> todo]]

Return(t) ==
    call' = [call EXCEPT ![t] = [op |-> "none", pc |-> "free", fd |-> call[t].fd,
                                 ev |-> call[t].ev, who |-> NoWaiter, todo |-> {}]]

Fail(name) ==
    /\ abort' = name
    /\ UNCHANGED <<events, ctx, mutex, pending, readers, kernel, waiter, call, batch>>

\* A fiber calls addEvent for itself, or with a callback.
CallAdd(t, f, e, w) ==
    /\ t \in Callers /\ call[t].pc = "free"
    /\ waiter[w] = "running"
    /\ waiter' = [waiter EXCEPT ![w] = "adding"]
    /\ call' = [call EXCEPT ![t] = [op |-> "add", pc |-> "rdlock", fd |-> f, ev |-> e,
                                    who |-> w, todo |-> {}]]
    /\ UNCHANGED <<table, mutex, pending, readers, kernel, batch, abort>>

\* delEvent, cancelEvent (from the time-out of a hooked call) or cancelAll (from
\* close) is called.
CallWithdraw(t, op, f, e) ==
    /\ t \in Callers /\ call[t].pc = "free"
    /\ op \in {"del", "cancel", "cancelAll"}
    /\ op = "cancelAll" => e = "READ"      \* cancelAll has no event argument
    /\ call' = [call EXCEPT ![t] = [op |-> op, pc |-> "rdlock", fd |-> f, ev |-> e,
                                    who |-> NoWaiter, todo |-> {}]]
    /\ UNCHANGED <<table, mutex, pending, readers, kernel, waiter, batch, abort>>

\* std::shared_lock on m_mtx.  glibc refuses a reader (and libstdc++ retries for
\* ever) while the count, the new reader included, is below zero.
RdLock(t) ==
    /\ call[t].pc = "rdlock"
    /\ readers + 1 >= 0
    /\ readers' = readers + 1
    /\ Goto(t, "lookup")
    /\ UNCHANGED <<table, mutex, pending, kernel, waiter, batch, abort>>

\* The size test, and the explicit unlock (or, on an early return, the implicit).
Lookup(t) ==
    /\ call[t].pc = "lookup"
    /\ readers' = readers - 1
    /\ IF call[t].fd \in Table THEN Goto(t, "ctl")
       ELSE IF call[t].op = "add" THEN Goto(t, "grow") ELSE Return(t)
    /\ UNCHANGED <<table, mutex, pending, kernel, waiter, batch, abort>>

\* contextResize under the write lock takes the same lock again: EDEADLK, which
\* leaves addEvent as an exception.  The table does not grow.
Grow(t) ==
    /\ call[t].pc = "grow"
    /\ readers = 0
    /\ waiter' = [waiter EXCEPT ![call[t].who] = "failed"]
    /\ Return(t)
    /\ UNCHANGED <<table, mutex, pending, readers, kernel, batch, abort>>

\* The second unlock of m_mtx, by the shared_lock's destructor.
Unlock(t) ==
    /\ call[t].pc = "unlock"
    /\ readers' = readers - 1
    /\ Return(t)
    /\ UNCHANGED <<table, mutex, pending, kernel, waiter, batch, abort>>

\* if(rt): the call, or the handling of this result, ends and nothing changes.
RefusedNever(ok) == FALSE

Refused(ok) == ~ok

\* new_events and left_events: what stays registered when evs go.
LeftNothing(f, evs) == {}

Left(f, evs) == events[f] \ evs

getContextOfRead(f, e) == ctx[f]["READ"]

getContext(f, e) == ctx[f][e]

-----------------------------------------------------------------------------
(* addEvent                                                                  *)

NotRegistered(f, e) == FALSE

AlreadyRegistered(f, e) == e \in events[f]

AddCtl(t) ==
    LET f == call[t].fd
        e == call[t].ev
    IN
    /\ call[t].pc = "ctl" /\ call[t].op = "add"
    /\ mutex[f] = NoThread
    /\ IF AlreadyRegistered(f, e) THEN Fail("addEvent: event already registered")
       ELSE \E ok \in CtlResults :
              /\ EpollCtl(f, events[f] \cup {e}, ok)
              /\ IF Refused(ok)
                 THEN /\ waiter' = [waiter EXCEPT ![call[t].who] = "running"]
                      /\ Return(t)
                      /\ UNCHANGED mutex
                 ELSE /\ mutex' = [mutex EXCEPT ![f] = t]
                      /\ Goto(t, "set")
                      /\ UNCHANGED waiter
              /\ UNCHANGED <<table, pending, readers, batch, abort>>

AddSet(t) ==
    LET f == call[t].fd
        e == call[t].ev
    IN
    /\ call[t].pc = "set" /\ call[t].op = "add"
    /\ IF getContext(f, e) # NoWaiter THEN Fail("addEvent: context in use")
       ELSE /\ pending' = pending + 1
            /\ events' = [events EXCEPT ![f] = @ \cup {e}]
            /\ ctx' = [ctx EXCEPT ![f][e] = call[t].who]
            /\ waiter' = [waiter EXCEPT ![call[t].who] = "waiting"]
            /\ mutex' = [mutex EXCEPT ![f] = NoThread]
            /\ Return(t)
            /\ UNCHANGED <<readers, kernel, batch, abort>>

-----------------------------------------------------------------------------
(* delEvent, cancelEvent, cancelAll                                          *)

\* delEvent and cancelEvent up to the epoll_ctl.
WithdrawCtl(t) ==
    LET f == call[t].fd
        e == call[t].ev
    IN
    /\ call[t].pc = "ctl" /\ call[t].op \in {"del", "cancel"}
    /\ mutex[f] = NoThread
    /\ IF e \notin events[f] THEN Goto(t, "unlock") /\ UNCHANGED <<mutex, kernel>>
       ELSE \E ok \in CtlResults :
              /\ EpollCtl(f, Left(f, {e}), ok)
              /\ IF Refused(ok) THEN Goto(t, "unlock") /\ UNCHANGED mutex
                 ELSE /\ Goto(t, IF call[t].op = "del" THEN "set" ELSE "dec")
                      /\ mutex' = [mutex EXCEPT ![f] = t]
    /\ UNCHANGED <<table, pending, readers, waiter, batch, abort>>

\* resetContext drops the waiter.
DelSet(t) ==
    LET f == call[t].fd
        e == call[t].ev
    IN
    /\ call[t].pc = "set" /\ call[t].op = "del"
    /\ pending' = pending - 1
    /\ events' = [events EXCEPT ![f] = Left(f, {e})]
    /\ ctx' = [ctx EXCEPT ![f][e] = NoWaiter]
    /\ waiter' = [waiter EXCEPT ![getContext(f, e)] = "dropped"]
    /\ mutex' = [mutex EXCEPT ![f] = NoThread]
    /\ Goto(t, "unlock")
    /\ UNCHANGED <<readers, kernel, batch, abort>>

CancelDecForgotten(t) ==
    /\ call[t].pc = "dec" /\ call[t].op = "cancel"
    /\ Go(t, "cancel", "trig", call[t].fd, call[t].ev, {call[t].ev})
    /\ UNCHANGED <<table, mutex, pending, readers, kernel, waiter, batch, abort>>

\* cancelEvent counts down before it triggers.
CancelDec(t) ==
    /\ call[t].pc = "dec" /\ call[t].op = "cancel"
    /\ pending' = pending - 1
    /\ Go(t, "cancel", "trig", call[t].fd, call[t].ev, {call[t].ev})
    /\ UNCHANGED <<table, mutex, readers, kernel, waiter, batch, abort>>

AllCtl(t) ==
    LET f == call[t].fd IN
    /\ call[t].pc = "ctl" /\ call[t].op = "cancelAll"
    /\ mutex[f] = NoThread
    /\ IF events[f] = {} THEN Goto(t, "unlock") /\ UNCHANGED <<mutex, kernel>>
       ELSE \E ok \in CtlResults :
              /\ EpollCtl(f, {}, ok)
              /\ IF Refused(ok) THEN Goto(t, "unlock") /\ UNCHANGED mutex
                 ELSE /\ Go(t, "cancelAll", "trig", f, call[t].ev, events[f])
                      /\ mutex' = [mutex EXCEPT ![f] = t]
    /\ UNCHANGED <<table, pending, readers, waiter, batch, abort>>

-----------------------------------------------------------------------------
(* triggerEvent, and the count-downs around it                               *)

First(todo) == IF "READ" \in todo THEN "READ" ELSE "WRITE"

Trigger(t) ==
    LET f == call[t].fd
        e == First(call[t].todo)
    IN
    /\ call[t].pc = "trig"
    /\ IF e \notin events[f] THEN Fail("triggerEvent: event not registered")
       ELSE /\ events' = [events EXCEPT ![f] = @ \ {e}]
            /\ ctx' = [ctx EXCEPT ![f][e] = NoWaiter]
            /\ waiter' = [waiter EXCEPT ![getContext(f, e)] = "queued"]
            /\ Go(t, call[t].op, IF call[t].op = "cancel" THEN "exit" ELSE "dec",
                  f, e, call[t].todo \ {e})
            /\ UNCHANGED <<mutex, pending, readers, kernel, batch, abort>>

\* cancelAll and idle() count down after each trigger.
Dec(t) ==
    /\ call[t].pc = "dec" /\ call[t].op \in {"cancelAll", "idle"}
    /\ pending' = pending - 1
    /\ Goto(t, IF call[t].todo = {} THEN "exit" ELSE "trig")
    /\ UNCHANGED <<table, mutex, readers, kernel, waiter, batch, abort>>

\* The FdContext's mutex is released.
Exit(t) ==
    LET f == call[t].fd IN
    /\ call[t].pc = "exit"
    /\ IF call[t].op = "cancelAll" /\ events[f] # {}
       THEN Fail("cancelAll: events left")
       ELSE /\ mutex' = [mutex EXCEPT ![f] = NoThread]
            /\ Goto(t, IF call[t].op = "idle" THEN "items" ELSE "unlock")
            /\ UNCHANGED <<table, pending, readers, kernel, waiter, batch, abort>>

-----------------------------------------------------------------------------
(* idle(): the results of one epoll_wait                                     *)

EpollWait(t) ==
    /\ t \in Pollers /\ call[t].pc = "free"
    /\ \E S \in SUBSET {f \in Table : ready[f]} :
         /\ S # {}
         /\ ready' = [f \in Table |-> ready[f] /\ f \notin S]
         /\ batch' = [batch EXCEPT ![t] =
                        {[fd |-> f, evs |-> Reported(f)] : f \in {g \in S : Reported(g) # {}}}]
    /\ Go(t, "idle", "items", call[t].fd, call[t].ev, {})
    /\ UNCHANGED <<table, mutex, pending, readers, interest, level, waiter, abort>>

\* real_events: an error or hang-up stands for whatever is registered now; what
\* epoll reported by name is taken as it was reported.
RealEventsAsReported(evs, registered) == evs

RealEvents(evs, registered) ==
    (evs \cap Events) \cup (IF "HUP" \in evs THEN registered ELSE {})

Item(t, b) ==
    LET f == b.fd
        real == RealEvents(b.evs, events[f])
    IN
    /\ call[t].pc = "items"
    /\ mutex[f] = NoThread
    /\ batch' = [batch EXCEPT ![t] = @ \ {b}]
    /\ IF events[f] \cap real = {} THEN UNCHANGED <<mutex, kernel, call>>
       ELSE \E ok \in CtlResults :
              /\ EpollCtl(f, Left(f, real), ok)
              /\ IF Refused(ok) THEN UNCHANGED <<mutex, call>>
                 ELSE /\ Go(t, "idle", "trig", f, call[t].ev, real)
                      /\ mutex' = [mutex EXCEPT ![f] = t]
    /\ UNCHANGED <<table, pending, readers, waiter, abort>>

\* All results are handled; the idle fiber swaps out.
EndItems(t) ==
    /\ call[t].pc = "items" /\ batch[t] = {}
    /\ Return(t)
    /\ UNCHANGED <<table, mutex, pending, readers, kernel, waiter, batch, abort>>

\* run() resumes the scheduled fiber or calls the scheduled callback.
RunWaiter(w) ==
    /\ waiter[w] = "queued"
    /\ waiter' = [waiter EXCEPT ![w] = "running"]
    /\ UNCHANGED <<table, mutex, pending, readers, kernel, call, batch, abort>>

-----------------------------------------------------------------------------
Step(t) ==
    \/ RdLock(t) \/ Lookup(t) \/ Grow(t) \/ Unlock(t)
    \/ AddCtl(t) \/ AddSet(t)
    \/ WithdrawCtl(t) \/ DelSet(t) \/ CancelDec(t) \/ AllCtl(t)
    \/ Trigger(t) \/ Dec(t) \/ Exit(t)
    \/ EpollWait(t) \/ EndItems(t)
    \/ \E b \in batch[t] : Item(t, b)

Halted == abort # "no" /\ UNCHANGED vars

Next ==
    \/ /\ abort = "no"
       /\ \/ \E t \in Threads : Step(t)
          \/ \E t \in Threads, f \in Fds, e \in Events :
               \/ \E w \in Waiters : CallAdd(t, f, e, w)
               \/ \E op \in Ops : CallWithdraw(t, op, f, e)
          \/ \E f \in Table, c \in Conditions : Edge(f, c) \/ Drain(f, c)
          \/ \E w \in Waiters : RunWaiter(w)
    \/ Halted

Spec == Init /\ [][Next]_vars

\* Threads get on with their calls; a poller comes back to epoll_wait; a mutex
\* that is free again and again is obtained.
Fairness == \A t \in Threads :
    /\ WF_vars(abort = "no" /\ (\/ RdLock(t) \/ Lookup(t) \/ Grow(t) \/ Unlock(t) \/ AddSet(t)
                               \/ DelSet(t) \/ CancelDec(t) \/ Trigger(t) \/ Dec(t)
                               \/ Exit(t) \/ EndItems(t)))
    /\ WF_vars(abort = "no" /\ EpollWait(t))
    /\ SF_vars(abort = "no" /\ (AddCtl(t) \/ WithdrawCtl(t) \/ AllCtl(t)
                               \/ \E b \in batch[t] : Item(t, b)))

FairSpec == Spec /\ Fairness

-----------------------------------------------------------------------------
TypeOK ==
    /\ events \in [Table -> SUBSET Events]
    /\ ctx \in [Table -> [Events -> Waiters \cup {NoWaiter}]]
    /\ mutex \in [Table -> Threads \cup {NoThread}]
    /\ pending \in Int
    /\ readers \in Int
    /\ interest \in [Table -> SUBSET Events]
    /\ level \in [Table -> SUBSET Conditions]
    /\ ready \in [Table -> BOOLEAN]
    /\ waiter \in [Waiters -> WaiterStates]
    /\ call \in [Threads -> CallRec]
    /\ batch \in [Threads -> SUBSET Result]
    /\ abort \in Aborts

\* The call c has triggered e and not yet decremented (cancelAll, idle).
OwesDec(c, f, e) == c.pc = "dec" /\ c.op # "cancel" /\ c.fd = f /\ c.ev = e

\* The call c has decremented and not yet triggered e (cancelEvent).
OwesTrigger(c, f, e) == c.pc = "trig" /\ c.op = "cancel" /\ c.fd = f /\ c.ev = e

Undecremented(f, e) == \E t \in Threads : OwesDec(call[t], f, e)

Untriggered(f, e) == \E t \in Threads : OwesTrigger(call[t], f, e)

Counts(f, e) == (e \in events[f] \/ Undecremented(f, e)) /\ ~Untriggered(f, e)

Counted == {p \in Table \X Events : Counts(p[1], p[2])}

\* m_pendingEventCount, which decides when the poller may stop, is exact: the
\* registered pairs, those between triggerEvent and the decrement included, those
\* between cancelEvent's decrement and triggerEvent excluded.
PendingExact == pending = Cardinality(Counted)

\* Nobody is forgotten: a waiter that was registered and neither scheduled nor
\* dropped is in exactly one context, whose event is set, so that the event or a
\* cancel will find it; and a context holds only such waiters.
WaiterHeld ==
    /\ \A w \in Waiters : waiter[w] = "waiting" =>
         \E f \in Table : \E e \in events[f] : ctx[f][e] = w
    /\ \A f, g \in Table, d, e \in Events :
         ctx[f][d] # NoWaiter =>
           /\ d \in events[f]
           /\ waiter[ctx[f][d]] = "waiting"
           /\ ctx[g][e] = ctx[f][d] => g = f /\ e = d

\* While no thread is inside an FdContext, epoll's interest is exactly the set of
\* registered events, failed epoll_ctl calls included: no registered event is
\* invisible to epoll_wait and none is reported that nobody waits for.
InterestInSync ==
    \A f \in Table : mutex[f] = NoThread => interest[f] = events[f]

\* The Asserts that the locking protects never fail: a context is empty when
\* addEvent fills it (eventpoller.cpp:157), cancelAll leaves no event (:276).
ProtectedAsserts ==
    abort \notin {"addEvent: context in use", "cancelAll: events left"}

\* An event that is registered on an fd and whose condition holds is delivered:
\* unless it is withdrawn or its condition ends, it is triggered, although epoll
\* reports each edge only once and every epoll_ctl changes what it reports.
ReadyIsDelivered ==
    \A f \in Table, e \in Events :
      e \in events[f] /\ e \in level[f]
        ~> e \notin events[f] \/ e \notin level[f] \/ abort # "no"
=============================================================================
