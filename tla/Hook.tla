-------------------------------- MODULE Hook --------------------------------
(***************************************************************************)
(* The hooked system calls and FdManager: how a fiber's read, write,       *)
(* accept, connect or sleep becomes a registration with the EventPoller    *)
(* and a timer, how close, fcntl, ioctl and setsockopt act on the FdCtx of *)
(* an fd, and what happens when the kernel gives the number of a closed fd *)
(* to the next socket.                                                     *)
(*                                                                         *)
(* Fibers run on different threads.  A step is what a call does between    *)
(* two points where another thread can interfere.  EventPoller and Timer   *)
(* have modules of their own; here a cancelEvent and a cancelAll are one   *)
(* step each, which leaves the reader count of m_mtx one lower than it     *)
(* was, and a registration is two: past m_mtx, and the rest.  Every file   *)
(* is a socket, and every fd in EventPoller's table.  The application      *)
(* closes an fd once, and only after the call that made it has returned.   *)
(***************************************************************************)
EXTENDS Integers, FiniteSets, FiniteSetsExt

CONSTANTS
    Fibers,
    Unhooked,       \* those on a thread without t_hook_enable (the main thread)
    Fds,            \* fd numbers, in Nat
    MaxFiles,       \* sockets the kernel opens in a run
    MaxLate,        \* expired timers of one call whose callback has not run
    MaxCtl,         \* fcntl, ioctl and setsockopt calls in a run
    IoCalls,        \* which of "read", "write", "accept", "connect", "sleep" each fiber makes
    ConnectTimed    \* the time-outs that callers of connect use: is it finite?

ASSUME HookAssumption ==
    /\ Unhooked \subseteq Fibers
    /\ IsFiniteSet(Fds) /\ Fds \subseteq Nat /\ Fds # {}
    /\ {MaxFiles, MaxLate, MaxCtl} \subseteq Nat
    /\ IoCalls \in [Fibers -> SUBSET {"read", "write", "accept", "connect", "sleep"}]
    /\ ConnectTimed \subseteq BOOLEAN

VARIABLES
    open,           \* the kernel's fd table: the file behind a number, or 0
    file,           \* the kernel's files: O_NONBLOCK, which conditions hold
    made,           \* files opened so far
    datas,          \* FdManager::m_datas: an FdCtx, named by the file it was made for, or 0
    ctx,            \* FdCtx: m_userNonblock, and whether each time-out is finite
    waiter,         \* the EventPoller: which fiber waits for an event of an fd, on which file
    readers,        \* EventPoller::m_mtx: its count of readers
    spinning,       \* a timer's callback spins for m_mtx
    fb,             \* what each fiber is doing
    ctls,           \* fcntl, ioctl and setsockopt calls so far
    bypassed,       \* fds closed without cancelAll and del although they had an FdCtx or a waiter
    ioctled         \* files whose O_NONBLOCK ioctl() has cleared

vars == <<open, file, made, datas, ctx, waiter, readers, spinning, fb, ctls, bypassed, ioctled>>
kernel == <<open, file, made>>
mtx == <<readers, spinning>>
ghosts == <<ctls, bypassed, ioctled>>

Files == 1 .. MaxFiles
Nobody == [who |-> {}, file |-> 0]

\* Which event and which time-out (SO_RCVTIMEO or SO_SNDTIMEO) a call waits with.
EventOf(op) == IF op \in {"read", "accept"} THEN "READ" ELSE "WRITE"

Calls == (UNION {IoCalls[f] : f \in Fibers}) \ {"sleep"}
Events == {EventOf(op) : op \in Calls}

\* The locals of a fiber: timer_info::cancelled, the timer of the present attempt
\* (armed), expired timers whose callback has not run (late); gap and early say that
\* it registered behind a close's cancelAll, that a time-out came before it registered.
Idle == [pc |-> "idle", op |-> "none", fd |-> Min(Fds), ctx |-> 0, timed |-> FALSE,
         armed |-> FALSE, late |-> 0, cancelled |-> FALSE, gap |-> FALSE, early |-> FALSE]

\* A new FdCtx: m_userNonblock off, both time-outs infinite.
FreshCtx == [user |-> FALSE, timeout |-> [e \in Events |-> FALSE]]

\* getTimeout(SO_RCVTIMEO or SO_SNDTIMEO): is it finite?
TimeoutOf(x, op) == ctx[x].timeout[EventOf(op)]

Init ==
    /\ open = [d \in Fds |-> 0]
    /\ file = [x \in Files |-> [nonblock |-> FALSE, ready |-> {}]]
    /\ made = 0
    /\ datas = [d \in Fds |-> 0]
    /\ ctx = [x \in Files |-> FreshCtx]
    /\ waiter = [d \in Fds |-> [e \in Events |-> Nobody]]
    /\ readers = 0 /\ spinning = FALSE
    /\ fb = [f \in Fibers |-> Idle]
    /\ ctls = 0 /\ bypassed = {} /\ ioctled = {}

Goto(f, pc) == fb' = [fb EXCEPT ![f].pc = pc]
Return(f) == fb' = [fb EXCEPT ![f] = Idle]

\* A registration that the kernel still knows: the file has not been closed.
Live(d, e) == waiter[d][e] # Nobody /\ waiter[d][e].file = open[d]

\* fb after the fibers in set have been scheduled.
Scheduled(set) == [f \in Fibers |-> IF f \in set THEN [fb[f] EXCEPT !.pc = "queued"] ELSE fb[f]]

-----------------------------------------------------------------------------
(* socket() and FdManager::get(fd, true); accept() makes its fd the same way *)

\* The kernel opens a socket under the lowest free number, in blocking mode.  On an
\* unhooked thread socket() leaves it at that, and accept() goes on to get(fd, true).
Socket(f) ==
    LET free == {d \in Fds : open[d] = 0} IN
    /\ fb[f].pc = "idle" /\ free # {} /\ made < MaxFiles
    /\ made' = made + 1
    /\ open' = [open EXCEPT ![Min(free)] = made + 1]
    /\ \/ f \in Unhooked /\ UNCHANGED fb
       \/ fb' = [fb EXCEPT ![f].pc = "create", ![f].fd = Min(free)]
    /\ UNCHANGED <<file, datas, ctx, waiter, mtx, ghosts>>

\* get(fd, true): an FdCtx that is there already is taken as it is; a new one sets
\* O_NONBLOCK in the kernel.
Create(f) ==
    LET d == fb[f].fd  x == open[d] IN
    /\ fb[f].pc = "create"
    /\ IF datas[d] # 0 THEN UNCHANGED <<datas, ctx, file>>
       ELSE /\ datas' = [datas EXCEPT ![d] = x]
            /\ ctx' = [ctx EXCEPT ![x] = FreshCtx]
            /\ file' = [file EXCEPT ![x].nonblock = TRUE]
    /\ Return(f)
    /\ UNCHANGED <<open, made, waiter, mtx, ghosts>>

-----------------------------------------------------------------------------
(* do_io and connect_with_timeout                                            *)

\* An fd that a call has returned to the application.
Known(d) == open[d] # 0 /\ \A f \in Fibers : ~(fb[f].pc = "create" /\ fb[f].fd = d)

\* Without an FdCtx, or with the user's own O_NONBLOCK, the original function is called
\* once; connect() wants an FdCtx.  (A call on an unhooked thread is one of the kernel's
\* alone; only its socket() and close() matter here.)
Direct(x) == x = 0 \/ ctx[x].user

\* The time-out is the FdCtx's; that of connect() is infinite, connect_with_timeout's its
\* caller's.
IoCall(f, op, d) ==
    LET x == datas[d] IN
    /\ fb[f].pc = "idle" /\ Known(d)
    /\ ~(x = 0 /\ op = "connect")
    /\ \E timed \in IF Direct(x) THEN {FALSE}
                   ELSE IF op = "connect" THEN ConnectTimed ELSE {TimeoutOf(x, op)} :
          fb' = [fb EXCEPT ![f] =
            [Idle EXCEPT !.pc = IF Direct(x) THEN "direct" ELSE "try", !.op = op, !.fd = d,
                         !.ctx = x, !.timed = timed]]
    /\ UNCHANGED <<kernel, datas, ctx, waiter, mtx, ghosts>>

\* The original function fails or succeeds at once.
Done(f) ==
    LET x == open[fb[f].fd]  e == EventOf(fb[f].op) IN
    /\ x # 0 => e \in file[x].ready
    /\ file' = IF x = 0 THEN file ELSE [file EXCEPT ![x].ready = @ \ {e}]
    /\ Return(f)
    /\ UNCHANGED <<open, made, datas, ctx, waiter, mtx, ghosts>>

\* It would block: a blocking file holds up the thread, else EAGAIN (EINPROGRESS).
WouldBlock(f) ==
    LET x == open[fb[f].fd] IN
    /\ x # 0 /\ EventOf(fb[f].op) \notin file[x].ready
    /\ IF ~file[x].nonblock THEN Goto(f, "blocked")
       ELSE IF fb[f].pc = "direct" THEN Return(f) ELSE Goto(f, "arm")
    /\ UNCHANGED <<kernel, datas, ctx, waiter, mtx, ghosts>>

Try(f) == fb[f].pc \in {"direct", "try"} /\ (Done(f) \/ WouldBlock(f))

\* The kernel lets a blocked thread go on.
Unblock(f) == fb[f].pc = "blocked" /\ Done(f)

\* addConditionTimer, if the time-out is finite.
ArmTimer(f) ==
    /\ fb[f].pc = "arm"
    /\ fb' = [fb EXCEPT ![f].pc = "lock", ![f].armed = fb[f].timed]
    /\ UNCHANGED <<kernel, datas, ctx, waiter, mtx, ghosts>>

\* A close of d that has passed its cancelAll.
Closing(d) == \E f \in Fibers : fb[f].pc \in {"del", "close"} /\ fb[f].fd = d

\* Each cancelEvent and cancelAll unlocks m_mtx twice.  Below -1 a shared lock spins for
\* ever (see EventPoller, RdLock).
Jammed == readers < -1

\* The FdContext has an event of a file that is gone: EPOLL_CTL_MOD will not find it.
Stale(d) == \E e \in Events : waiter[d][e] # Nobody /\ ~Live(d, e)

\* addEvent, up to its unlock of m_mtx
Lock(f) ==
    /\ fb[f].pc = "lock" /\ ~Jammed
    /\ Goto(f, "add")
    /\ UNCHANGED <<kernel, datas, ctx, waiter, mtx, ghosts>>

\* The rest of addEvent, then yieldToHold.  It fails on a closed fd and where the FdContext is stale;
\* an event that somebody already waits for fails its Assert and ends the process, which
\* EventPoller's module is about.
AddEvent(f) ==
    LET d == fb[f].fd  e == EventOf(fb[f].op) IN
    /\ fb[f].pc = "add"
    /\ open[d] # 0 => waiter[d][e] = Nobody
    /\ IF open[d] = 0 \/ Stale(d) THEN Return(f) /\ UNCHANGED waiter
       ELSE /\ waiter' = [waiter EXCEPT ![d][e] = [who |-> {f}, file |-> open[d]]]
            /\ fb' = [fb EXCEPT ![f].pc = "wait", ![f].gap = Closing(d)]
    /\ UNCHANGED <<kernel, datas, ctx, mtx, ghosts>>

\* The fiber goes on: timer->cancel(), then ETIMEDOUT, another attempt, or SO_ERROR.
Resume(f) ==
    /\ fb[f].pc = "queued"
    /\ IF fb[f].cancelled \/ fb[f].op \in {"connect", "sleep"} THEN Return(f)
       ELSE fb' = [fb EXCEPT ![f].pc = "try", ![f].armed = FALSE, ![f].gap = FALSE]
    /\ UNCHANGED <<kernel, datas, ctx, waiter, mtx, ghosts>>

\* sleep, usleep, nanosleep: a timer that schedules the fiber, then yieldToHold.
Sleep(f) ==
    /\ fb[f].pc = "idle" /\ "sleep" \in IoCalls[f]
    /\ fb' = [fb EXCEPT ![f].pc = "wait", ![f].op = "sleep", ![f].armed = TRUE]
    /\ UNCHANGED <<kernel, datas, ctx, waiter, mtx, ghosts>>

-----------------------------------------------------------------------------
(* What wakes a waiting fiber                                                *)

\* idle() collects an expired timer; its callback is scheduled and runs later.
Expire(f) ==
    /\ fb[f].armed /\ fb[f].late < MaxLate
    /\ fb' = [fb EXCEPT ![f].armed = FALSE, ![f].late = @ + 1]
    /\ UNCHANGED <<kernel, datas, ctx, waiter, mtx, ghosts>>

\* cancelEvent's lock of m_mtx and its two unlocks, or its spinning.
LockAndUnlockTwice ==
    /\ readers' = IF Jammed THEN readers ELSE readers - 1
    /\ spinning' = (spinning \/ Jammed)

\* Mutant: delEvent, which withdraws the registration and schedules nobody.
DelEvent(d, e, now) ==
    /\ LockAndUnlockTwice
    /\ waiter' = IF Live(d, e) /\ ~Jammed THEN [waiter EXCEPT ![d][e] = Nobody] ELSE waiter
    /\ fb' = now

\* cancelEvent: nothing happens if nobody waits, or the kernel forgot the registration.
\* The fiber it schedules need not be the one whose timer it is.
CancelEvent(d, e, now) ==
    /\ LockAndUnlockTwice
    /\ IF Live(d, e) /\ ~Jammed
       THEN /\ waiter' = [waiter EXCEPT ![d][e] = Nobody]
            /\ fb' = [g \in Fibers |-> IF g \in waiter[d][e].who THEN [now[g] EXCEPT !.pc = "queued"]
                                       ELSE now[g]]
       ELSE waiter' = waiter /\ fb' = now

\* The callback: TimerCondCheck finds timer_info alive as long as the call lasts.  It is
\* shared by all attempts of a call.
Timeout(f) ==
    LET r == [fb[f] EXCEPT !.late = @ - 1] IN
    /\ fb[f].late > 0
    /\ IF fb[f].op = "sleep"
       THEN fb' = [fb EXCEPT ![f] = [r EXCEPT !.pc = "queued"]] /\ UNCHANGED <<waiter, mtx>>
       ELSE IF fb[f].cancelled THEN fb' = [fb EXCEPT ![f] = r] /\ UNCHANGED <<waiter, mtx>>
       ELSE CancelEvent(fb[f].fd, EventOf(fb[f].op),
                        [fb EXCEPT ![f] = [r EXCEPT !.cancelled = TRUE,
                                                    !.early = r.pc \in {"try", "arm", "lock", "add"}]])
    /\ UNCHANGED <<kernel, datas, ctx, ghosts>>

\* idle() triggers an event whose condition holds.
Trigger(d, e) ==
    /\ Live(d, e) /\ e \in file[open[d]].ready
    /\ waiter' = [waiter EXCEPT ![d][e] = Nobody]
    /\ fb' = Scheduled(waiter[d][e].who)
    /\ UNCHANGED <<kernel, datas, ctx, mtx, ghosts>>

\* Input arrives, or the send buffer drains.
Ready(d, e) ==
    /\ open[d] # 0 /\ e \notin file[open[d]].ready
    /\ file' = [file EXCEPT ![open[d]].ready = @ \cup {e}]
    /\ UNCHANGED <<open, made, datas, ctx, waiter, mtx, fb, ghosts>>

-----------------------------------------------------------------------------
(* close, fcntl, ioctl, setsockopt                                           *)

\* get(fd); without an FdCtx, or without the hook, straight to close_f.
Close(f, d) ==
    /\ fb[f].pc = "idle" /\ Known(d)
    /\ \A g \in Fibers : fb[g].pc \in {"raw", "cancelAll", "del", "close"} => fb[g].fd # d
    /\ fb' = [fb EXCEPT ![f].pc = IF f \in Unhooked \/ datas[d] = 0 THEN "raw" ELSE "cancelAll",
                        ![f].fd = d]
    /\ UNCHANGED <<kernel, datas, ctx, waiter, mtx, ghosts>>

\* Mutant: only the first kind of event found is cancelled.
CancelAllButOne(f) ==
    LET d == fb[f].fd  live == {e \in Events : Live(d, e)} IN
    /\ fb[f].pc = "cancelAll" /\ ~Jammed
    /\ readers' = readers - 1
    /\ \E one \in {{"READ"} \cap live} :
          /\ waiter' = [waiter EXCEPT ![d] = [e \in Events |-> IF e \in one THEN Nobody ELSE waiter[d][e]]]
          /\ fb' = [Scheduled(UNION {waiter[d][e].who : e \in one}) EXCEPT ![f] = [fb[f] EXCEPT !.pc = "del"]]
    /\ UNCHANGED <<kernel, datas, ctx, spinning, ghosts>>

CancelAll(f) ==
    LET d == fb[f].fd  live == {e \in Events : Live(d, e)} IN
    /\ fb[f].pc = "cancelAll" /\ ~Jammed
    /\ readers' = readers - 1
    /\ waiter' = [waiter EXCEPT ![d] = [e \in Events |-> IF e \in live THEN Nobody ELSE waiter[d][e]]]
    /\ fb' = [Scheduled(UNION {waiter[d][e].who : e \in live}) EXCEPT ![f] = [fb[f] EXCEPT !.pc = "del"]]
    /\ UNCHANGED <<kernel, datas, ctx, spinning, ghosts>>

\* FdManager::del
Del(f) ==
    /\ fb[f].pc = "del"
    /\ datas' = [datas EXCEPT ![fb[f].fd] = 0]
    /\ Goto(f, "close")
    /\ UNCHANGED <<kernel, ctx, waiter, mtx, ghosts>>

CloseF(f) ==
    LET d == fb[f].fd IN
    /\ fb[f].pc \in {"close", "raw"}
    /\ open' = [open EXCEPT ![d] = 0]
    /\ file' = [file EXCEPT ![open[d]].ready = {}]
    /\ bypassed' = IF fb[f].pc = "raw" /\ (datas[d] # 0 \/ \E e \in Events : Live(d, e))
                   THEN bypassed \cup {d} ELSE bypassed
    /\ Return(f)
    /\ UNCHANGED <<made, datas, ctx, waiter, mtx, ctls, ioctled>>

Ctl(f, d) ==
    /\ fb[f].pc = "idle" /\ Known(d)
    /\ ctls < MaxCtl /\ ctls' = ctls + 1

\* fcntl(F_SETFL), hooked on every thread: the user's flag goes to the FdCtx, the
\* kernel keeps m_sysNonblock (true of every socket).
SetFl(f, d, nonblock) ==
    LET x == datas[d] IN
    /\ Ctl(f, d)
    /\ ctx' = IF x = 0 THEN ctx ELSE [ctx EXCEPT ![x].user = nonblock]
    /\ file' = [file EXCEPT ![open[d]].nonblock = x # 0 \/ nonblock]
    /\ UNCHANGED <<open, made, datas, waiter, mtx, fb, bypassed, ioctled>>

\* ioctl(FIONBIO) also tells the FdCtx, and passes the flag on to the kernel.
Ioctl(f, d, nonblock) ==
    LET x == datas[d] IN
    /\ Ctl(f, d)
    /\ ctx' = IF x = 0 THEN ctx ELSE [ctx EXCEPT ![x].user = nonblock]
    /\ file' = [file EXCEPT ![open[d]].nonblock = nonblock]
    /\ ioctled' = IF nonblock THEN ioctled ELSE ioctled \cup {open[d]}
    /\ UNCHANGED <<open, made, datas, waiter, mtx, fb, bypassed>>

\* setsockopt(SO_RCVTIMEO or SO_SNDTIMEO), and Socket::setRecvTimeout, setSendTimeout.
SetTimeout(f, d, e) ==
    /\ Ctl(f, d) /\ f \notin Unhooked /\ datas[d] # 0
    /\ ctx' = [ctx EXCEPT ![datas[d]].timeout[e] = TRUE]
    /\ UNCHANGED <<kernel, datas, waiter, mtx, fb, bypassed, ioctled>>

-----------------------------------------------------------------------------
\* What a fiber does once it is inside a call.
Step(f) ==
    \/ Create(f) \/ Try(f) \/ ArmTimer(f) \/ Lock(f) \/ AddEvent(f) \/ Resume(f)
    \/ CancelAll(f) \/ Del(f) \/ CloseF(f)

Enter(f) ==
    \/ Socket(f) \/ Sleep(f)
    \/ \E d \in Fds :
          \/ Close(f, d)
          \/ \E op \in IoCalls[f] \ {"sleep"} : IoCall(f, op, d)
          \/ \E b \in BOOLEAN : SetFl(f, d, b) \/ Ioctl(f, d, b)
          \/ \E op \in Calls \ {"connect"} : SetTimeout(f, d, EventOf(op))

World ==
    \/ \E d \in Fds, e \in Events : Trigger(d, e) \/ Ready(d, e)
    \/ \E f \in Fibers : Unblock(f)

Next == World \/ \E f \in Fibers : Step(f) \/ Enter(f) \/ Expire(f) \/ Timeout(f)

Spec == Init /\ [][Next]_vars

\* Threads run the fibers that can run, time passes and expired callbacks are run.
FairSpec ==
    /\ Spec
    /\ \A f \in Fibers : WF_vars(Step(f)) /\ WF_vars(Expire(f)) /\ WF_vars(Timeout(f))

-----------------------------------------------------------------------------
(* Properties                                                                *)

TypeOK ==
    /\ open \in [Fds -> 0 .. MaxFiles] /\ datas \in [Fds -> 0 .. MaxFiles]
    /\ file \in [Files -> [nonblock : BOOLEAN, ready : SUBSET Events]]
    /\ made \in 0 .. MaxFiles /\ ctls \in 0 .. MaxCtl
    /\ readers \in -2 .. 0 /\ spinning \in BOOLEAN
    /\ ctx \in [Files -> [user : BOOLEAN, timeout : [Events -> BOOLEAN]]]
    /\ waiter \in [Fds -> [Events -> [who : SUBSET Fibers, file : 0 .. MaxFiles]]]
    /\ \A f \in Fibers : /\ fb[f].fd \in Fds /\ fb[f].ctx \in 0 .. MaxFiles
                         /\ fb[f].late \in 0 .. MaxLate

\* The FdCtx under a number belongs to the file under that number, through any reuse of
\* numbers and any reader that still uses the old fd: close() drops the FdCtx before the
\* kernel can give the number away.  Only a close on an unhooked thread breaks it.
CtxMatchesFile ==
    \A d \in Fds \ bypassed : datas[d] # 0 => datas[d] = open[d]

\* A fiber whose call found an FdCtx does not block its thread in the kernel, unless
\* the fd is being closed or has been given to another file, or ioctl() took
\* O_NONBLOCK away.
BlocksOnlyWhenStale ==
    \A f \in Fibers : fb[f].pc = "blocked" /\ fb[f].ctx # 0 =>
        LET x == open[fb[f].fd] IN
        fb[f].ctx # x \/ datas[fb[f].fd] # x \/ x \in ioctled \/ fb[f].fd \in bypassed

\* No event can wake a fiber whose file is closed: close() wakes all of them first,
\* but for the one that registers between its cancelAll and close_f.
OrphanNeedsGap ==
    \A f \in Fibers : fb[f].pc = "wait" /\ fb[f].op # "sleep" =>
        LET w == waiter[fb[f].fd][EventOf(fb[f].op)] IN
        w.who = {f} /\ (w.file = open[fb[f].fd] \/ fb[f].gap \/ fb[f].fd \in bypassed)

\* A call with a time-out that waits has its time-out before it, unless that time-out
\* came before it had registered, or after its file was closed: do_io starts the timer
\* before addEvent, and cancelEvent then finds nothing to cancel; or unless the callback
\* spins in cancelEvent, for which two cancelEvents or cancelAlls must have gone before.
TimeoutAhead ==
    \A f \in Fibers : fb[f].pc = "wait" /\ fb[f].timed =>
        \/ fb[f].armed \/ fb[f].late > 0
        \/ fb[f].early
        \/ fb[f].gap \/ fb[f].fd \in bypassed
        \/ spinning /\ fb[f].cancelled

\* A thread spins for m_mtx, and so runs no other fiber or callback.
Spins == spinning \/ (Jammed /\ \E f \in Fibers : fb[f].pc \in {"lock", "cancelAll"})

\* A call with a time-out does not wait for ever, and a sleep ends, unless the time-out
\* came too early, the call registered in close()'s gap, its fd was closed on an unhooked
\* thread, or a thread spins for m_mtx, which takes two cancelEvents or cancelAlls (two
\* time-outs, or two hooked closes) and a third user.
TimedCallReturns ==
    \A f \in Fibers :
        (fb[f].pc = "wait" /\ (fb[f].timed \/ fb[f].op = "sleep")) ~>
            \/ fb[f].pc # "wait"
            \/ fb[f].early \/ fb[f].gap \/ fb[f].fd \in bypassed
            \/ Spins

\* What always holds of fds, files and the fibers that wait: nothing is stale after close()
\* and the reuse of a number, and time-outs are ahead, each with the exceptions above.
HookInv ==
    TypeOK /\ CtxMatchesFile /\ BlocksOnlyWhenStale /\ OrphanNeedsGap /\ TimeoutAhead
=============================================================================
