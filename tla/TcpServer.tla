----------------------------- MODULE TcpServer -----------------------------
(***************************************************************************)
(* TcpServer: bind, start and stop called by the application at any time,  *)
(* the accept loop that start() schedules for every socket, and the task   *)
(* that stop() schedules to close them.                                    *)
(*                                                                         *)
(* Tasks run on the threads of one EventPoller (listener and worker).  A   *)
(* task keeps its thread until it waits or ends.  Its steps are those of   *)
(* the hooked accept and close (module Hook) that another thread can come  *)
(* between; a file is known by its Socket, so that fd numbers are not      *)
(* reused here.  The application calls from a task too, as EchoServer      *)
(* does, so all sockets have an FdCtx, and closing one, also in ~Socket,   *)
(* calls cancelAll, which unlocks the EventPoller's m_mtx twice.           *)
(***************************************************************************)
EXTENDS Integers, Sequences, FiniteSets

CONSTANTS
    Threads,        \* threads of the EventPoller
    MaxSocks,       \* listening sockets made in a run
    MaxTasks,       \* accept loops and stop tasks scheduled in a run
    MaxCalls,       \* calls of bind, start and stop
    MaxClients      \* connections that arrive

ASSUME TcpServerAssumption ==
    {Threads, MaxSocks, MaxTasks, MaxCalls, MaxClients} \subseteq Nat

VARIABLES
    running,        \* m_running
    socks,          \* m_socks
    sock,           \* the Sockets: made or not, m_sock open, who waits, how many connections wait
    tasks,          \* the accept loops and stop tasks, in the order they were scheduled
    handlers,       \* handleClient tasks not yet run
    used,           \* calls and clients so far
    full,           \* the process has no fd left: accept() and socket() give EMFILE
    readers,        \* EventPoller::m_mtx: its count of readers
    stuck,          \* threads that spin for m_mtx in a handler's ~Socket
    aborted,        \* an Assert of addEvent has failed
    racy,           \* two threads were in m_socks at once, or one is in it for ever
    ghost           \* restarted: start() found loops of an earlier start(); failed: a bind failed

vars == <<running, socks, sock, tasks, handlers, used, full, readers, stuck, aborted, racy, ghost>>
bounds == <<used, full, ghost>>
mtx == <<readers, stuck>>

SockIds == 1 .. MaxSocks
Nobody == 0

Init ==
    /\ running = FALSE /\ socks = <<>>
    /\ sock = [s \in SockIds |-> [made |-> FALSE, open |-> FALSE, waiter |-> Nobody, conns |-> 0]]
    /\ tasks = <<>> /\ handlers = 0
    /\ used = [calls |-> 0, clients |-> 0] /\ full = FALSE
    /\ readers = 0 /\ stuck = 0
    /\ aborted = FALSE /\ racy = FALSE
    /\ ghost = [restarted |-> FALSE, failed |-> FALSE]

Active(t) == tasks[t].pc \notin {"queued", "wait", "done"}
Busy == Cardinality({t \in DOMAIN tasks : Active(t)}) + stuck
Loops == {t \in DOMAIN tasks : tasks[t].kind = "loop" /\ tasks[t].pc # "done"}
Goto(t, pc) == [tasks EXCEPT ![t].pc = pc]

\* A stop task that is between its first look at m_socks and its clear().
Stopping == \E t \in DOMAIN tasks : tasks[t].kind = "stop" /\ Active(t)

\* The Sockets whose last reference is gone are destroyed, and so closed.
Dropped(files, list, now) ==
    [s \in SockIds |->
        IF \/ \E i \in DOMAIN list : list[i] = s
           \/ \E t \in DOMAIN now : now[t].kind = "loop" /\ now[t].pc # "done" /\ now[t].sock = s
        THEN files[s] ELSE [files[s] EXCEPT !.open = FALSE]]

\* Each cancelAll unlocks m_mtx twice.  Below -1 a shared lock spins for ever (see
\* EventPoller, RdLock).
Jammed == readers < -1

\* Loop t holds the last reference to a Socket that is still open.
LastRef(t) ==
    LET s == tasks[t].sock IN
    /\ sock[s].open /\ \A i \in DOMAIN socks : socks[i] # s
    /\ \A u \in Loops \ {t} : tasks[u].sock # s

\* The waiter of s is scheduled, to try accept again (cancelAll, or an event).
Woken(now, s) ==
    IF sock[s].waiter = Nobody THEN now
    ELSE [now EXCEPT ![sock[s].waiter].pc = "queued", ![sock[s].waiter].at = "accept"]

-----------------------------------------------------------------------------
(* The application                                                           *)

Call ==
    /\ ~aborted /\ ~racy /\ used.calls < MaxCalls
    /\ used' = [used EXCEPT !.calls = @ + 1]

\* bind(): n addresses can be bound and listened on; if one more cannot, all sockets go,
\* also those of earlier calls.  Each Socket destroyed costs m_mtx an unlock; a bind() that
\* finds it jammed does not come back from m_socks.
Bind(n, fail) ==
    LET made == Cardinality({s \in SockIds : sock[s].made})
        new == made + 1 .. made + n
        files == [s \in SockIds |-> IF s \in new THEN [sock[s] EXCEPT !.made = TRUE, !.open = TRUE] ELSE sock[s]]
        list == IF fail THEN <<>> ELSE socks \o [i \in 1 .. n |-> made + i]
        closed == Cardinality({s \in SockIds : files[s].open /\ ~Dropped(files, list, tasks)[s].open})
                    + (IF fail /\ ~full THEN 1 ELSE 0)
    IN
    /\ Call /\ made + n <= MaxSocks /\ (full => n = 0)
    /\ readers' = IF closed <= readers + 2 THEN readers - closed ELSE -2
    /\ racy' = (Stopping \/ closed > readers + 2)
    /\ socks' = list
    /\ sock' = Dropped(files, list, tasks)
    /\ ghost' = [ghost EXCEPT !.failed = @ \/ fail]
    /\ UNCHANGED <<running, tasks, handlers, full, stuck, aborted>>

\* start(): a loop per socket, unless m_running is set already.  (It runs off its end
\* without the return that a bool function needs; as compiled it returns any value, which
\* no caller uses.)
Start ==
    /\ Call /\ racy' = Stopping /\ Len(tasks) + Len(socks) <= MaxTasks
    /\ running' = TRUE
    /\ tasks' = IF running THEN tasks
                ELSE tasks \o [i \in DOMAIN socks |->
                        [kind |-> "loop", pc |-> "queued", at |-> "check", sock |-> socks[i], gap |-> FALSE]]
    /\ ghost' = [ghost EXCEPT !.restarted = @ \/ (~running /\ (Loops # {} \/ Stopping \/
                    \E t \in DOMAIN tasks : tasks[t].kind = "stop" /\ tasks[t].pc # "done"))]
    /\ UNCHANGED <<socks, sock, handlers, full, mtx, aborted>>

\* stop(): the sockets are closed by a task.
Stop ==
    /\ Call /\ racy' = Stopping /\ Len(tasks) < MaxTasks
    /\ running' = FALSE
    /\ tasks' = Append(tasks, [kind |-> "stop", pc |-> "queued", at |-> "cancel", sock |-> 1, gap |-> FALSE])
    /\ UNCHANGED <<socks, sock, handlers, full, mtx, aborted, ghost>>

-----------------------------------------------------------------------------
(* startListen                                                               *)

Here(t, pc) == ~aborted /\ ~racy /\ t \in DOMAIN tasks /\ tasks[t].pc = pc

\* A thread takes a task; two stop tasks at once race for m_socks.
Dispatch(t) ==
    /\ Here(t, "queued") /\ Busy < Threads
    /\ racy' = (tasks[t].kind = "stop" /\ Stopping)
    /\ tasks' = Goto(t, tasks[t].at)
    /\ UNCHANGED <<running, socks, sock, handlers, mtx, aborted, bounds>>

\* Mutant: the loop does not look at m_running.
CheckNothing(t) ==
    /\ Here(t, "check")
    /\ tasks' = Goto(t, "accept")
    /\ UNCHANGED <<running, socks, sock, handlers, mtx, aborted, racy, bounds>>

\* while(m_running); a loop that ends may destroy its Socket.
Check(t) ==
    LET destroys == ~running /\ LastRef(t) IN
    /\ Here(t, "check") /\ ~(destroys /\ Jammed)
    /\ tasks' = Goto(t, IF running THEN "accept" ELSE "done")
    /\ sock' = Dropped(sock, socks, tasks')
    /\ readers' = IF destroys THEN readers - 1 ELSE readers
    /\ UNCHANGED <<running, socks, handlers, stuck, aborted, racy, bounds>>

\* Mutant: a loop that finds no connection tries again at once.
AcceptSpins(t) ==
    LET s == tasks[t].sock IN
    /\ Here(t, "accept")
    /\ tasks' = Goto(t, "check")
    /\ IF sock[s].open /\ ~full /\ sock[s].conns > 0
       THEN sock' = [sock EXCEPT ![s].conns = @ - 1] /\ handlers' = handlers + 1
       ELSE UNCHANGED <<sock, handlers>>
    /\ UNCHANGED <<running, socks, mtx, aborted, racy, bounds>>

\* sock->accept(): nullptr, on a closed socket or without an fd (EMFILE), as often as it is
\* tried; a client, which is given to handleClient, or one that has gone (ECONNABORTED); or
\* nothing yet.
Accept(t) ==
    LET s == tasks[t].sock IN
    /\ Here(t, "accept")
    /\ \/ /\ ~sock[s].open \/ full
          /\ tasks' = Goto(t, "check") /\ UNCHANGED <<sock, handlers>>
       \/ /\ sock[s].open /\ ~full /\ sock[s].conns > 0
          /\ sock' = [sock EXCEPT ![s].conns = @ - 1]
          /\ handlers' = handlers + 1 \/ handlers' = handlers
          /\ tasks' = Goto(t, "check")
       \/ /\ sock[s].open /\ ~full /\ sock[s].conns = 0
          /\ tasks' = Goto(t, "lock") /\ UNCHANGED <<sock, handlers>>
    /\ UNCHANGED <<running, socks, mtx, aborted, racy, bounds>>

\* addEvent, up to its unlock of m_mtx
Lock(t) ==
    /\ Here(t, "lock") /\ ~Jammed
    /\ tasks' = Goto(t, "register")
    /\ UNCHANGED <<running, socks, sock, handlers, mtx, aborted, racy, bounds>>

\* The rest of addEvent, then yieldToHold: a second waiter fails its Assert.
Register(t) ==
    LET s == tasks[t].sock IN
    /\ Here(t, "register")
    /\ IF ~sock[s].open THEN tasks' = Goto(t, "check") /\ UNCHANGED <<sock, aborted>>
       ELSE IF sock[s].waiter # Nobody THEN aborted' = TRUE /\ UNCHANGED <<tasks, sock>>
       ELSE /\ sock' = [sock EXCEPT ![s].waiter = t]
            /\ tasks' = [tasks EXCEPT ![t].pc = "wait", ![t].gap =
                  \E u \in DOMAIN tasks : tasks[u].pc = "closef" /\ socks[tasks[u].sock] = s]
            /\ UNCHANGED aborted
    /\ UNCHANGED <<running, socks, handlers, mtx, racy, bounds>>

\* idle() triggers the event of a listening socket.
Trigger(s) ==
    /\ ~aborted /\ ~racy /\ sock[s].open /\ sock[s].conns > 0 /\ sock[s].waiter # Nobody
    /\ tasks' = Woken(tasks, s)
    /\ sock' = [sock EXCEPT ![s].waiter = Nobody]
    /\ UNCHANGED <<running, socks, handlers, mtx, aborted, racy, bounds>>

Connect(s) ==
    /\ ~aborted /\ ~racy /\ sock[s].open /\ used.clients < MaxClients
    /\ sock' = [sock EXCEPT ![s].conns = @ + 1]
    /\ used' = [used EXCEPT !.clients = @ + 1]
    /\ UNCHANGED <<running, socks, tasks, handlers, full, mtx, aborted, racy, ghost>>

\* The process runs out of fds, or has some again.
FillOrFree ==
    /\ full' = ~full
    /\ UNCHANGED <<running, socks, sock, tasks, handlers, used, mtx, aborted, racy, ghost>>

\* handleClient, and the ~Socket of the client, whose close() calls cancelAll.
HandleClient ==
    /\ ~aborted /\ ~racy /\ handlers > 0 /\ Busy < Threads
    /\ handlers' = handlers - 1
    /\ readers' = IF Jammed THEN readers ELSE readers - 1
    /\ stuck' = IF Jammed THEN stuck + 1 ELSE stuck
    /\ UNCHANGED <<running, socks, sock, tasks, aborted, racy, bounds>>

-----------------------------------------------------------------------------
(* The task of stop(); tasks[t].sock is the place in m_socks                  *)

\* sock->cancelAll(), or m_socks.clear() behind the last socket, all of them closed by now
Cancel(t) ==
    LET i == tasks[t].sock IN
    /\ Here(t, "cancel")
    /\ IF i > Len(socks)
       THEN /\ socks' = <<>> /\ tasks' = Goto(t, "done") /\ sock' = Dropped(sock, <<>>, tasks')
            /\ UNCHANGED readers
       ELSE /\ ~Jammed /\ readers' = readers - 1
            /\ tasks' = [Woken(tasks, socks[i]) EXCEPT ![t].pc = "close"]
            /\ sock' = [sock EXCEPT ![socks[i]].waiter = Nobody]
            /\ UNCHANGED socks
    /\ UNCHANGED <<running, handlers, stuck, aborted, racy, bounds>>

\* Mutant: close() goes straight to the kernel.
CloseNoCancel(t) ==
    LET s == socks[tasks[t].sock] IN
    /\ Here(t, "close")
    /\ IF sock[s].open
       THEN tasks' = Goto(t, "closef") /\ UNCHANGED sock
       ELSE tasks' = [tasks EXCEPT ![t].pc = "cancel", ![t].sock = @ + 1] /\ UNCHANGED sock
    /\ UNCHANGED <<running, socks, handlers, mtx, aborted, racy, bounds>>

\* sock->close(), up to the hook's cancelAll: whoever registered again is woken again.
Close(t) ==
    LET s == socks[tasks[t].sock] IN
    /\ Here(t, "close")
    /\ IF sock[s].open
       THEN /\ ~Jammed /\ readers' = readers - 1
            /\ tasks' = [Woken(tasks, s) EXCEPT ![t].pc = "closef"]
            /\ sock' = [sock EXCEPT ![s].waiter = Nobody]
       ELSE tasks' = [tasks EXCEPT ![t].pc = "cancel", ![t].sock = @ + 1] /\ UNCHANGED <<sock, readers>>
    /\ UNCHANGED <<running, socks, handlers, stuck, aborted, racy, bounds>>

\* close_f, m_sock = -1, and on to the next socket
CloseF(t) ==
    LET s == socks[tasks[t].sock] IN
    /\ Here(t, "closef")
    /\ sock' = [sock EXCEPT ![s].open = FALSE]
    /\ tasks' = [tasks EXCEPT ![t].pc = "cancel", ![t].sock = @ + 1]
    /\ UNCHANGED <<running, socks, handlers, mtx, aborted, racy, bounds>>

-----------------------------------------------------------------------------
Step(t) == Check(t) \/ Accept(t) \/ Lock(t) \/ Register(t) \/ Cancel(t) \/ Close(t) \/ CloseF(t)

Next ==
    \/ \E n \in 0 .. 2, fail \in BOOLEAN : Bind(n, fail)
    \/ Start \/ Stop \/ HandleClient \/ FillOrFree
    \/ \E t \in 1 .. MaxTasks : Dispatch(t) \/ Step(t)
    \/ \E s \in SockIds : Trigger(s) \/ Connect(s)

Spec == Init /\ [][Next]_vars

\* Threads run; a thread that is free takes tasks in the order of the list, so that
\* none is passed over for ever.  Nothing makes fds free again.
FairSpec ==
    /\ Spec
    /\ \A t \in 1 .. MaxTasks : WF_vars(Step(t)) /\ SF_vars(Dispatch(t))
    /\ SF_vars(HandleClient)

-----------------------------------------------------------------------------
(* Properties                                                                *)

TypeOK ==
    /\ running \in BOOLEAN /\ socks \in Seq(SockIds) /\ handlers \in 0 .. MaxClients
    /\ \A s \in SockIds : sock[s].waiter \in 0 .. Len(tasks) /\ sock[s].conns \in 0 .. MaxClients
    /\ \A t \in DOMAIN tasks : tasks[t].pc \in
          {"queued", "check", "accept", "lock", "register", "wait", "done", "cancel", "close", "closef"}
    /\ readers \in -2 .. 0 /\ stuck \in 0 .. Threads
    /\ Busy <= Threads

\* Whatever the order of bind, start, stop and their tasks, addEvent's Assert and a loop
\* that spins on a closed socket need one thing: a start() before the loops and the
\* task of an earlier stop() had ended.
TroubleNeedsRestart ==
    ghost.restarted \/
        /\ ~aborted
        /\ \A t \in Loops : tasks[t].pc = "accept" /\ ~sock[tasks[t].sock].open => ~running

\* stop() can reach every loop that waits: its socket is open and in m_socks, or the loop
\* registered while the socket was being closed, or a failed bind() threw the socket away.
WaitersReachable ==
    \A t \in Loops : tasks[t].pc = "wait" =>
        LET s == tasks[t].sock IN
        \/ sock[s].open /\ sock[s].waiter = t /\ \E i \in DOMAIN socks : socks[i] = s
        \/ tasks[t].gap
        \/ ghost.failed

\* A thread spins for m_mtx: in addEvent, in a cancelAll of the stop task or of a close(),
\* or in the ~Socket of a loop or a handler.
Spins ==
    Jammed /\
        \/ stuck > 0
        \/ \E t \in DOMAIN tasks :
              \/ tasks[t].pc = "lock"
              \/ tasks[t].pc = "check" /\ ~running /\ LastRef(t)
              \/ tasks[t].pc = "cancel" /\ tasks[t].sock <= Len(socks)
              \/ tasks[t].pc = "close" /\ sock[socks[tasks[t].sock]].open

\* After stop() every loop ends, with those exceptions, unless the server is started again,
\* a second generation of loops made addEvent abort, or a thread spins for m_mtx: two closed
\* clients, two failed bind() calls or the stop task itself, at its second socket, are
\* enough for that.
StoppedLoopsEnd ==
    \A t \in 1 .. MaxTasks :
        (t \in Loops /\ ~running) ~>
            (t \notin Loops \/ running \/ aborted \/ racy \/ ghost.failed
             \/ tasks[t].gap \/ Spins)

\* Accepted clients are handled: accept loops do not keep the threads for themselves, but
\* for loops that spin after a restart, or, while the process has no fd left, as many loops
\* as there are threads: each tries accept() again without yielding.
ClientsHandled ==
    handlers > 0 ~> \/ handlers = 0 \/ racy \/ ghost.restarted \/ Spins
                    \/ full /\ Cardinality(Loops) >= Threads

\* What always holds of the accept loops, for any order of bind(), start() and stop().
ServerInv == TypeOK /\ TroubleNeedsRestart /\ WaitersReachable
=============================================================================
