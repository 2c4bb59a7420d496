-------------------------- MODULE TcpServer_proofs --------------------------
(***************************************************************************)
(* ServerInv of TcpServer, for any number of threads, sockets, tasks,      *)
(* calls and clients.                                                      *)
(***************************************************************************)
EXTENDS TcpServer, FiniteSetTheorems, SequenceTheorems, TLAPS

LoopPC == {"queued", "check", "accept", "lock", "register", "wait", "done"}
StopPC == {"queued", "cancel", "close", "closef", "done"}
Task == [kind : {"loop", "stop"}, pc : LoopPC \cup StopPC, at : {"check", "accept", "cancel"},
         sock : Nat, gap : BOOLEAN]
File == [made : BOOLEAN, open : BOOLEAN, waiter : Nat, conns : Nat]

Listed(s) == \E i \in DOMAIN socks : socks[i] = s
ActiveStop(t) == t \in DOMAIN tasks /\ tasks[t].kind = "stop" /\ Active(t)

Types ==
    /\ running \in BOOLEAN /\ aborted \in BOOLEAN /\ racy \in BOOLEAN
    /\ socks \in Seq(SockIds) /\ tasks \in Seq(Task) /\ sock \in [SockIds -> File]
    /\ used \in [calls : Nat, clients : 0 .. MaxClients] /\ stuck \in Nat
    /\ ghost \in [restarted : BOOLEAN, failed : BOOLEAN]

\* An accept loop is at a statement of startListen and has a socket that was made; the
\* task of stop() is at one of its own, and waits for no event.
ProgramAt(t) ==
    \/ /\ tasks[t].kind = "loop" /\ tasks[t].pc \in LoopPC /\ tasks[t].at \in {"check", "accept"}
       /\ tasks[t].sock \in SockIds /\ sock[tasks[t].sock].made
    \/ /\ tasks[t].kind = "stop" /\ tasks[t].pc \in StopPC /\ tasks[t].at = "cancel"
       /\ tasks[t].sock >= 1 /\ (tasks[t].pc = "queued" => tasks[t].sock = 1)
Programs == \A t \in DOMAIN tasks : ProgramAt(t)

\* bind() makes sockets one after the other, and m_socks has each at most once.
Made ==
    /\ \E k \in 0 .. MaxSocks : \A s \in SockIds : sock[s].made <=> s <= k
    /\ \A i \in DOMAIN socks : sock[socks[i]].made
    /\ \A i, j \in DOMAIN socks : socks[i] = socks[j] => i = j

\* The FdContext of a socket names a loop that waits for it.
WaitsFor(t, s) ==
    t \in DOMAIN tasks /\ tasks[t].kind = "loop" /\ tasks[t].pc = "wait" /\ tasks[t].sock = s
WaiterWaits == \A s \in SockIds : sock[s].waiter # Nobody => WaitsFor(sock[s].waiter, s)

\* A connection is in one backlog or with one handleClient task; total[k] is what is in
\* the backlogs of the first k sockets.
Counted ==
    /\ handlers \in Nat
    /\ \E total \in [0 .. MaxSocks -> Nat] :
         /\ total[0] = 0 /\ \A k \in SockIds : total[k] = total[k - 1] + sock[k].conns
         /\ \A j, k \in 0 .. MaxSocks : j <= k => total[j] <= total[k]
         /\ handlers + total[MaxSocks] <= used.clients

\* Until two threads meet in m_socks one stop task walks through it, with the closed
\* sockets behind it; a socket of m_socks is closed only by such a task.
WalkAt(t) ==
    /\ tasks[t].pc \in {"close", "closef"} => tasks[t].sock <= Len(socks)
    /\ \A i \in DOMAIN socks : i < tasks[t].sock => ~sock[socks[i]].open
    /\ tasks[t].pc = "closef" =>
         \A u \in DOMAIN tasks : WaitsFor(u, socks[tasks[t].sock]) => tasks[u].gap \/ ghost.failed
Walk ==
    ~racy =>
      /\ \A t, u \in DOMAIN tasks : ActiveStop(t) /\ ActiveStop(u) => t = u
      /\ \A t \in DOMAIN tasks : ActiveStop(t) => WalkAt(t)
      /\ \A i \in DOMAIN socks : ~sock[socks[i]].open => Stopping

\* m_socks has the open sockets of all loops, but for a bind() that failed.
LoopsListed == ghost.failed \/ \A t \in Loops : sock[tasks[t].sock].open => Listed(tasks[t].sock)

\* Without an early start(): a loop per socket, no stop task while m_running, and then
\* the loops' sockets are open.
OneGeneration ==
    ghost.restarted \/
        /\ ~aborted
        /\ \A t, u \in Loops : tasks[t].sock = tasks[u].sock => t = u
        /\ running => /\ \A t \in DOMAIN tasks : tasks[t].kind = "stop" => tasks[t].pc = "done"
                      /\ \A t \in Loops : sock[tasks[t].sock].open

Parts == /\ Types /\ Programs /\ Made /\ WaiterWaits /\ Busy <= Threads
         /\ Walk /\ LoopsListed /\ OneGeneration /\ WaitersReachable

IInv == Parts /\ Counted

\* What double unlocks leave of m_mtx's count.
Readers == readers \in -2 .. 0

LEMMA Bounds == /\ Threads \in Nat /\ MaxSocks \in Nat /\ MaxTasks \in Nat
                /\ MaxCalls \in Nat /\ MaxClients \in Nat
  BY TcpServerAssumption

USE Bounds DEF Nobody, SockIds

-----------------------------------------------------------------------------
(* Lemmas about the operators of the model                                   *)

\* A list of tasks in which one is replaced.
LEMMA Replaced ==
    ASSUME NEW q \in Seq(Task), NEW t \in DOMAIN q, NEW r \in Task
    PROVE  /\ [q EXCEPT ![t] = r] \in Seq(Task)
           /\ Len([q EXCEPT ![t] = r]) = Len(q)
           /\ DOMAIN [q EXCEPT ![t] = r] = DOMAIN q
           /\ \A u \in DOMAIN q : [q EXCEPT ![t] = r][u] = IF u = t THEN r ELSE q[u]
<1>1. t \in 1 .. Len(q)
  BY LenProperties
<1>2. [q EXCEPT ![t] = r] \in Seq(Task) /\ Len([q EXCEPT ![t] = r]) = Len(q)
  BY <1>1, ExceptSeq
<1> QED
  BY <1>2

\* A task that goes on changes nothing else.
LEMMA GoneTo ==
    ASSUME Types, NEW t \in DOMAIN tasks, NEW p \in LoopPC \cup StopPC
    PROVE  /\ Goto(t, p) \in Seq(Task)
           /\ Len(Goto(t, p)) = Len(tasks)
           /\ DOMAIN Goto(t, p) = DOMAIN tasks
           /\ \A u \in DOMAIN tasks \ {t} : Goto(t, p)[u] = tasks[u]
           /\ Goto(t, p)[t].kind = tasks[t].kind /\ Goto(t, p)[t].pc = p
           /\ Goto(t, p)[t].sock = tasks[t].sock /\ Goto(t, p)[t].gap = tasks[t].gap
           /\ Goto(t, p)[t].at = tasks[t].at
<1> DEFINE r == [tasks[t] EXCEPT !.pc = p]
<1>1. tasks \in Seq(Task) /\ tasks[t] \in Task
  BY DEF Types
<1>2. /\ r \in Task /\ r.kind = tasks[t].kind /\ r.pc = p /\ r.sock = tasks[t].sock
      /\ r.gap = tasks[t].gap /\ r.at = tasks[t].at
  BY <1>1 DEF Task
<1>3. Goto(t, p) = [tasks EXCEPT ![t] = r]
  BY DEF Goto
<1> HIDE DEF r
<1> QED
  BY <1>1, <1>2, <1>3, Replaced

\* Waking the waiter of s queues it, to try accept again, and changes no other task.
LEMMA WokenTasks ==
    ASSUME Types, WaiterWaits, NEW s \in SockIds
    PROVE  /\ Woken(tasks, s) \in Seq(Task)
           /\ Len(Woken(tasks, s)) = Len(tasks)
           /\ DOMAIN Woken(tasks, s) = DOMAIN tasks
           /\ \A u \in DOMAIN tasks : u # sock[s].waiter => Woken(tasks, s)[u] = tasks[u]
           /\ sock[s].waiter # Nobody =>
                LET w == sock[s].waiter IN
                /\ w \in DOMAIN tasks
                /\ Woken(tasks, s)[w].kind = "loop" /\ Woken(tasks, s)[w].pc = "queued"
                /\ Woken(tasks, s)[w].sock = s /\ Woken(tasks, s)[w].at = "accept"
<1>1. CASE sock[s].waiter = Nobody
  BY <1>1 DEF Woken, Types
<1>2. CASE sock[s].waiter # Nobody
  <2> DEFINE w == sock[s].waiter
             r == [tasks[w] EXCEPT !.pc = "queued", !.at = "accept"]
  <2>1. tasks \in Seq(Task) /\ w \in DOMAIN tasks /\ tasks[w] \in Task
        /\ tasks[w].kind = "loop" /\ tasks[w].sock = s
    BY <1>2 DEF Types, WaiterWaits, WaitsFor
  <2>2. r \in Task /\ r.kind = "loop" /\ r.pc = "queued" /\ r.sock = s /\ r.at = "accept"
    BY <2>1 DEF Task, LoopPC
  <2>3. Woken(tasks, s) = [tasks EXCEPT ![w] = r]
    BY <1>2 DEF Woken
  <2> HIDE DEF r
  <2> QED BY <1>2, <2>1, <2>2, <2>3, Replaced
<1> QED
  BY <1>1, <1>2

\* No more threads are busy after a step by which no task takes one.
LEMMA BusyFewer ==
    ASSUME tasks \in Seq(Task), tasks' \in Seq(Task), stuck \in Nat, stuck' = stuck,
           \A t \in DOMAIN tasks' : Active(t)' => t \in DOMAIN tasks /\ Active(t)
    PROVE  Busy' \in Nat /\ Busy \in Nat /\ Busy' <= Busy
<1> DEFINE A == {t \in DOMAIN tasks : Active(t)}
           B == {t \in DOMAIN tasks' : Active(t)'}
<1>1. IsFiniteSet(A)
  <2>1. DOMAIN tasks = 1 .. Len(tasks) /\ Len(tasks) \in Nat
    BY LenProperties
  <2>2. IsFiniteSet(DOMAIN tasks)
    BY <2>1, FS_Interval
  <2> QED BY <2>2, FS_Subset
<1>2. B \subseteq A
  OBVIOUS
<1>3. Busy = Cardinality(A) + stuck /\ Busy' = Cardinality(B) + stuck
  BY DEF Busy
<1> HIDE DEF A, B
<1>4. Cardinality(A) \in Nat /\ Cardinality(B) \in Nat /\ Cardinality(B) <= Cardinality(A)
  BY <1>1, <1>2, FS_Subset, FS_CardinalityType
<1> QED
  BY <1>3, <1>4

\* A task that takes a thread makes one more busy.
LEMMA BusyOneMore ==
    ASSUME tasks \in Seq(Task), tasks' \in Seq(Task), stuck \in Nat, stuck' = stuck, NEW d,
           \A t \in DOMAIN tasks' : Active(t)' => t = d \/ (t \in DOMAIN tasks /\ Active(t))
    PROVE  Busy' \in Nat /\ Busy \in Nat /\ Busy' <= Busy + 1
<1> DEFINE A == {t \in DOMAIN tasks : Active(t)}
           B == {t \in DOMAIN tasks' : Active(t)'}
<1>1. IsFiniteSet(A)
  <2>1. DOMAIN tasks = 1 .. Len(tasks) /\ Len(tasks) \in Nat
    BY LenProperties
  <2>2. IsFiniteSet(DOMAIN tasks)
    BY <2>1, FS_Interval
  <2> QED BY <2>2, FS_Subset
<1>2. B \subseteq A \cup {d}
  OBVIOUS
<1>3. Busy = Cardinality(A) + stuck /\ Busy' = Cardinality(B) + stuck
  BY DEF Busy
<1> HIDE DEF A, B
<1>4. /\ IsFiniteSet(A \cup {d}) /\ Cardinality(A) \in Nat
      /\ Cardinality(A \cup {d}) = Cardinality(A) \/ Cardinality(A \cup {d}) = Cardinality(A) + 1
  BY <1>1, FS_AddElement, FS_CardinalityType
<1>5. Cardinality(B) \in Nat /\ Cardinality(B) <= Cardinality(A \cup {d})
  BY <1>2, <1>4, FS_Subset, FS_CardinalityType
<1> QED
  BY <1>3, <1>4, <1>5

LEMMA LoopHasSock ==
    ASSUME Programs, NEW t \in DOMAIN tasks, tasks[t].kind = "loop"
    PROVE  tasks[t].sock \in SockIds /\ sock[tasks[t].sock].made
  BY DEF Programs, ProgramAt

LEMMA StopHasPlace ==
    ASSUME Types, Programs, NEW t \in DOMAIN tasks, tasks[t].kind = "stop"
    PROVE  tasks[t].sock \in Nat /\ tasks[t].sock >= 1
<1>1. tasks[t].sock \in Nat
  <2>1. tasks[t] \in Task
    BY DEF Types
  <2> QED BY <2>1 DEF Task
<1>2. tasks[t].sock >= 1
  BY DEF Programs, ProgramAt
<1> QED
  BY <1>1, <1>2

LEMMA ListedSocks ==
    ASSUME Types
    PROVE  \A i \in DOMAIN socks : socks[i] \in SockIds /\ i \in Nat
<1>1. socks \in Seq(SockIds)
  BY DEF Types
<1> QED
  BY <1>1

LEMMA ClosesListed ==
    ASSUME Types, NEW t \in DOMAIN tasks, WalkAt(t), tasks[t].sock \in Nat, tasks[t].sock >= 1,
           tasks[t].pc \in {"close", "closef"}
    PROVE  tasks[t].sock \in DOMAIN socks /\ socks[tasks[t].sock] \in SockIds
<1>1. tasks[t].sock <= Len(socks)
  BY DEF WalkAt
<1>2. socks \in Seq(SockIds)
  BY DEF Types
<1> QED
  BY <1>1, <1>2

\* A connection arrives, and goes from a backlog to a handleClient task.
LEMMA CountedMore ==
    ASSUME Counted, Types, NEW s \in SockIds, handlers' = handlers,
           used'.clients = used.clients + 1,
           \A q \in SockIds : sock'[q].conns = IF q = s THEN sock[q].conns + 1 ELSE sock[q].conns
    PROVE  Counted'
<1>1. PICK total \in [0 .. MaxSocks -> Nat] :
         /\ total[0] = 0 /\ \A k \in SockIds : total[k] = total[k - 1] + sock[k].conns
         /\ \A j, k \in 0 .. MaxSocks : j <= k => total[j] <= total[k]
         /\ handlers + total[MaxSocks] <= used.clients
  BY DEF Counted
<1> DEFINE more == [k \in 0 .. MaxSocks |-> IF k < s THEN total[k] ELSE total[k] + 1]
<1>2. more \in [0 .. MaxSocks -> Nat] /\ more[0] = 0
  BY <1>1
<1>3. \A k \in SockIds : sock[k].conns \in Nat
  BY DEF Types, File
<1>4. ASSUME NEW k \in SockIds PROVE more[k] = more[k - 1] + sock'[k].conns
  <2>1. k \in 0 .. MaxSocks /\ k - 1 \in 0 .. MaxSocks /\ s \in Int /\ k \in Int
    OBVIOUS
  <2>2. total[k] = total[k - 1] + sock[k].conns /\ total[k] \in Nat /\ total[k - 1] \in Nat
    BY <1>1, <2>1
  <2>3. sock[k].conns \in Nat
    BY <1>3
  <2>4. CASE k = s
    BY <2>1, <2>2, <2>3, <2>4
  <2>5. CASE k < s
    BY <2>1, <2>2, <2>3, <2>5
  <2>6. CASE k > s
    BY <2>1, <2>2, <2>3, <2>6
  <2> QED BY <2>1, <2>4, <2>5, <2>6
<1>5. \A j, k \in 0 .. MaxSocks : j <= k => more[j] <= more[k]
  BY <1>1
<1>6. more[MaxSocks] = total[MaxSocks] + 1 /\ total[MaxSocks] \in Nat
  BY <1>1
<1> HIDE DEF more
<1>7. handlers' \in Nat /\ handlers' + more[MaxSocks] <= used'.clients
  <2>1. used.clients \in Nat /\ handlers \in Nat
    BY DEF Types, Counted
  <2> QED BY <1>1, <1>6, <2>1
<1> QED
  BY <1>2, <1>4, <1>5, <1>7 DEF Counted

LEMMA CountedMoved ==
    ASSUME Counted, Types, NEW s \in SockIds, sock[s].conns > 0,
           handlers' = handlers + 1 \/ handlers' = handlers,
           used'.clients = used.clients,
           \A q \in SockIds : sock'[q].conns = IF q = s THEN sock[q].conns - 1 ELSE sock[q].conns
    PROVE  Counted'
<1>1. PICK total \in [0 .. MaxSocks -> Nat] :
         /\ total[0] = 0 /\ \A k \in SockIds : total[k] = total[k - 1] + sock[k].conns
         /\ \A j, k \in 0 .. MaxSocks : j <= k => total[j] <= total[k]
         /\ handlers + total[MaxSocks] <= used.clients
  BY DEF Counted
<1>2. \A k \in SockIds : sock[k].conns \in Nat
  BY DEF Types, File
<1>3. \A j, k \in 0 .. MaxSocks : j < s /\ s <= k => total[j] <= total[k] - 1
  <2>1. total[s] = total[s - 1] + sock[s].conns /\ total[s] \in Nat /\ total[s - 1] \in Nat
    BY <1>1
  <2>2. \A j, k \in 0 .. MaxSocks : j < s /\ s <= k => total[j] <= total[s - 1] /\ total[s] <= total[k]
    BY <1>1
  <2>3. total[s - 1] <= total[s] - 1
    BY <1>2, <2>1
  <2>4. \A j \in 0 .. MaxSocks : total[j] \in Nat
    BY <1>1
  <2> QED BY <2>1, <2>2, <2>3, <2>4
<1> DEFINE less == [k \in 0 .. MaxSocks |-> IF k < s THEN total[k] ELSE total[k] - 1]
<1>4. less \in [0 .. MaxSocks -> Nat] /\ less[0] = 0
  <2>1. \A k \in 0 .. MaxSocks : s <= k => total[k] - 1 \in Nat
    BY <1>1, <1>3
  <2> QED BY <1>1, <2>1
<1>5. ASSUME NEW k \in SockIds PROVE less[k] = less[k - 1] + sock'[k].conns
  <2>1. k \in 0 .. MaxSocks /\ k - 1 \in 0 .. MaxSocks /\ s \in Int /\ k \in Int
    OBVIOUS
  <2>2. total[k] = total[k - 1] + sock[k].conns /\ total[k] \in Nat /\ total[k - 1] \in Nat
    BY <1>1, <2>1
  <2>3. sock[k].conns \in Nat
    BY <1>2
  <2>4. CASE k = s
    BY <2>1, <2>2, <2>3, <2>4
  <2>5. CASE k < s
    BY <2>1, <2>2, <2>3, <2>5
  <2>6. CASE k > s
    BY <2>1, <2>2, <2>3, <2>6
  <2> QED BY <2>1, <2>4, <2>5, <2>6
<1>6. \A j, k \in 0 .. MaxSocks : j <= k => less[j] <= less[k]
  BY <1>1, <1>3
<1>7. less[MaxSocks] = total[MaxSocks] - 1 /\ total[MaxSocks] \in Nat
  BY <1>1
<1> HIDE DEF less
<1>8. handlers' \in Nat /\ handlers' + less[MaxSocks] <= used'.clients
  <2>1. used.clients \in Nat /\ handlers \in Nat
    BY DEF Types, Counted
  <2> QED BY <1>1, <1>7, <2>1
<1> QED
  BY <1>4, <1>5, <1>6, <1>8 DEF Counted

-----------------------------------------------------------------------------
(* Steps that share a proof                                                  *)

LEMMA CountedSame ==
    ASSUME Counted, \A s \in SockIds : sock'[s].conns = sock[s].conns,
           handlers' = handlers, used'.clients = used.clients
    PROVE  Counted'
  BY DEF Counted

\* What a step of an accept loop, or of the kernel, leaves as it is.
SockKept ==
    /\ sock' \in [SockIds -> File]
    /\ \A s \in SockIds : sock'[s].made = sock[s].made /\ sock'[s].waiter = sock[s].waiter

\* A Socket is closed only when neither m_socks nor a loop refers to it any more.
OnlyUnusedClosed ==
    \A s \in SockIds :
        /\ sock'[s].open => sock[s].open
        /\ sock[s].open /\ ~sock'[s].open =>
             /\ ~Listed(s)
             /\ \A u \in DOMAIN tasks' : tasks'[u].kind = "loop" /\ tasks'[u].pc # "done"
                                            => tasks'[u].sock # s

\* An accept loop goes on, but not to wait.
LEMMA LoopMoves ==
    ASSUME Parts, ~racy, NEW t \in DOMAIN tasks, tasks[t].kind = "loop",
           tasks[t].pc \notin {"wait", "done"},
           NEW p \in LoopPC \ {"wait", "queued"}, tasks' = Goto(t, p),
           Active(t) \/ p = "done" \/ Busy < Threads,
           UNCHANGED <<running, socks, ghost, aborted, stuck>>, racy' = FALSE,
           SockKept, OnlyUnusedClosed,
           used' \in [calls : Nat, clients : 0 .. MaxClients]
    PROVE  Parts'
<1>1. /\ tasks' \in Seq(Task) /\ DOMAIN tasks' = DOMAIN tasks
      /\ \A u \in DOMAIN tasks \ {t} : tasks'[u] = tasks[u]
      /\ tasks'[t].kind = "loop" /\ tasks'[t].pc = p /\ tasks'[t].sock = tasks[t].sock
      /\ tasks'[t].gap = tasks[t].gap /\ tasks'[t].at = tasks[t].at
  BY GoneTo DEF Parts
<1>2. Types'
  BY <1>1 DEF Parts, Types, SockKept
<1>3. Programs'
  <2>1. \A u \in DOMAIN tasks : /\ tasks'[u].kind = tasks[u].kind /\ tasks'[u].at = tasks[u].at
                                /\ tasks'[u].sock = tasks[u].sock
                                /\ tasks'[u].pc = tasks[u].pc \/ (u = t /\ tasks'[u].pc \in LoopPC)
    BY <1>1
  <2>2. SUFFICES ASSUME NEW u \in DOMAIN tasks PROVE ProgramAt(u)'
    BY <1>1 DEF Programs
  <2> QED BY <2>1, <2>2 DEF Parts, Programs, ProgramAt, SockKept
<1>4. Made'
  <2>1. socks' = socks /\ \A i \in DOMAIN socks : socks[i] \in SockIds
    BY DEF Parts, Types
  <2> QED BY <2>1 DEF Parts, Made, SockKept
<1>5. WaiterWaits'
  <2>1. \A u \in DOMAIN tasks, s \in SockIds : WaitsFor(u, s) => WaitsFor(u, s)'
    BY <1>1 DEF WaitsFor
  <2> QED BY <2>1 DEF Parts, WaiterWaits, WaitsFor, SockKept
<1>6. (Busy <= Threads)'
  <2>1. CASE Active(t) \/ p = "done"
    <3>1. \A u \in DOMAIN tasks' : Active(u)' => u \in DOMAIN tasks /\ Active(u)
      BY <1>1, <2>1 DEF Active
    <3> QED BY <1>1, <3>1, BusyFewer DEF Parts, Types
  <2>2. CASE Busy < Threads
    <3>1. \A u \in DOMAIN tasks' : Active(u)' => u = t \/ (u \in DOMAIN tasks /\ Active(u))
      BY <1>1 DEF Active
    <3>2. Busy' \in Nat /\ Busy \in Nat /\ Busy' <= Busy + 1
      BY <1>1, <3>1, BusyOneMore DEF Parts, Types
    <3> QED BY <2>2, <3>2
  <2> QED BY <2>1, <2>2
<1>7. Walk'
  <2>1. /\ \A u \in DOMAIN tasks : ActiveStop(u)' <=> ActiveStop(u)
        /\ \A u \in DOMAIN tasks : ActiveStop(u) => tasks'[u] = tasks[u]
        /\ Stopping' <=> Stopping
    BY <1>1 DEF ActiveStop, Active, Stopping
  <2>2. /\ \A i \in DOMAIN socks : socks[i] \in SockIds /\ Listed(socks[i])
        /\ socks' = socks /\ ghost' = ghost
    BY DEF Parts, Types, Listed
  <2>3. \A i \in DOMAIN socks : sock'[socks[i]].open <=> sock[socks[i]].open
    BY <2>2 DEF OnlyUnusedClosed
  <2>4. \A u \in DOMAIN tasks, s \in SockIds : WaitsFor(u, s)' => WaitsFor(u, s) /\ tasks'[u].gap = tasks[u].gap
    BY <1>1 DEF WaitsFor
  <2>5. ASSUME NEW u \in DOMAIN tasks, ActiveStop(u) PROVE WalkAt(u)'
    <3>1. WalkAt(u) /\ tasks'[u] = tasks[u] /\ tasks[u].sock \in Nat /\ tasks[u].sock >= 1
      BY <2>1, <2>5, StopHasPlace DEF Parts, Walk, ActiveStop
    <3>2. tasks[u].pc = "closef" => socks[tasks[u].sock] \in SockIds
      BY <2>2, <3>1 DEF WalkAt, Parts, Types
    <3> QED BY <1>1, <2>2, <2>3, <2>4, <3>1, <3>2 DEF WalkAt
  <2> QED BY <1>1, <2>1, <2>2, <2>3, <2>5 DEF Parts, Walk
<1>8. \A u \in Loops' : /\ u \in Loops /\ tasks'[u].sock = tasks[u].sock /\ tasks[u].sock \in SockIds
                        /\ sock'[tasks[u].sock].open <=> sock[tasks[u].sock].open
  <2>1. SUFFICES ASSUME NEW u \in DOMAIN tasks, tasks'[u].kind = "loop", tasks'[u].pc # "done"
                 PROVE  /\ u \in Loops /\ tasks'[u].sock = tasks[u].sock /\ tasks[u].sock \in SockIds
                        /\ sock'[tasks[u].sock].open <=> sock[tasks[u].sock].open
    BY <1>1 DEF Loops
  <2>2. u \in Loops /\ tasks[u].kind = "loop" /\ tasks'[u].sock = tasks[u].sock
    BY <1>1, <2>1 DEF Loops
  <2>3. tasks[u].sock \in SockIds
    BY <2>2, LoopHasSock DEF Parts
  <2> QED BY <1>1, <2>1, <2>2, <2>3 DEF OnlyUnusedClosed
<1>9. LoopsListed'
  BY <1>8 DEF Parts, LoopsListed, Listed
<1>10. OneGeneration'
  BY <1>1, <1>8 DEF Parts, OneGeneration
<1>11. WaitersReachable'
  <2>1. \A u \in Loops' : tasks'[u].pc = "wait" => tasks[u].pc = "wait" /\ tasks'[u].gap = tasks[u].gap
    BY <1>1 DEF Loops
  <2> QED BY <1>8, <2>1 DEF Parts, WaitersReachable, SockKept
<1> QED
  BY <1>2, <1>3, <1>4, <1>5, <1>6, <1>7, <1>9, <1>10, <1>11 DEF Parts

\* Neither the tasks nor the sockets they depend on change (Connect, HandleClient, or a
\* loop whose addEvent finds its socket in use).
LEMMA TasksStay ==
    ASSUME Parts, UNCHANGED <<running, socks, tasks, ghost>>, SockKept,
           racy' \in BOOLEAN, racy => racy',
           \A s \in SockIds : sock'[s].open = sock[s].open,
           used' \in [calls : Nat, clients : 0 .. MaxClients],
           aborted' \in BOOLEAN, aborted' => aborted \/ ghost.restarted,
           stuck' = stuck \/ (stuck' = stuck + 1 /\ Busy < Threads)
    PROVE  Parts'
<1>0. stuck \in Nat /\ tasks \in Seq(Task) /\ stuck' \in Nat
  BY DEF Parts, Types
<1>1. Types'
  BY <1>0 DEF Parts, Types, SockKept
<1>2. (\A i \in DOMAIN socks : socks[i] \in SockIds) /\ socks' = socks /\ tasks' = tasks /\ ghost' = ghost
  BY DEF Parts, Types
<1>3. Programs' /\ Made' /\ WaiterWaits'
  <2>1. \A t \in DOMAIN tasks : ProgramAt(t) => ProgramAt(t)'
    BY <1>2 DEF ProgramAt, SockKept
  <2>2. Programs'
    BY <1>2, <2>1 DEF Parts, Programs
  <2>3. Made'
    BY <1>2 DEF Parts, Made, SockKept
  <2>4. WaiterWaits'
    BY <1>2 DEF Parts, WaiterWaits, WaitsFor, SockKept
  <2> QED BY <2>2, <2>3, <2>4
<1>4. (Busy <= Threads)'
  <2> DEFINE A == {t \in DOMAIN tasks : Active(t)}
  <2>1. IsFiniteSet(A)
    <3>1. DOMAIN tasks = 1 .. Len(tasks) /\ Len(tasks) \in Nat
      BY <1>0, LenProperties
    <3>2. IsFiniteSet(DOMAIN tasks)
      BY <3>1, FS_Interval
    <3> QED BY <3>2, FS_Subset
  <2>2. Busy = Cardinality(A) + stuck /\ Busy' = Cardinality(A) + stuck'
    BY <1>2 DEF Busy, Active
  <2>3. Busy <= Threads
    BY DEF Parts
  <2> HIDE DEF A
  <2>4. Cardinality(A) \in Nat
    BY <2>1, FS_CardinalityType
  <2> QED BY <1>0, <2>2, <2>3, <2>4
<1>5. Walk'
  BY <1>2 DEF Parts, Walk, WalkAt, WaitsFor, ActiveStop, Active, Stopping
<1>6. \A t \in Loops : tasks[t].sock \in SockIds
  BY DEF Parts, Programs, ProgramAt, Loops
<1>7. LoopsListed' /\ OneGeneration' /\ WaitersReachable'
  BY <1>2, <1>6 DEF Parts, LoopsListed, Loops, Listed, OneGeneration, WaitersReachable, SockKept
<1> QED
  BY <1>1, <1>3, <1>4, <1>5, <1>7 DEF Parts

\* idle(), cancelAll and close wake the loop that waits for s; the stop task that does so
\* goes on.
LEMMA Wakes ==
    ASSUME Parts, NEW s \in SockIds, tasks' \in Seq(Task), DOMAIN tasks' = DOMAIN tasks,
           \A u \in DOMAIN tasks : tasks[u].kind = "loop" /\ u # sock[s].waiter => tasks'[u] = tasks[u],
           sock[s].waiter # Nobody =>
               /\ tasks'[sock[s].waiter].kind = "loop" /\ tasks'[sock[s].waiter].pc = "queued"
               /\ tasks'[sock[s].waiter].sock = s /\ tasks'[sock[s].waiter].at = "accept",
           \A u \in DOMAIN tasks : tasks[u].kind = "stop" =>
               /\ tasks'[u].kind = "stop" /\ tasks'[u].at = tasks[u].at /\ tasks'[u].sock = tasks[u].sock
               /\ tasks'[u].pc = tasks[u].pc \/ (Active(u) /\ tasks'[u].pc \in {"close", "closef"}),
           sock' = [sock EXCEPT ![s].waiter = Nobody],
           UNCHANGED <<running, socks, aborted, ghost, racy, used, stuck>>
    PROVE  /\ Types' /\ Programs' /\ Made' /\ WaiterWaits' /\ (Busy <= Threads)'
           /\ LoopsListed' /\ OneGeneration' /\ WaitersReachable'
           /\ \A u \in DOMAIN tasks, v \in SockIds : WaitsFor(u, v)' =>
                  WaitsFor(u, v) /\ tasks'[u] = tasks[u] /\ u # sock[s].waiter
           /\ \A u \in DOMAIN tasks : ActiveStop(u)' <=> ActiveStop(u)
<1>0. /\ \A u \in DOMAIN tasks : tasks[u].kind \in {"loop", "stop"} /\ u # Nobody
      /\ \A i \in DOMAIN socks : socks[i] \in SockIds
      /\ sock \in [SockIds -> File] /\ sock[s] \in File
  <2>1. tasks \in Seq(Task) /\ socks \in Seq(SockIds) /\ sock \in [SockIds -> File]
    BY DEF Parts, Types
  <2>2. \A u \in DOMAIN tasks : tasks[u] \in Task /\ u # Nobody
    BY <2>1
  <2> QED BY <2>1, <2>2 DEF Task
<1>1. /\ sock' \in [SockIds -> File]
      /\ \A q \in SockIds : sock'[q].made = sock[q].made /\ sock'[q].open = sock[q].open
      /\ \A q \in SockIds : sock'[q].waiter = IF q = s THEN Nobody ELSE sock[q].waiter
  BY <1>0 DEF File
<1>2. Types'
  BY <1>1 DEF Parts, Types
<1>3. sock[s].waiter # Nobody => WaitsFor(sock[s].waiter, s)
  BY DEF Parts, WaiterWaits
<1>4. Programs'
  <2>1. SUFFICES ASSUME NEW u \in DOMAIN tasks PROVE ProgramAt(u)'
    BY DEF Programs
  <2>2. ProgramAt(u)
    BY DEF Parts, Programs
  <2>3. CASE tasks[u].kind = "stop"
    BY <2>2, <2>3 DEF ProgramAt, StopPC, Active
  <2>4. CASE tasks[u].kind = "loop" /\ u # sock[s].waiter
    BY <1>1, <2>2, <2>4 DEF ProgramAt
  <2>5. CASE tasks[u].kind = "loop" /\ u = sock[s].waiter
    <3>1. tasks[u].sock = s /\ sock[s].made
      BY <1>0, <1>3, <2>2, <2>5 DEF ProgramAt, WaitsFor
    <3> QED BY <1>0, <1>1, <2>5, <3>1 DEF ProgramAt, LoopPC
  <2> QED BY <1>0, <2>3, <2>4, <2>5
<1>5. Made'
  BY <1>0, <1>1 DEF Parts, Made
<1>6. WaiterWaits'
  <2>1. SUFFICES ASSUME NEW q \in SockIds, NEW w, w = sock'[q].waiter, w # Nobody PROVE WaitsFor(w, q)'
    BY DEF WaiterWaits, WaitsFor
  <2>2. q # s /\ w = sock[q].waiter /\ WaitsFor(w, q)
    BY <1>1, <2>1 DEF Parts, WaiterWaits
  <2>3. w # sock[s].waiter
    BY <1>3, <2>1, <2>2 DEF WaitsFor
  <2> QED BY <2>2, <2>3 DEF WaitsFor
<1>7. \A u \in DOMAIN tasks : Active(u)' => Active(u)
  BY <1>0 DEF Active
<1>8. (Busy <= Threads)'
  BY <1>7, BusyFewer DEF Parts, Types
<1>9. \A u \in Loops' : /\ u \in Loops /\ tasks[u].kind = "loop" /\ tasks'[u].sock = tasks[u].sock
                        /\ tasks[u].sock \in SockIds
  <2>1. \A u \in DOMAIN tasks : tasks'[u].kind = "loop" => tasks[u].kind = "loop"
    BY <1>0
  <2>2. \A u \in DOMAIN tasks : tasks[u].kind = "loop" => tasks[u].sock \in SockIds
    BY LoopHasSock DEF Parts
  <2> QED BY <1>3, <2>1, <2>2, <1>0 DEF Loops, WaitsFor
<1>10. LoopsListed'
  BY <1>1, <1>9 DEF Parts, LoopsListed, Listed
<1>11. OneGeneration'
  <2>1. running' = running /\ aborted' = aborted /\ ghost' = ghost
    OBVIOUS
  <2>2. CASE ghost.restarted
    BY <2>1, <2>2 DEF OneGeneration
  <2>3. CASE ~ghost.restarted
    <3>1. ~aborted /\ \A t, u \in Loops : tasks[t].sock = tasks[u].sock => t = u
      BY <2>3 DEF Parts, OneGeneration
    <3>2. ASSUME running PROVE \A t \in DOMAIN tasks : tasks'[t].kind = "stop" => tasks'[t].pc = "done"
      BY <1>0, <2>3, <3>2 DEF Parts, OneGeneration, Active
    <3>3. ASSUME running PROVE \A t \in Loops' : sock'[tasks'[t].sock].open
      BY <1>1, <1>9, <2>3, <3>3 DEF Parts, OneGeneration
    <3> QED BY <1>9, <2>1, <3>1, <3>2, <3>3 DEF OneGeneration
  <2> QED BY <2>2, <2>3
<1>12. \A u \in DOMAIN tasks, v \in SockIds : WaitsFor(u, v)' =>
           WaitsFor(u, v) /\ tasks'[u] = tasks[u] /\ u # sock[s].waiter
  BY <1>0 DEF WaitsFor
<1>13. WaitersReachable'
  <2>1. SUFFICES ASSUME NEW u \in Loops', tasks'[u].pc = "wait"
                 PROVE  \/ /\ sock'[tasks'[u].sock].open /\ sock'[tasks'[u].sock].waiter = u
                           /\ \E i \in DOMAIN socks : socks[i] = tasks'[u].sock
                        \/ tasks'[u].gap
                        \/ ghost.failed
    BY DEF WaitersReachable
  <2>2. u \in Loops /\ u # sock[s].waiter /\ tasks'[u] = tasks[u] /\ tasks[u].sock \in SockIds
    BY <1>0, <1>9, <2>1 DEF Loops
  <2> QED BY <1>1, <2>1, <2>2 DEF Parts, WaitersReachable
<1>14. \A u \in DOMAIN tasks : ActiveStop(u)' <=> ActiveStop(u)
  BY <1>0 DEF ActiveStop, Active
<1> QED
  BY <1>2, <1>4, <1>5, <1>6, <1>8, <1>10, <1>11, <1>12, <1>13, <1>14

\* The task of stop() goes on, and may close a socket.
LEMMA StopMoves ==
    ASSUME Parts, NEW t \in DOMAIN tasks, tasks[t].kind = "stop", tasks[t].pc # "done",
           NEW r \in Task, r.kind = "stop", r.at = "cancel", r.pc \in StopPC \ {"queued"}, r.sock >= 1,
           tasks' = [tasks EXCEPT ![t] = r], Active(t) \/ Busy < Threads,
           UNCHANGED <<running, aborted, ghost, used, stuck>>, racy' \in BOOLEAN, socks' \in Seq(SockIds),
           SockKept, \A s \in SockIds : sock'[s].open => sock[s].open
    PROVE  /\ DOMAIN tasks' = DOMAIN tasks
           /\ tasks'[t] = r /\ \A u \in DOMAIN tasks \ {t} : tasks'[u] = tasks[u]
           /\ \A u \in Loops' : u \in Loops /\ tasks'[u] = tasks[u] /\ tasks[u].sock \in SockIds
           /\ Types' /\ Programs' /\ WaiterWaits' /\ (Busy <= Threads)' /\ OneGeneration'
           /\ \A u \in DOMAIN tasks, s \in SockIds : WaitsFor(u, s)' => WaitsFor(u, s) /\ tasks'[u] = tasks[u]
<1>1. /\ tasks' \in Seq(Task) /\ DOMAIN tasks' = DOMAIN tasks /\ tasks \in Seq(Task)
      /\ tasks'[t] = r /\ \A u \in DOMAIN tasks \ {t} : tasks'[u] = tasks[u]
  BY Replaced DEF Parts, Types
<1>2. Types'
  BY <1>1 DEF Parts, Types, SockKept
<1>3. Programs'
  <2>1. SUFFICES ASSUME NEW u \in DOMAIN tasks PROVE ProgramAt(u)'
    BY <1>1 DEF Programs
  <2>2. ProgramAt(u)
    BY DEF Parts, Programs
  <2>3. CASE u = t
    BY <1>1, <2>3 DEF ProgramAt
  <2>4. CASE u # t
    BY <1>1, <2>2, <2>4 DEF ProgramAt, SockKept
  <2> QED BY <2>3, <2>4
<1>4. \A u \in DOMAIN tasks, s \in SockIds : WaitsFor(u, s) <=> WaitsFor(u, s)'
  BY <1>1 DEF WaitsFor
<1>5. WaiterWaits'
  <2>1. SUFFICES ASSUME NEW s \in SockIds, NEW w, w = sock'[s].waiter, w # Nobody PROVE WaitsFor(w, s)'
    BY DEF WaiterWaits, WaitsFor
  <2>2. WaitsFor(w, s) /\ w \in DOMAIN tasks
    BY <2>1 DEF Parts, WaiterWaits, WaitsFor, SockKept
  <2> QED BY <1>4, <2>2
<1>6. (Busy <= Threads)'
  <2>1. CASE Active(t)
    <3>1. \A u \in DOMAIN tasks' : Active(u)' => u \in DOMAIN tasks /\ Active(u)
      BY <1>1, <2>1 DEF Active
    <3> QED BY <1>1, <3>1, BusyFewer DEF Parts, Types
  <2>2. CASE Busy < Threads
    <3>1. \A u \in DOMAIN tasks' : Active(u)' => u = t \/ (u \in DOMAIN tasks /\ Active(u))
      BY <1>1 DEF Active
    <3>2. Busy' \in Nat /\ Busy \in Nat /\ Busy' <= Busy + 1
      BY <1>1, <3>1, BusyOneMore DEF Parts, Types
    <3> QED BY <2>2, <3>2
  <2> QED BY <2>1, <2>2
<1>7. \A u \in Loops' : u \in Loops /\ tasks'[u] = tasks[u] /\ tasks[u].sock \in SockIds
  <2>1. \A u \in DOMAIN tasks : tasks[u].kind = "loop" => tasks[u].sock \in SockIds
    BY LoopHasSock DEF Parts
  <2> QED BY <1>1, <2>1 DEF Loops
<1>8. OneGeneration'
  BY <1>7 DEF Parts, OneGeneration
<1> QED
  BY <1>1, <1>2, <1>3, <1>4, <1>5, <1>6, <1>7, <1>8 DEF WaitsFor

-----------------------------------------------------------------------------
(* One lemma per action: startListen, the kernel and the clients             *)

LEMMA DroppedSocks ==
    ASSUME Types, NEW list \in Seq(SockIds), tasks' \in Seq(Task), socks' = list,
           sock' = Dropped(sock, list, tasks')
    PROVE  /\ SockKept
           /\ \A s \in SockIds : sock'[s].conns = sock[s].conns
           /\ \A s \in SockIds : sock'[s].open => sock[s].open
           /\ \A s \in SockIds : sock[s].open /\ ~sock'[s].open =>
                 /\ \A i \in DOMAIN list : list[i] # s
                 /\ \A u \in DOMAIN tasks' : tasks'[u].kind = "loop" /\ tasks'[u].pc # "done"
                                                => tasks'[u].sock # s
<1>1. sock \in [SockIds -> File]
  BY DEF Types
<1>2. ASSUME NEW s \in SockIds
      PROVE  /\ sock'[s] = IF \/ \E i \in DOMAIN list : list[i] = s
                              \/ \E u \in DOMAIN tasks' : tasks'[u].kind = "loop" /\ tasks'[u].pc # "done"
                                                            /\ tasks'[u].sock = s
                           THEN sock[s] ELSE [sock[s] EXCEPT !.open = FALSE]
             /\ sock[s] \in File
  BY <1>1 DEF Dropped
<1>3. ASSUME NEW s \in SockIds
      PROVE  /\ sock'[s] \in File /\ sock'[s].made = sock[s].made /\ sock'[s].waiter = sock[s].waiter
             /\ sock'[s].conns = sock[s].conns /\ (sock'[s].open => sock[s].open)
  BY <1>2 DEF File
<1>4. sock' = [s \in SockIds |-> sock'[s]]
  BY DEF Dropped
<1>5. sock' \in [SockIds -> File]
  BY <1>3, <1>4
<1> QED
  BY <1>2, <1>3, <1>5 DEF SockKept

LEMMA SockStays ==
    ASSUME Types, sock' = sock
    PROVE  SockKept /\ OnlyUnusedClosed /\ \A s \in SockIds : sock'[s].conns = sock[s].conns
  BY DEF Types, SockKept, OnlyUnusedClosed

LEMMA DispatchKeeps ==
    ASSUME IInv, NEW t, Dispatch(t)
    PROVE  IInv'
<1>1. Counted'
  BY CountedSame DEF IInv, Dispatch, bounds
<1>2. Parts /\ Types /\ SockKept /\ OnlyUnusedClosed /\ t \in DOMAIN tasks /\ ~racy
  BY SockStays DEF IInv, Parts, Dispatch, Here
<1>3. tasks[t].pc = "queued" /\ ProgramAt(t) /\ tasks[t] \in Task
  BY <1>2 DEF Dispatch, Here, Parts, Types, Programs
<1>4. CASE tasks[t].kind = "loop"
  <2>1. tasks[t].at \in LoopPC \ {"wait", "queued"} /\ tasks[t].pc \notin {"wait", "done"}
    BY <1>3, <1>4 DEF ProgramAt, LoopPC
  <2>2. /\ tasks' = Goto(t, tasks[t].at) /\ Busy < Threads /\ racy' = FALSE
        /\ UNCHANGED <<running, socks, ghost, aborted, stuck>>
        /\ used' \in [calls : Nat, clients : 0 .. MaxClients]
    BY <1>2, <1>4 DEF Dispatch, bounds, mtx, Types
  <2> QED BY <1>1, <1>2, <1>4, <2>1, <2>2, LoopMoves DEF IInv
<1>5. CASE tasks[t].kind = "stop"
  <2> DEFINE r == [tasks[t] EXCEPT !.pc = "cancel"]
  <2>1. /\ tasks[t].at = "cancel" /\ tasks[t].sock = 1
        /\ (racy' <=> Stopping) /\ racy' \in BOOLEAN
        /\ Busy < Threads /\ UNCHANGED <<running, socks, aborted, ghost, used, stuck>>
    <3>1. tasks[t].at = "cancel" /\ tasks[t].sock = 1
      BY <1>3, <1>5 DEF ProgramAt
    <3>2. racy' = (tasks[t].kind = "stop" /\ Stopping)
      BY DEF Dispatch
    <3>3. (racy' <=> Stopping) /\ racy' \in BOOLEAN
      BY <1>5, <3>2
    <3>4. Busy < Threads /\ UNCHANGED <<running, socks, aborted, ghost, used, stuck>>
      BY DEF Dispatch, bounds, mtx
    <3> QED BY <3>1, <3>3, <3>4
  <2>2. tasks' = [tasks EXCEPT ![t] = r]
    BY <2>1 DEF Dispatch, Goto
  <2>3. /\ r \in Task /\ r.kind = "stop" /\ r.at = "cancel" /\ r.pc = "cancel" /\ r.sock = 1
    BY <1>3, <1>5, <2>1 DEF Task, StopPC
  <2>4. r.pc \in StopPC \ {"queued"} /\ r.sock >= 1
    BY <2>3 DEF StopPC
  <2>5. socks' \in Seq(SockIds)
    BY <1>2, <2>1 DEF Types
  <2>6. \A s \in SockIds : sock'[s].open => sock[s].open
    BY <1>2 DEF OnlyUnusedClosed
  <2> HIDE DEF r
  <2>7. /\ DOMAIN tasks' = DOMAIN tasks
        /\ tasks'[t] = r /\ \A u \in DOMAIN tasks \ {t} : tasks'[u] = tasks[u]
        /\ \A u \in Loops' : u \in Loops /\ tasks'[u] = tasks[u] /\ tasks[u].sock \in SockIds
        /\ Types' /\ Programs' /\ WaiterWaits' /\ (Busy <= Threads)' /\ OneGeneration'
    BY <1>2, <1>3, <1>5, <2>1, <2>2, <2>3, <2>4, <2>5, <2>6, StopMoves
  <2>8. Made' /\ LoopsListed' /\ WaitersReachable'
    <3>1. sock' = sock /\ socks' = socks /\ ghost' = ghost
      BY <2>1 DEF Dispatch
    <3>2. Made'
      BY <1>2, <3>1 DEF Parts, Made
    <3>3. LoopsListed'
      BY <1>2, <2>7, <3>1 DEF Parts, LoopsListed, Listed
    <3>4. WaitersReachable'
      BY <1>2, <2>7, <3>1 DEF Parts, WaitersReachable
    <3> QED BY <3>2, <3>3, <3>4
  <2>9. Walk'
    <3>1. SUFFICES ASSUME ~Stopping PROVE Walk'
      BY <2>1 DEF Walk
    <3>2. \A u \in DOMAIN tasks : ActiveStop(u)' => u = t
      BY <2>7, <3>1 DEF ActiveStop, Active, Stopping
    <3>3. WalkAt(t)'
      <4>1. \A i \in DOMAIN socks : ~(i < 1)
        BY <1>2 DEF Types
      <4> QED BY <2>1, <2>3, <2>7, <4>1 DEF WalkAt
    <3>4. Stopping'
      BY <1>2, <2>3, <2>7 DEF Stopping, Active
    <3> QED BY <2>7, <3>2, <3>3, <3>4 DEF Walk
  <2> QED BY <1>1, <2>7, <2>8, <2>9 DEF IInv, Parts
<1> QED
  BY <1>3, <1>4, <1>5 DEF ProgramAt

LEMMA CheckKeeps ==
    ASSUME IInv, NEW t, Check(t)
    PROVE  IInv'
<1> DEFINE p == IF running THEN "accept" ELSE "done"
<1>1. Parts /\ Types /\ t \in DOMAIN tasks /\ ~racy /\ tasks[t].pc = "check" /\ ProgramAt(t)
  BY DEF IInv, Parts, Check, Here, Programs
<1>2. p \in LoopPC \ {"wait", "queued"} /\ p \in LoopPC \cup StopPC
  BY DEF LoopPC
<1>3. /\ tasks' = Goto(t, p) /\ UNCHANGED <<running, socks, ghost, aborted, handlers, used, stuck>>
      /\ racy' = racy /\ sock' = Dropped(sock, socks, tasks')
  BY DEF Check, bounds
<1> HIDE DEF p
<1>4. tasks' \in Seq(Task) /\ socks \in Seq(SockIds)
  BY <1>1, <1>2, <1>3, GoneTo DEF Types
<1>5. /\ SockKept /\ \A s \in SockIds : sock'[s].conns = sock[s].conns
      /\ \A s \in SockIds : sock'[s].open => sock[s].open
      /\ \A s \in SockIds : sock[s].open /\ ~sock'[s].open =>
            /\ \A i \in DOMAIN socks : socks[i] # s
            /\ \A u \in DOMAIN tasks' : tasks'[u].kind = "loop" /\ tasks'[u].pc # "done"
                                           => tasks'[u].sock # s
  BY <1>1, <1>3, <1>4, DroppedSocks
<1>6. OnlyUnusedClosed
  BY <1>5 DEF OnlyUnusedClosed, Listed
<1>7. Counted'
  BY <1>3, <1>5, CountedSame DEF IInv
<1>8. /\ tasks[t].kind = "loop" /\ tasks[t].pc \notin {"wait", "done"} /\ Active(t)
      /\ used' \in [calls : Nat, clients : 0 .. MaxClients] /\ racy' = FALSE
  <2>1. tasks[t].kind = "loop" /\ tasks[t].pc \notin {"wait", "done"} /\ Active(t)
    BY <1>1 DEF ProgramAt, StopPC, Active
  <2>2. used' \in [calls : Nat, clients : 0 .. MaxClients] /\ racy' = FALSE
    BY <1>1, <1>3 DEF Types
  <2> QED BY <2>1, <2>2
<1>9. Parts'
  BY <1>1, <1>2, <1>3, <1>5, <1>6, <1>8, LoopMoves
<1> QED
  BY <1>7, <1>9 DEF IInv

LEMMA AcceptKeeps ==
    ASSUME IInv, NEW t, Accept(t)
    PROVE  IInv'
<1> DEFINE s == tasks[t].sock
<1>1. /\ Parts /\ Types /\ Counted /\ t \in DOMAIN tasks /\ racy = FALSE /\ tasks[t].pc = "accept"
      /\ ProgramAt(t) /\ UNCHANGED <<running, socks, ghost, aborted, racy, stuck, used>>
  <2>1. Parts /\ Types /\ Counted /\ Programs
    BY DEF IInv, Parts
  <2>2. t \in DOMAIN tasks /\ ~racy /\ tasks[t].pc = "accept" /\ UNCHANGED <<running, socks, ghost, aborted, racy, stuck, used>>
    BY DEF Accept, Here, bounds, mtx
  <2>3. racy = FALSE
    BY <2>1, <2>2 DEF Types
  <2> QED BY <2>1, <2>2, <2>3 DEF Programs
<1>2. /\ tasks[t].kind = "loop" /\ tasks[t].pc \notin {"wait", "done"} /\ Active(t)
      /\ s \in SockIds
  BY <1>1 DEF ProgramAt, StopPC, Active
<1>3. sock \in [SockIds -> File] /\ used \in [calls : Nat, clients : 0 .. MaxClients]
  BY <1>1 DEF Types
<1>4. "check" \in LoopPC \ {"wait", "queued"} /\ "lock" \in LoopPC \ {"wait", "queued"}
  BY DEF LoopPC
<1>5. \/ tasks' = Goto(t, "check") \/ tasks' = Goto(t, "lock")
  BY DEF Accept
<1>6. CASE sock' = sock /\ handlers' = handlers
  <2>1. SockKept /\ OnlyUnusedClosed /\ \A q \in SockIds : sock'[q].conns = sock[q].conns
    BY <1>1, <1>6, SockStays
  <2>2. used' \in [calls : Nat, clients : 0 .. MaxClients] /\ used'.clients = used.clients
    BY <1>1, <1>3
  <2>3. Counted'
    BY <1>1, <1>6, <2>1, <2>2, CountedSame
  <2>4. Parts'
    BY <1>1, <1>2, <1>4, <1>5, <2>1, <2>2, LoopMoves
  <2> QED BY <2>3, <2>4 DEF IInv
<1>7. CASE /\ sock[s].conns > 0 /\ sock' = [sock EXCEPT ![s].conns = @ - 1]
           /\ handlers' = handlers + 1 \/ handlers' = handlers
  <2>0. sock[s] \in File /\ sock[s].conns - 1 \in Nat
    <3>1. sock[s] \in File
      BY <1>2, <1>3
    <3>2. sock[s].conns \in Nat
      BY <3>1 DEF File
    <3> QED BY <1>7, <3>1, <3>2
  <2>1. /\ sock' \in [SockIds -> File]
        /\ \A q \in SockIds : /\ sock'[q].made = sock[q].made /\ sock'[q].waiter = sock[q].waiter
                              /\ sock'[q].open = sock[q].open
                              /\ sock'[q].conns = IF q = s THEN sock[q].conns - 1 ELSE sock[q].conns
    BY <1>2, <1>3, <1>7, <2>0 DEF File
  <2>2. SockKept /\ OnlyUnusedClosed
    BY <2>1 DEF SockKept, OnlyUnusedClosed
  <2>3. used' \in [calls : Nat, clients : 0 .. MaxClients] /\ used'.clients = used.clients
    BY <1>1, <1>3
  <2>4. Counted'
    BY <1>1, <1>2, <1>7, <2>1, <2>3, CountedMoved
  <2>5. Parts'
    BY <1>1, <1>2, <1>4, <1>5, <2>2, <2>3, LoopMoves
  <2> QED BY <2>4, <2>5 DEF IInv
<1> QED
  BY <1>6, <1>7 DEF Accept

LEMMA ConnectKeeps ==
    ASSUME IInv, NEW s \in SockIds, Connect(s)
    PROVE  IInv'
<1>1. /\ Parts /\ Types /\ Counted /\ UNCHANGED <<running, socks, tasks, handlers, aborted, racy, ghost, stuck>>
      /\ sock' = [sock EXCEPT ![s].conns = @ + 1] /\ used' = [used EXCEPT !.clients = @ + 1]
      /\ used.clients < MaxClients
  BY DEF IInv, Parts, Connect, mtx
<1>2. /\ sock \in [SockIds -> File] /\ used \in [calls : Nat, clients : 0 .. MaxClients]
      /\ aborted' \in BOOLEAN /\ racy' \in BOOLEAN /\ sock[s] \in File
  BY <1>1 DEF Types
<1>3. /\ used' \in [calls : Nat, clients : 0 .. MaxClients]
      /\ used'.clients = used.clients + 1
  BY <1>1, <1>2
<1>4. /\ sock' \in [SockIds -> File]
      /\ \A q \in SockIds : /\ sock'[q].made = sock[q].made /\ sock'[q].waiter = sock[q].waiter
                            /\ sock'[q].open = sock[q].open
                            /\ sock'[q].conns = IF q = s THEN sock[q].conns + 1 ELSE sock[q].conns
  <2>1. sock[s].conns \in Nat
    BY <1>2 DEF File
  <2>2. sock[s].conns + 1 \in Nat
    BY <2>1
  <2> QED BY <1>1, <1>2, <2>2 DEF File
<1>5. Counted'
  BY <1>1, <1>3, <1>4, CountedMore
<1>6. Parts'
  BY <1>1, <1>2, <1>3, <1>4, TasksStay DEF SockKept
<1> QED
  BY <1>5, <1>6 DEF IInv

LEMMA HandleClientKeeps ==
    ASSUME IInv, HandleClient
    PROVE  IInv'
<1>1. /\ Parts /\ Types /\ Counted /\ handlers > 0 /\ handlers' = handlers - 1
      /\ UNCHANGED <<running, socks, sock, tasks, aborted, racy, ghost, used>>
      /\ Busy < Threads /\ (stuck' = stuck \/ stuck' = stuck + 1)
  BY DEF IInv, Parts, HandleClient, bounds
<1>2. Counted'
  <2>1. PICK total \in [0 .. MaxSocks -> Nat] :
           /\ total[0] = 0 /\ \A k \in SockIds : total[k] = total[k - 1] + sock[k].conns
           /\ \A j, k \in 0 .. MaxSocks : j <= k => total[j] <= total[k]
           /\ handlers + total[MaxSocks] <= used.clients
    BY <1>1 DEF Counted
  <2>2. total[MaxSocks] \in Nat /\ used.clients \in Nat /\ handlers \in Nat
    BY <1>1, <2>1 DEF Counted, Types
  <2>3. handlers' \in Nat /\ handlers' + total[MaxSocks] <= used'.clients
    BY <1>1, <2>1, <2>2
  <2> QED BY <1>1, <2>1, <2>3 DEF Counted
<1>3. Parts'
  <2>1. SockKept /\ \A s \in SockIds : sock'[s].open = sock[s].open
    BY <1>1 DEF SockKept, Types
  <2>2. /\ used' \in [calls : Nat, clients : 0 .. MaxClients]
        /\ aborted' \in BOOLEAN /\ racy' \in BOOLEAN
    BY <1>1 DEF Types
  <2> QED BY <1>1, <2>1, <2>2, TasksStay
<1> QED
  BY <1>2, <1>3 DEF IInv

LEMMA TriggerKeeps ==
    ASSUME IInv, NEW s \in SockIds, Trigger(s)
    PROVE  IInv'
<1>1. /\ Parts /\ Types /\ WaiterWaits /\ tasks' = Woken(tasks, s)
      /\ sock' = [sock EXCEPT ![s].waiter = Nobody]
      /\ UNCHANGED <<running, socks, handlers, aborted, racy, ghost, used, stuck>>
  BY DEF IInv, Parts, Trigger, bounds, mtx
<1>2. /\ tasks' \in Seq(Task) /\ DOMAIN tasks' = DOMAIN tasks
      /\ \A u \in DOMAIN tasks : u # sock[s].waiter => tasks'[u] = tasks[u]
      /\ sock[s].waiter # Nobody =>
            /\ sock[s].waiter \in DOMAIN tasks
            /\ tasks'[sock[s].waiter].kind = "loop" /\ tasks'[sock[s].waiter].pc = "queued"
            /\ tasks'[sock[s].waiter].sock = s /\ tasks'[sock[s].waiter].at = "accept"
  BY <1>1, WokenTasks
<1>3. \A u \in DOMAIN tasks : tasks[u].kind = "stop" => u # sock[s].waiter /\ tasks'[u] = tasks[u]
  <2>1. \A u \in DOMAIN tasks : u # Nobody
    BY <1>1 DEF Types
  <2> QED BY <1>1, <1>2, <2>1 DEF WaiterWaits, WaitsFor
<1>4. /\ Types' /\ Programs' /\ Made' /\ WaiterWaits' /\ (Busy <= Threads)'
      /\ LoopsListed' /\ OneGeneration' /\ WaitersReachable'
      /\ \A u \in DOMAIN tasks, v \in SockIds : WaitsFor(u, v)' =>
             WaitsFor(u, v) /\ tasks'[u] = tasks[u] /\ u # sock[s].waiter
      /\ \A u \in DOMAIN tasks : ActiveStop(u)' <=> ActiveStop(u)
  BY <1>1, <1>2, <1>3, Wakes
<1>5. \A q \in SockIds : sock'[q].open = sock[q].open /\ sock'[q].conns = sock[q].conns
  BY <1>1 DEF Types, File
<1>6. Walk'
  <2>1. \A i \in DOMAIN socks : socks[i] \in SockIds
    BY <1>1 DEF Types
  <2>2. ASSUME NEW u \in DOMAIN tasks, ActiveStop(u), ~racy PROVE WalkAt(u)'
    <3>1. WalkAt(u) /\ tasks'[u] = tasks[u] /\ tasks[u].sock \in Nat /\ tasks[u].sock >= 1
      BY <1>1, <1>3, <2>2, StopHasPlace DEF Parts, Walk, ActiveStop
    <3>2. tasks[u].pc = "closef" => socks[tasks[u].sock] \in SockIds
      BY <1>1, <3>1, ClosesListed
    <3> QED BY <1>1, <1>2, <1>4, <1>5, <2>1, <3>1, <3>2 DEF WalkAt
  <2>3. Stopping => Stopping'
    BY <1>2, <1>3 DEF Stopping, Active
  <2> QED BY <1>1, <1>2, <1>4, <1>5, <2>1, <2>2, <2>3 DEF Parts, Walk
<1>7. Counted'
  BY <1>1, <1>5, CountedSame DEF IInv
<1> QED
  BY <1>4, <1>6, <1>7 DEF IInv, Parts

LEMMA LockKeeps ==
    ASSUME IInv, NEW t, Lock(t)
    PROVE  IInv'
<1>1. /\ Parts /\ Types /\ Counted /\ t \in DOMAIN tasks /\ racy = FALSE
      /\ tasks[t].pc = "lock" /\ ProgramAt(t) /\ tasks' = Goto(t, "register")
      /\ UNCHANGED <<running, socks, sock, handlers, racy, aborted, used, ghost, stuck>>
  <2>1. Parts /\ Types /\ Counted /\ Programs
    BY DEF IInv, Parts
  <2>2. /\ t \in DOMAIN tasks /\ ~racy /\ tasks[t].pc = "lock" /\ tasks' = Goto(t, "register")
        /\ UNCHANGED <<running, socks, sock, handlers, racy, aborted, used, ghost, stuck>>
    BY DEF Lock, Here, bounds, mtx
  <2>3. racy = FALSE
    BY <2>1, <2>2 DEF Types
  <2> QED BY <2>1, <2>2, <2>3 DEF Programs
<1>2. tasks[t].kind = "loop" /\ tasks[t].pc \notin {"wait", "done"} /\ Active(t)
  BY <1>1 DEF ProgramAt, StopPC, Active
<1>3. used' \in [calls : Nat, clients : 0 .. MaxClients]
  BY <1>1 DEF Types
<1>4. SockKept /\ OnlyUnusedClosed /\ \A q \in SockIds : sock'[q].conns = sock[q].conns
  BY <1>1, SockStays
<1>5. "register" \in LoopPC \ {"wait", "queued"}
  BY DEF LoopPC
<1>6. Counted'
  BY <1>1, <1>4, CountedSame
<1>7. Parts'
  BY <1>1, <1>2, <1>3, <1>4, <1>5, LoopMoves
<1> QED
  BY <1>6, <1>7 DEF IInv

LEMMA RegisterKeeps ==
    ASSUME IInv, NEW t, Register(t)
    PROVE  IInv'
<1> DEFINE s == tasks[t].sock
<1>1. /\ Parts /\ Types /\ Counted /\ WaiterWaits /\ t \in DOMAIN tasks /\ racy = FALSE
      /\ tasks[t].pc = "register" /\ ProgramAt(t)
      /\ UNCHANGED <<running, socks, handlers, racy, used, ghost, stuck>>
  <2>1. Parts /\ Types /\ Counted /\ Programs /\ WaiterWaits
    BY DEF IInv, Parts
  <2>2. /\ t \in DOMAIN tasks /\ ~racy /\ tasks[t].pc = "register"
        /\ UNCHANGED <<running, socks, handlers, racy, used, ghost, stuck>>
    BY DEF Register, Here, bounds, mtx
  <2>3. racy = FALSE
    BY <2>1, <2>2 DEF Types
  <2> QED BY <2>1, <2>2, <2>3 DEF Programs
<1>2. /\ tasks[t].kind = "loop" /\ tasks[t].pc \notin {"wait", "done"} /\ Active(t)
      /\ s \in SockIds
  BY <1>1 DEF ProgramAt, StopPC, Active
<1>3. /\ sock \in [SockIds -> File] /\ tasks \in Seq(Task) /\ tasks[t] \in Task /\ t # Nobody
      /\ used' \in [calls : Nat, clients : 0 .. MaxClients]
  BY <1>1 DEF Types
<1>4. CASE tasks' = Goto(t, "check") /\ sock' = sock /\ aborted' = aborted
  <2>1. SockKept /\ OnlyUnusedClosed /\ \A q \in SockIds : sock'[q].conns = sock[q].conns
    BY <1>1, <1>4, SockStays
  <2>2. "check" \in LoopPC \ {"wait", "queued"}
    BY DEF LoopPC
  <2>3. Counted'
    BY <1>1, <2>1, CountedSame
  <2>4. Parts'
    BY <1>1, <1>2, <1>3, <1>4, <2>1, <2>2, LoopMoves
  <2> QED BY <2>3, <2>4 DEF IInv
<1>5. CASE sock[s].waiter # Nobody /\ aborted' = TRUE /\ UNCHANGED <<tasks, sock>>
  <2>1. ghost.restarted
    <3>1. /\ WaitsFor(sock[s].waiter, s) /\ sock[s].waiter # t
      BY <1>1, <1>2, <1>5 DEF WaiterWaits, WaitsFor
    <3>2. t \in Loops /\ sock[s].waiter \in Loops
      BY <1>1, <1>2, <3>1 DEF Loops, WaitsFor
    <3> QED BY <1>1, <3>1, <3>2 DEF Parts, OneGeneration, WaitsFor
  <2>2. SockKept /\ \A q \in SockIds : sock'[q].open = sock[q].open /\ sock'[q].conns = sock[q].conns
    BY <1>3, <1>5 DEF SockKept
  <2>3. Parts'
    BY <1>1, <1>3, <1>5, <2>1, <2>2, TasksStay
  <2>4. Counted'
    BY <1>1, <2>2, CountedSame
  <2> QED BY <2>3, <2>4 DEF IInv
<1>6. CASE /\ sock[s].open /\ sock[s].waiter = Nobody
           /\ sock' = [sock EXCEPT ![s].waiter = t]
           /\ tasks' = [tasks EXCEPT ![t].pc = "wait", ![t].gap =
                  \E u \in DOMAIN tasks : tasks[u].pc = "closef" /\ socks[tasks[u].sock] = s]
           /\ aborted' = aborted
  <2> DEFINE G == \E u \in DOMAIN tasks : tasks[u].pc = "closef" /\ socks[tasks[u].sock] = s
             r == [tasks[t] EXCEPT !.pc = "wait", !.gap = G]
  <2>1. r \in Task /\ r.kind = "loop" /\ r.pc = "wait" /\ r.sock = s /\ r.at = tasks[t].at /\ r.gap = G
    <3>1. G \in BOOLEAN
      OBVIOUS
    <3> HIDE DEF G
    <3> QED BY <1>2, <1>3, <3>1 DEF Task, LoopPC
  <2>2. tasks' = [tasks EXCEPT ![t] = r]
    BY <1>6
  <2> HIDE DEF r
  <2>3. /\ tasks' \in Seq(Task) /\ DOMAIN tasks' = DOMAIN tasks /\ tasks'[t] = r
        /\ \A u \in DOMAIN tasks \ {t} : tasks'[u] = tasks[u]
    BY <1>1, <1>3, <2>1, <2>2, Replaced
  <2>4. /\ sock' \in [SockIds -> File]
        /\ \A q \in SockIds : /\ sock'[q].made = sock[q].made /\ sock'[q].conns = sock[q].conns
                              /\ sock'[q].open = sock[q].open
                              /\ sock'[q].waiter = IF q = s THEN t ELSE sock[q].waiter
    <3>1. t \in Nat
      BY <1>1, <1>3
    <3> QED BY <1>2, <1>3, <1>6, <3>1 DEF File
  <2> HIDE DEF s
  <2>5. Counted'
    BY <1>1, <2>4, CountedSame
  <2>6. Types'
    BY <1>1, <1>6, <2>3, <2>4 DEF Types
  <2>7. Programs'
    <3>1. SUFFICES ASSUME NEW u \in DOMAIN tasks PROVE ProgramAt(u)'
      BY <2>3 DEF Programs
    <3>2. ProgramAt(u)
      BY <1>1 DEF Parts, Programs
    <3>3. CASE u = t
      BY <1>1, <1>2, <2>1, <2>3, <2>4, <3>3 DEF ProgramAt, LoopPC, s
    <3>4. CASE u # t
      BY <2>3, <2>4, <3>2, <3>4 DEF ProgramAt
    <3> QED BY <3>3, <3>4
  <2>8. Made'
    <3>1. \A i \in DOMAIN socks : socks[i] \in SockIds
      BY <1>1 DEF Types
    <3> QED BY <1>1, <2>4, <3>1 DEF Parts, Made
  <2>9. WaiterWaits'
    <3>1. SUFFICES ASSUME NEW q \in SockIds, NEW w, w = sock'[q].waiter, w # Nobody PROVE WaitsFor(w, q)'
      BY DEF WaiterWaits, WaitsFor
    <3>2. CASE q = s
      BY <1>1, <2>1, <2>3, <2>4, <3>1, <3>2 DEF WaitsFor
    <3>3. CASE q # s
      <4>1. WaitsFor(w, q)
        BY <1>1, <2>4, <3>1, <3>3 DEF WaiterWaits
      <4> QED BY <1>1, <2>3, <4>1 DEF WaitsFor
    <3> QED BY <3>2, <3>3
  <2>10. (Busy <= Threads)'
    <3>1. \A u \in DOMAIN tasks' : Active(u)' => u \in DOMAIN tasks /\ Active(u)
      BY <2>1, <2>3 DEF Active
    <3> QED BY <1>1, <1>3, <2>3, <3>1, BusyFewer DEF Parts, Types
  <2>11. \A u \in Loops' : u \in Loops /\ tasks'[u].sock = tasks[u].sock /\ tasks[u].sock \in SockIds
    <3>1. \A u \in DOMAIN tasks : tasks[u].kind = "loop" => tasks[u].sock \in SockIds
      BY <1>1, LoopHasSock DEF Parts
    <3> QED BY <1>1, <1>2, <2>1, <2>3, <3>1 DEF Loops, s
  <2>12. LoopsListed'
    BY <1>1, <2>4, <2>11 DEF Parts, LoopsListed, Listed
  <2>13. OneGeneration'
    <3>1. \A u \in DOMAIN tasks : tasks'[u].kind = "stop" => tasks'[u] = tasks[u]
      BY <2>1, <2>3
    <3>2. running' = running /\ aborted' = aborted /\ ghost' = ghost
      BY <1>1, <1>6
    <3>3. \A u \in Loops' : sock'[tasks'[u].sock].open = sock[tasks[u].sock].open
      BY <2>4, <2>11
    <3> QED BY <1>1, <2>3, <2>11, <3>1, <3>2, <3>3 DEF Parts, OneGeneration
  <2>14. WaitersReachable'
    <3>1. SUFFICES ASSUME NEW u \in Loops', tasks'[u].pc = "wait"
                   PROVE  \/ /\ sock'[tasks'[u].sock].open /\ sock'[tasks'[u].sock].waiter = u
                             /\ \E i \in DOMAIN socks : socks[i] = tasks'[u].sock
                          \/ tasks'[u].gap
                          \/ ghost.failed
      BY <1>1 DEF WaitersReachable
    <3>2. CASE u = t
      <4>1. tasks'[t].sock = s /\ tasks[t].sock = s /\ sock'[s].open /\ sock'[s].waiter = t /\ t \in Loops
        BY <1>2, <1>6, <2>1, <2>3, <2>4, <2>11, <3>1, <3>2 DEF s
      <4>2. ghost.failed \/ \E i \in DOMAIN socks : socks[i] = s
        BY <1>1, <1>6, <4>1 DEF Parts, LoopsListed, Listed
      <4> QED BY <3>2, <4>1, <4>2
    <3>3. CASE u # t
      <4>1. tasks'[u] = tasks[u] /\ u # Nobody
        BY <1>1, <2>3, <3>1, <3>3 DEF Loops, Types
      <4>2. u \in Loops /\ tasks[u].pc = "wait" /\ tasks[u].sock \in SockIds
        BY <2>11, <3>1, <4>1
      <4>3. \/ /\ sock[tasks[u].sock].open /\ sock[tasks[u].sock].waiter = u
               /\ \E i \in DOMAIN socks : socks[i] = tasks[u].sock
            \/ tasks[u].gap
            \/ ghost.failed
        BY <1>1, <4>2 DEF Parts, WaitersReachable
      <4>4. tasks[u].sock = s => sock[tasks[u].sock].waiter # u
        BY <1>6, <4>1
      <4> QED BY <2>4, <4>1, <4>2, <4>3, <4>4
    <3> QED BY <3>2, <3>3
  <2>15. Walk'
    <3>1. \A i \in DOMAIN socks : socks[i] \in SockIds
      BY <1>1 DEF Types
    <3>2. \A u \in DOMAIN tasks : /\ ActiveStop(u)' <=> ActiveStop(u)
                                  /\ ActiveStop(u) => tasks'[u] = tasks[u]
      BY <1>2, <2>1, <2>3 DEF ActiveStop, Active
    <3>3. ASSUME NEW u \in DOMAIN tasks, ActiveStop(u) PROVE WalkAt(u)'
      <4>1. WalkAt(u) /\ tasks'[u] = tasks[u] /\ tasks[u].sock \in Nat /\ tasks[u].sock >= 1
        BY <1>1, <3>2, <3>3, StopHasPlace DEF Parts, Walk, ActiveStop
      <4>2. tasks[u].pc = "closef" => socks[tasks[u].sock] \in SockIds
        BY <1>1, <4>1 DEF WalkAt, Types
      <4>3. ASSUME tasks[u].pc = "closef", NEW v \in DOMAIN tasks, WaitsFor(v, socks[tasks[u].sock])'
            PROVE  tasks'[v].gap \/ ghost.failed
        <5>1. tasks'[v].kind = "loop" /\ tasks'[v].pc = "wait" /\ tasks'[v].sock = socks[tasks[u].sock]
          BY <1>1, <4>1, <4>3 DEF WaitsFor
        <5>2. CASE v = t
          <6>1. G
            BY <2>1, <2>3, <4>3, <5>1, <5>2
          <6> QED BY <2>1, <2>3, <5>2, <6>1
        <5>3. CASE v # t
          <6>1. WaitsFor(v, socks[tasks[u].sock]) /\ tasks'[v] = tasks[v]
            BY <2>3, <5>1, <5>3 DEF WaitsFor
          <6> QED BY <4>1, <4>3, <6>1 DEF WalkAt
        <5> QED BY <5>2, <5>3
      <4>4. \A i \in DOMAIN socks : sock'[socks[i]].open = sock[socks[i]].open
        BY <2>4, <3>1
      <4> QED BY <1>1, <2>3, <4>1, <4>3, <4>4 DEF WalkAt, WaitsFor
    <3>4. Stopping => Stopping'
      BY <1>2, <2>3 DEF Stopping, Active
    <3> QED BY <1>1, <2>3, <2>4, <3>1, <3>2, <3>3, <3>4 DEF Parts, Walk
  <2> QED BY <2>5, <2>6, <2>7, <2>8, <2>9, <2>10, <2>12, <2>13, <2>14, <2>15 DEF IInv, Parts
<1> QED
  BY <1>4, <1>5, <1>6 DEF Register

-----------------------------------------------------------------------------
(* The task of stop()                                                        *)

\* Where a stop task under way stands.
LEMMA InWalk ==
    ASSUME IInv, NEW t, NEW pc \in {"cancel", "close", "closef"}, Here(t, pc)
    PROVE  /\ Parts /\ Types /\ WaiterWaits /\ t \in DOMAIN tasks /\ racy = FALSE /\ tasks[t].pc = pc
           /\ tasks[t] \in Task /\ tasks[t].kind = "stop" /\ tasks[t].at = "cancel"
           /\ tasks[t].sock \in Nat /\ tasks[t].sock >= 1
           /\ Active(t) /\ WalkAt(t) /\ \A u \in DOMAIN tasks : ActiveStop(u) => u = t
<1>1. Parts /\ Types /\ WaiterWaits /\ Programs /\ Walk
  BY DEF IInv, Parts
<1>2. t \in DOMAIN tasks /\ ~racy /\ tasks[t].pc = pc
  BY DEF Here
<1>3. tasks[t] \in Task /\ racy = FALSE
  BY <1>1, <1>2 DEF Types
<1>4. tasks[t].kind = "stop" /\ tasks[t].at = "cancel"
  BY <1>1, <1>2 DEF Programs, ProgramAt, LoopPC
<1>5. Active(t)
  BY <1>2 DEF Active
<1>6. WalkAt(t) /\ \A u \in DOMAIN tasks : ActiveStop(u) => u = t
  BY <1>1, <1>2, <1>4, <1>5 DEF Walk, ActiveStop
<1> QED
  BY <1>1, <1>2, <1>3, <1>4, <1>5, <1>6, StopHasPlace

\* A stop task wakes the waiter of s and goes on.
LEMMA WokenGoes ==
    ASSUME Types, WaiterWaits, NEW s \in SockIds, NEW t \in DOMAIN tasks, tasks[t].kind = "stop",
           NEW p \in {"close", "closef"}, tasks' = [Woken(tasks, s) EXCEPT ![t].pc = p]
    PROVE  /\ tasks' \in Seq(Task) /\ DOMAIN tasks' = DOMAIN tasks
           /\ \A u \in DOMAIN tasks : u # sock[s].waiter /\ u # t => tasks'[u] = tasks[u]
           /\ sock[s].waiter # Nobody =>
                 /\ tasks'[sock[s].waiter].kind = "loop" /\ tasks'[sock[s].waiter].pc = "queued"
                 /\ tasks'[sock[s].waiter].sock = s /\ tasks'[sock[s].waiter].at = "accept"
           /\ tasks'[t].kind = "stop" /\ tasks'[t].pc = p /\ tasks'[t].at = tasks[t].at
           /\ tasks'[t].sock = tasks[t].sock
           /\ \A u \in DOMAIN tasks : tasks[u].kind = "stop" => u # sock[s].waiter
<1>1. tasks \in Seq(Task) /\ \A u \in DOMAIN tasks : u # Nobody
  BY DEF Types
<1>2. \A u \in DOMAIN tasks : tasks[u].kind = "stop" => u # sock[s].waiter
  BY <1>1 DEF WaiterWaits, WaitsFor
<1> DEFINE w == Woken(tasks, s)
           r == [w[t] EXCEPT !.pc = p]
<1>3. /\ w \in Seq(Task) /\ DOMAIN w = DOMAIN tasks
      /\ \A u \in DOMAIN tasks : u # sock[s].waiter => w[u] = tasks[u]
      /\ sock[s].waiter # Nobody =>
            /\ sock[s].waiter \in DOMAIN tasks
            /\ w[sock[s].waiter].kind = "loop" /\ w[sock[s].waiter].pc = "queued"
            /\ w[sock[s].waiter].sock = s /\ w[sock[s].waiter].at = "accept"
  BY WokenTasks
<1>4. w[t] = tasks[t] /\ tasks[t] \in Task
  BY <1>1, <1>2, <1>3
<1>5. tasks' = [w EXCEPT ![t] = r]
  OBVIOUS
<1>6. /\ r \in Task /\ r.kind = "stop" /\ r.pc = p /\ r.at = tasks[t].at /\ r.sock = tasks[t].sock
  BY <1>4 DEF Task, StopPC
<1> HIDE DEF r, w
<1>7. /\ tasks' \in Seq(Task) /\ DOMAIN tasks' = DOMAIN tasks /\ tasks'[t] = r
      /\ \A u \in DOMAIN tasks : u # t => tasks'[u] = w[u]
  <2>1. /\ [w EXCEPT ![t] = r] \in Seq(Task) /\ DOMAIN [w EXCEPT ![t] = r] = DOMAIN w
        /\ \A u \in DOMAIN w : [w EXCEPT ![t] = r][u] = IF u = t THEN r ELSE w[u]
    BY <1>3, <1>6, Replaced
  <2> QED BY <1>3, <1>5, <2>1
<1> QED
  BY <1>2, <1>3, <1>6, <1>7

\* Waking goes on to the next statement of the stop task (Cancel and Close).
LEMMA WalkWakes ==
    ASSUME IInv, NEW t, NEW pc \in {"cancel", "close"}, Here(t, pc), NEW p \in {"close", "closef"},
           NEW s \in SockIds, tasks[t].sock \in DOMAIN socks, s = socks[tasks[t].sock],
           tasks' = [Woken(tasks, s) EXCEPT ![t].pc = p],
           sock' = [sock EXCEPT ![s].waiter = Nobody],
           UNCHANGED <<running, socks, handlers, aborted, racy, ghost, used, stuck>>
    PROVE  IInv'
<1>1. /\ Parts /\ Types /\ WaiterWaits /\ t \in DOMAIN tasks /\ racy = FALSE /\ tasks[t].pc = pc
      /\ tasks[t] \in Task /\ tasks[t].kind = "stop" /\ tasks[t].at = "cancel"
      /\ tasks[t].sock \in Nat /\ tasks[t].sock >= 1
      /\ Active(t) /\ WalkAt(t) /\ \A u \in DOMAIN tasks : ActiveStop(u) => u = t
  BY InWalk
<1>2. /\ tasks' \in Seq(Task) /\ DOMAIN tasks' = DOMAIN tasks
      /\ \A u \in DOMAIN tasks : u # sock[s].waiter /\ u # t => tasks'[u] = tasks[u]
      /\ sock[s].waiter # Nobody =>
            /\ tasks'[sock[s].waiter].kind = "loop" /\ tasks'[sock[s].waiter].pc = "queued"
            /\ tasks'[sock[s].waiter].sock = s /\ tasks'[sock[s].waiter].at = "accept"
      /\ tasks'[t].kind = "stop" /\ tasks'[t].pc = p /\ tasks'[t].at = tasks[t].at
      /\ tasks'[t].sock = tasks[t].sock
      /\ \A u \in DOMAIN tasks : tasks[u].kind = "stop" => u # sock[s].waiter
  <2>1. Types /\ WaiterWaits /\ t \in DOMAIN tasks /\ tasks[t].kind = "stop"
    BY <1>1
  <2> QED BY <2>1, WokenGoes
<1>3. /\ \A u \in DOMAIN tasks : tasks[u].kind = "loop" /\ u # sock[s].waiter => tasks'[u] = tasks[u]
      /\ \A u \in DOMAIN tasks : tasks[u].kind = "stop" =>
            /\ tasks'[u].kind = "stop" /\ tasks'[u].at = tasks[u].at /\ tasks'[u].sock = tasks[u].sock
            /\ tasks'[u].pc = tasks[u].pc \/ (Active(u) /\ tasks'[u].pc \in {"close", "closef"})
  BY <1>1, <1>2
<1>4. /\ Types' /\ Programs' /\ Made' /\ WaiterWaits' /\ (Busy <= Threads)'
      /\ LoopsListed' /\ OneGeneration' /\ WaitersReachable'
      /\ \A u \in DOMAIN tasks, v \in SockIds : WaitsFor(u, v)' =>
             WaitsFor(u, v) /\ tasks'[u] = tasks[u] /\ u # sock[s].waiter
      /\ \A u \in DOMAIN tasks : ActiveStop(u)' <=> ActiveStop(u)
  BY <1>1, <1>2, <1>3, Wakes
<1>5. \A q \in SockIds : sock'[q].open = sock[q].open /\ sock'[q].conns = sock[q].conns
  BY <1>1 DEF Types, File
<1>6. WalkAt(t)'
  <2>1. tasks'[t].sock <= Len(socks)
    BY <1>1, <1>2 DEF Types
  <2>2. ASSUME NEW i \in DOMAIN socks, i < tasks'[t].sock PROVE ~sock'[socks[i]].open
    <3>1. socks[i] \in SockIds
      BY <1>1, ListedSocks
    <3> QED BY <1>1, <1>2, <1>5, <2>2, <3>1 DEF WalkAt
  <2>3. ASSUME NEW u \in DOMAIN tasks, WaitsFor(u, s)' PROVE tasks'[u].gap \/ ghost.failed
    <3>1. WaitsFor(u, s) /\ tasks'[u] = tasks[u] /\ u # sock[s].waiter
      BY <1>4, <2>3
    <3>2. u \in Loops /\ tasks[u].pc = "wait" /\ tasks[u].sock = s
      BY <3>1 DEF WaitsFor, Loops
    <3> QED BY <1>1, <3>1, <3>2 DEF Parts, WaitersReachable
  <2>4. \A u \in DOMAIN tasks' : WaitsFor(u, socks[tasks[t].sock])' => WaitsFor(u, s)'
    BY <1>2 DEF WaitsFor
  <2> QED BY <1>2, <2>1, <2>2, <2>3, <2>4 DEF WalkAt, WaitsFor
<1>7. Stopping'
  BY <1>1, <1>2 DEF Stopping, Active
<1>8. Walk'
  BY <1>1, <1>2, <1>4, <1>6, <1>7 DEF Walk
<1>9. Counted'
  BY <1>5, CountedSame DEF IInv
<1> QED
  BY <1>4, <1>8, <1>9 DEF IInv, Parts

\* A stop task leaves a closed socket behind (Close and CloseF).
LEMMA WalkCloses ==
    ASSUME IInv, NEW t, NEW pc \in {"close", "closef"}, Here(t, pc), NEW s \in SockIds,
           s = socks[tasks[t].sock], tasks[t].sock \in DOMAIN socks,
           tasks' = [tasks EXCEPT ![t].pc = "cancel", ![t].sock = @ + 1],
           SockKept, \A q \in SockIds : sock'[q].conns = sock[q].conns,
           ~sock'[s].open, \A q \in SockIds : q # s => sock'[q].open = sock[q].open,
           pc = "close" => ~sock[s].open,
           UNCHANGED <<running, socks, handlers, aborted, racy, ghost, used, stuck>>
    PROVE  IInv'
<1>1. /\ Parts /\ Types /\ WaiterWaits /\ t \in DOMAIN tasks /\ racy = FALSE /\ tasks[t].pc = pc
      /\ tasks[t] \in Task /\ tasks[t].kind = "stop" /\ tasks[t].at = "cancel"
      /\ tasks[t].sock \in Nat /\ tasks[t].sock >= 1
      /\ Active(t) /\ WalkAt(t) /\ \A u \in DOMAIN tasks : ActiveStop(u) => u = t
  BY InWalk
<1> DEFINE r == [tasks[t] EXCEPT !.pc = "cancel", !.sock = tasks[t].sock + 1]
<1>2. tasks' = [tasks EXCEPT ![t] = r]
  BY <1>1 DEF Task
<1>3. /\ r \in Task /\ r.kind = "stop" /\ r.at = "cancel" /\ r.pc = "cancel" /\ r.sock = tasks[t].sock + 1
  BY <1>1 DEF Task, StopPC
<1> HIDE DEF r
<1>4. r.pc \in StopPC \ {"queued"} /\ r.sock >= 1
  BY <1>1, <1>3 DEF StopPC
<1>5. /\ socks' \in Seq(SockIds) /\ racy' \in BOOLEAN /\ tasks[t].pc # "done"
      /\ \A q \in SockIds : sock'[q].open => sock[q].open
  BY <1>1 DEF Types
<1>6. /\ DOMAIN tasks' = DOMAIN tasks
      /\ tasks'[t] = r /\ \A u \in DOMAIN tasks \ {t} : tasks'[u] = tasks[u]
      /\ \A u \in Loops' : u \in Loops /\ tasks'[u] = tasks[u] /\ tasks[u].sock \in SockIds
      /\ Types' /\ Programs' /\ WaiterWaits' /\ (Busy <= Threads)' /\ OneGeneration'
      /\ \A u \in DOMAIN tasks, q \in SockIds : WaitsFor(u, q)' => WaitsFor(u, q) /\ tasks'[u] = tasks[u]
  BY <1>1, <1>2, <1>3, <1>4, <1>5, StopMoves
<1>7. Made'
  <2>1. \A i \in DOMAIN socks : socks[i] \in SockIds
    BY <1>1, ListedSocks
  <2> QED BY <1>1, <2>1 DEF Parts, Made, SockKept
<1>8. LoopsListed'
  <2>1. LoopsListed
    BY <1>1 DEF Parts
  <2>2. SUFFICES ASSUME ~ghost.failed, NEW u \in Loops', sock'[tasks'[u].sock].open
                 PROVE  \E i \in DOMAIN socks : socks[i] = tasks'[u].sock
    <3>1. socks' = socks /\ ghost' = ghost
      OBVIOUS
    <3> QED BY <3>1 DEF LoopsListed, Listed
  <2>3. u \in Loops /\ tasks'[u] = tasks[u] /\ sock[tasks[u].sock].open
    BY <1>5, <1>6, <2>2
  <2> QED BY <2>1, <2>2, <2>3 DEF LoopsListed, Listed
<1>9. WaitersReachable'
  <2>1. SUFFICES ASSUME NEW u \in Loops', tasks'[u].pc = "wait"
                 PROVE  \/ /\ sock'[tasks'[u].sock].open /\ sock'[tasks'[u].sock].waiter = u
                           /\ \E i \in DOMAIN socks : socks[i] = tasks'[u].sock
                        \/ tasks'[u].gap
                        \/ ghost.failed
    BY DEF WaitersReachable
  <2>2. u \in Loops /\ tasks'[u] = tasks[u] /\ tasks[u].sock \in SockIds /\ tasks[u].pc = "wait"
    BY <1>6, <2>1
  <2>3. CASE tasks[u].sock # s
    BY <1>1, <2>2, <2>3 DEF Parts, WaitersReachable, SockKept
  <2>4. CASE tasks[u].sock = s /\ pc = "close"
    BY <1>1, <2>2, <2>4 DEF Parts, WaitersReachable
  <2>5. CASE tasks[u].sock = s /\ pc = "closef"
    <3>1. u \in DOMAIN tasks /\ WaitsFor(u, socks[tasks[t].sock])
      BY <2>2, <2>5 DEF WaitsFor, Loops
    <3> QED BY <1>1, <2>2, <2>5, <3>1 DEF WalkAt
  <2> QED BY <2>3, <2>4, <2>5
<1>10. Walk'
  <2>1. \A u \in DOMAIN tasks : ActiveStop(u)' => u = t
    BY <1>1, <1>6 DEF ActiveStop, Active
  <2>2. Stopping'
    BY <1>1, <1>3, <1>6 DEF Stopping, Active
  <2>3. ASSUME NEW i \in DOMAIN socks, i < tasks[t].sock + 1 PROVE ~sock'[socks[i]].open
    <3>1. socks[i] \in SockIds /\ i \in Nat
      BY <1>1, ListedSocks
    <3>2. CASE i = tasks[t].sock
      BY <3>2
    <3>3. CASE i < tasks[t].sock
      BY <1>1, <1>5, <3>1, <3>3 DEF WalkAt
    <3> QED BY <1>1, <2>3, <3>1, <3>2, <3>3
  <2>4. WalkAt(t)'
    BY <1>3, <1>6, <2>3 DEF WalkAt
  <2> QED BY <1>6, <2>1, <2>2, <2>4 DEF Walk
<1>11. Counted'
  BY CountedSame DEF IInv
<1> QED
  BY <1>6, <1>7, <1>8, <1>9, <1>10, <1>11 DEF IInv, Parts

\* m_socks.clear() at the end of the walk: all its sockets are closed by then.
LEMMA WalkEnds ==
    ASSUME IInv, NEW t, Here(t, "cancel"), tasks[t].sock > Len(socks),
           socks' = <<>>, tasks' = Goto(t, "done"), sock' = Dropped(sock, <<>>, tasks'),
           UNCHANGED <<running, handlers, aborted, racy, ghost, used, stuck>>
    PROVE  IInv'
<1>1. /\ Parts /\ Types /\ WaiterWaits /\ t \in DOMAIN tasks /\ racy = FALSE /\ tasks[t].pc = "cancel"
      /\ tasks[t] \in Task /\ tasks[t].kind = "stop" /\ tasks[t].at = "cancel"
      /\ tasks[t].sock \in Nat /\ tasks[t].sock >= 1
      /\ Active(t) /\ WalkAt(t) /\ \A u \in DOMAIN tasks : ActiveStop(u) => u = t
  BY InWalk
<1> DEFINE r == [tasks[t] EXCEPT !.pc = "done"]
<1>2. tasks' = [tasks EXCEPT ![t] = r]
  BY DEF Goto
<1>3. /\ r \in Task /\ r.kind = "stop" /\ r.at = "cancel" /\ r.pc = "done" /\ r.sock = tasks[t].sock
  BY <1>1 DEF Task, StopPC
<1> HIDE DEF r
<1>4. r.pc \in StopPC \ {"queued"} /\ r.sock >= 1
  BY <1>1, <1>3 DEF StopPC
<1>5. socks' \in Seq(SockIds) /\ racy' \in BOOLEAN /\ tasks[t].pc # "done" /\ <<>> \in Seq(SockIds)
  <2>1. <<>> \in Seq(SockIds)
    OBVIOUS
  <2>2. racy' \in BOOLEAN /\ tasks[t].pc # "done"
    BY <1>1
  <2> QED BY <2>1, <2>2
<1>6. tasks' \in Seq(Task)
  <2>1. "done" \in LoopPC \cup StopPC
    BY DEF LoopPC
  <2> QED BY <1>1, <2>1, GoneTo
<1>7. /\ SockKept
      /\ \A s \in SockIds : sock'[s].conns = sock[s].conns
      /\ \A s \in SockIds : sock'[s].open => sock[s].open
  <2>1. Types
    BY <1>1
  <2> QED BY <1>5, <1>6, <2>1, DroppedSocks
<1>8. /\ DOMAIN tasks' = DOMAIN tasks
      /\ tasks'[t] = r /\ \A u \in DOMAIN tasks \ {t} : tasks'[u] = tasks[u]
      /\ \A u \in Loops' : u \in Loops /\ tasks'[u] = tasks[u] /\ tasks[u].sock \in SockIds
      /\ Types' /\ Programs' /\ WaiterWaits' /\ (Busy <= Threads)' /\ OneGeneration'
  BY <1>1, <1>2, <1>3, <1>4, <1>5, <1>7, StopMoves
<1>9. DOMAIN socks' = {}
  OBVIOUS
<1>10. Made'
  BY <1>1, <1>7, <1>9 DEF Parts, Made, SockKept
<1>11. ASSUME NEW s \in SockIds, Listed(s) PROVE ~sock[s].open
  <2>1. PICK i \in DOMAIN socks : socks[i] = s
    BY <1>11 DEF Listed
  <2>2. socks \in Seq(SockIds)
    BY <1>1 DEF Types
  <2>3. i < tasks[t].sock
    BY <1>1, <2>1, <2>2
  <2> QED BY <1>1, <2>1, <2>3 DEF WalkAt
<1>12. \A u \in Loops : ghost.failed \/ ~sock[tasks[u].sock].open
  <2>1. \A u \in Loops : tasks[u].sock \in SockIds
    BY <1>1, LoopHasSock DEF Loops, Parts
  <2> QED BY <1>1, <1>11, <2>1 DEF Parts, LoopsListed
<1>13. LoopsListed'
  BY <1>7, <1>8, <1>12 DEF LoopsListed
<1>14. WaitersReachable'
  <2>1. \A u \in Loops' : tasks'[u].pc = "wait" => tasks'[u].gap \/ ghost.failed
    BY <1>1, <1>8, <1>12 DEF Parts, WaitersReachable
  <2> QED BY <2>1 DEF WaitersReachable
<1>15. Walk'
  <2>1. \A u \in DOMAIN tasks' : ~ActiveStop(u)'
    BY <1>1, <1>3, <1>8 DEF ActiveStop, Active
  <2> QED BY <1>9, <2>1 DEF Walk
<1>16. Counted'
  BY <1>7, CountedSame DEF IInv
<1> QED
  BY <1>8, <1>10, <1>13, <1>14, <1>15, <1>16 DEF IInv, Parts

LEMMA CancelKeeps ==
    ASSUME IInv, NEW t, Cancel(t)
    PROVE  IInv'
<1>1. Here(t, "cancel") /\ UNCHANGED <<running, handlers, aborted, racy, ghost, used, stuck>>
  BY DEF Cancel, bounds
<1>2. CASE tasks[t].sock > Len(socks)
  BY <1>1, <1>2, WalkEnds DEF Cancel
<1>3. CASE ~(tasks[t].sock > Len(socks))
  <2>1. Types /\ tasks[t].sock \in Nat /\ tasks[t].sock >= 1
    BY <1>1, InWalk
  <2>2. tasks[t].sock \in DOMAIN socks /\ socks[tasks[t].sock] \in SockIds
    <3>1. socks \in Seq(SockIds)
      BY <2>1 DEF Types
    <3> QED BY <1>3, <2>1, <3>1
  <2>3. /\ tasks' = [Woken(tasks, socks[tasks[t].sock]) EXCEPT ![t].pc = "close"]
        /\ sock' = [sock EXCEPT ![socks[tasks[t].sock]].waiter = Nobody] /\ socks' = socks
    BY <1>3 DEF Cancel
  <2> QED BY <1>1, <2>2, <2>3, WalkWakes
<1> QED
  BY <1>2, <1>3

LEMMA CloseKeeps ==
    ASSUME IInv, NEW t, Close(t)
    PROVE  IInv'
<1>1. Here(t, "close") /\ UNCHANGED <<running, socks, handlers, aborted, racy, ghost, used, stuck>>
  BY DEF Close, bounds
<1>2. tasks[t].sock \in DOMAIN socks /\ socks[tasks[t].sock] \in SockIds /\ Types
  <2>1. /\ Types /\ t \in DOMAIN tasks /\ WalkAt(t) /\ tasks[t].pc = "close"
        /\ tasks[t].sock \in Nat /\ tasks[t].sock >= 1
    BY <1>1, InWalk
  <2> QED BY <2>1, ClosesListed
<1>3. CASE sock[socks[tasks[t].sock]].open
  <2>1. /\ tasks' = [Woken(tasks, socks[tasks[t].sock]) EXCEPT ![t].pc = "closef"]
        /\ sock' = [sock EXCEPT ![socks[tasks[t].sock]].waiter = Nobody]
    BY <1>3 DEF Close
  <2> QED BY <1>1, <1>2, <2>1, WalkWakes
<1>4. CASE ~sock[socks[tasks[t].sock]].open
  <2>1. tasks' = [tasks EXCEPT ![t].pc = "cancel", ![t].sock = @ + 1] /\ sock' = sock
    BY <1>4 DEF Close
  <2>2. SockKept /\ \A q \in SockIds : sock'[q].conns = sock[q].conns /\ sock'[q].open = sock[q].open
    BY <1>2, <2>1 DEF SockKept, Types
  <2>3. ~sock'[socks[tasks[t].sock]].open
    BY <1>4, <2>1
  <2> QED BY <1>1, <1>2, <1>4, <2>1, <2>2, <2>3, WalkCloses
<1> QED
  BY <1>3, <1>4

LEMMA CloseFKeeps ==
    ASSUME IInv, NEW t, CloseF(t)
    PROVE  IInv'
<1>1. /\ Here(t, "closef") /\ UNCHANGED <<running, socks, handlers, aborted, racy, ghost, used, stuck>>
      /\ tasks' = [tasks EXCEPT ![t].pc = "cancel", ![t].sock = @ + 1]
      /\ sock' = [sock EXCEPT ![socks[tasks[t].sock]].open = FALSE]
  BY DEF CloseF, bounds, mtx
<1>2. tasks[t].sock \in DOMAIN socks /\ socks[tasks[t].sock] \in SockIds /\ Types
  <2>1. /\ Types /\ t \in DOMAIN tasks /\ WalkAt(t) /\ tasks[t].pc = "closef"
        /\ tasks[t].sock \in Nat /\ tasks[t].sock >= 1
    BY <1>1, InWalk
  <2> QED BY <2>1, ClosesListed
<1>3. PICK s \in SockIds : s = socks[tasks[t].sock]
  BY <1>2
<1>4. /\ sock' \in [SockIds -> File]
      /\ \A q \in SockIds : /\ sock'[q].made = sock[q].made /\ sock'[q].conns = sock[q].conns
                            /\ sock'[q].waiter = sock[q].waiter
                            /\ sock'[q].open = IF q = s THEN FALSE ELSE sock[q].open
  <2>1. sock \in [SockIds -> File] /\ sock' = [sock EXCEPT ![s].open = FALSE]
    BY <1>1, <1>2, <1>3 DEF Types
  <2> QED BY <2>1 DEF File
<1>5. SockKept /\ ~sock'[s].open
  BY <1>4 DEF SockKept
<1> QED
  BY <1>1, <1>2, <1>3, <1>4, <1>5, WalkCloses

-----------------------------------------------------------------------------
(* The application                                                           *)

LEMMA Calls ==
    ASSUME IInv, Call
    PROVE  /\ Parts /\ Types /\ Counted /\ racy = FALSE
           /\ used' \in [calls : Nat, clients : 0 .. MaxClients]
           /\ used'.clients = used.clients
<1>1. Parts /\ Types /\ Counted
  BY DEF IInv, Parts
<1>2. ~racy /\ used' = [used EXCEPT !.calls = @ + 1]
  BY DEF Call
<1>4. racy = FALSE
  BY <1>1, <1>2 DEF Types
<1>5. /\ used' \in [calls : Nat, clients : 0 .. MaxClients]
      /\ used'.clients = used.clients
  <2>1. used \in [calls : Nat, clients : 0 .. MaxClients]
    BY <1>1 DEF Types
  <2> QED BY <1>2, <2>1
<1> QED
  BY <1>1, <1>4, <1>5

\* start() and stop() schedule tasks.
LEMMA TasksAdded ==
    ASSUME IInv, Call, racy' = Stopping, UNCHANGED <<socks, sock, handlers, aborted, stuck>>, running' \in BOOLEAN,
           ghost' \in [restarted : BOOLEAN, failed : BOOLEAN], ghost'.failed = ghost.failed,
           tasks' \in Seq(Task), DOMAIN tasks \subseteq DOMAIN tasks',
           \A u \in DOMAIN tasks : tasks'[u] = tasks[u],
           \A u \in DOMAIN tasks' \ DOMAIN tasks :
               tasks'[u].pc = "queued" /\ ProgramAt(u)' /\ (tasks'[u].kind = "loop" => Listed(tasks'[u].sock))
    PROVE  /\ Types' /\ Programs' /\ Made' /\ WaiterWaits' /\ (Busy <= Threads)' /\ Walk'
           /\ LoopsListed' /\ WaitersReachable' /\ Counted'
<1>0. racy' \in BOOLEAN /\ (racy' <=> Stopping)
  BY DEF Stopping
<1>1. /\ Parts /\ Types /\ Counted /\ racy = FALSE /\ racy' \in BOOLEAN /\ (racy' <=> Stopping)
      /\ used' \in [calls : Nat, clients : 0 .. MaxClients]
      /\ used'.clients = used.clients
  BY <1>0, Calls
<1>2. Types'
  BY <1>1 DEF Types
<1>3. Counted'
  BY <1>1, CountedSame
<1>4. Programs'
  <2>1. \A u \in DOMAIN tasks : ProgramAt(u)
    BY <1>1 DEF Parts, Programs
  <2>2. \A u \in DOMAIN tasks : ProgramAt(u)'
    BY <2>1 DEF ProgramAt
  <2> QED BY <2>2 DEF Programs
<1>5. Made'
  <2>1. Made
    BY <1>1 DEF Parts
  <2> QED BY <2>1 DEF Made
<1>6. WaiterWaits'
  <2>1. WaiterWaits
    BY <1>1 DEF Parts
  <2> QED BY <2>1 DEF WaiterWaits, WaitsFor
<1>7. (Busy <= Threads)'
  <2>1. \A u \in DOMAIN tasks' : Active(u)' => u \in DOMAIN tasks /\ Active(u)
    BY DEF Active
  <2>2. Busy' \in Nat /\ Busy \in Nat /\ Busy' <= Busy
    BY <1>1, <2>1, BusyFewer DEF Types
  <2>3. Busy <= Threads
    BY <1>1 DEF Parts
  <2> QED BY <2>2, <2>3
<1>8. Walk'
  <2>1. SUFFICES ASSUME ~Stopping PROVE Walk'
    BY <1>1 DEF Walk
  <2>2. \A u \in DOMAIN tasks' : ~ActiveStop(u)'
    BY <2>1 DEF ActiveStop, Active, Stopping
  <2>3. \A i \in DOMAIN socks : sock[socks[i]].open
    BY <1>1, <2>1 DEF Parts, Walk
  <2> QED BY <2>2, <2>3 DEF Walk
<1>9. \A u \in Loops' : (u \in Loops /\ tasks'[u] = tasks[u]) \/ (tasks'[u].pc = "queued" /\ Listed(tasks'[u].sock))
  BY DEF Loops
<1>10. LoopsListed'
  <2>1. LoopsListed
    BY <1>1 DEF Parts
  <2> QED BY <1>9, <2>1 DEF LoopsListed, Listed
<1>11. WaitersReachable'
  <2>1. WaitersReachable
    BY <1>1 DEF Parts
  <2>2. \A u \in Loops' : tasks'[u].pc = "wait" => u \in Loops /\ tasks'[u] = tasks[u]
    BY <1>9
  <2> QED BY <2>1, <2>2 DEF WaitersReachable
<1> QED
  BY <1>2, <1>3, <1>4, <1>5, <1>6, <1>7, <1>8, <1>10, <1>11

LEMMA StopKeeps ==
    ASSUME IInv, Stop
    PROVE  IInv'
<1> DEFINE e == [kind |-> "stop", pc |-> "queued", at |-> "cancel", sock |-> 1, gap |-> FALSE]
<1>1. /\ Call /\ racy' = Stopping /\ running' = FALSE /\ tasks' = Append(tasks, e)
      /\ UNCHANGED <<socks, sock, handlers, aborted, ghost, stuck>>
  BY DEF Stop, mtx
<1>2. /\ e \in Task /\ e.kind = "stop" /\ e.pc = "queued" /\ e.at = "cancel" /\ e.sock = 1
  BY DEF Task, StopPC
<1> HIDE DEF e
<1>3. Types /\ Parts
  BY DEF IInv, Parts
<1>4. /\ tasks' \in Seq(Task) /\ DOMAIN tasks \subseteq DOMAIN tasks'
      /\ \A u \in DOMAIN tasks : tasks'[u] = tasks[u]
      /\ \A u \in DOMAIN tasks' \ DOMAIN tasks : tasks'[u] = e
  <2>1. tasks \in Seq(Task) /\ DOMAIN tasks = 1 .. Len(tasks) /\ Len(tasks) \in Nat
    BY <1>3 DEF Types
  <2>2. /\ tasks' \in Seq(Task) /\ Len(tasks') = Len(tasks) + 1
        /\ \A i \in 1 .. Len(tasks) : tasks'[i] = tasks[i]
        /\ tasks'[Len(tasks) + 1] = e
    BY <1>1, <1>2, <2>1, AppendProperties
  <2>3. DOMAIN tasks' = 1 .. Len(tasks) + 1
    BY <2>2
  <2>4. \A u \in DOMAIN tasks' \ DOMAIN tasks : u = Len(tasks) + 1
    BY <2>1, <2>3
  <2> QED BY <2>1, <2>2, <2>3, <2>4
<1>5. \A u \in DOMAIN tasks' \ DOMAIN tasks :
          tasks'[u].pc = "queued" /\ ProgramAt(u)' /\ (tasks'[u].kind = "loop" => Listed(tasks'[u].sock))
  BY <1>2, <1>4 DEF ProgramAt, StopPC
<1>6. ghost' \in [restarted : BOOLEAN, failed : BOOLEAN] /\ ghost'.failed = ghost.failed /\ running' \in BOOLEAN
  BY <1>1, <1>3 DEF Types
<1>7. /\ Types' /\ Programs' /\ Made' /\ WaiterWaits' /\ (Busy <= Threads)' /\ Walk'
      /\ LoopsListed' /\ WaitersReachable' /\ Counted'
  BY <1>1, <1>4, <1>5, <1>6, TasksAdded
<1>8. OneGeneration'
  <2>1. \A u \in Loops' : u \in Loops /\ tasks'[u] = tasks[u]
    BY <1>2, <1>4 DEF Loops
  <2>2. OneGeneration
    BY <1>3 DEF Parts
  <2> QED BY <1>1, <2>1, <2>2 DEF OneGeneration
<1> QED
  BY <1>7, <1>8 DEF IInv, Parts

LEMMA StartKeeps ==
    ASSUME IInv, Start
    PROVE  IInv'
<1>1. Call /\ racy' = Stopping /\ running' = TRUE /\ UNCHANGED <<socks, sock, handlers, aborted, stuck>>
  BY DEF Start, mtx
<1>0. racy' \in BOOLEAN /\ (racy' <=> Stopping)
  BY <1>1 DEF Stopping
<1>2. /\ Parts /\ Types /\ Counted /\ racy = FALSE /\ racy' \in BOOLEAN /\ (racy' <=> Stopping)
      /\ used' \in [calls : Nat, clients : 0 .. MaxClients]
      /\ used'.clients = used.clients
  BY <1>0, <1>1, Calls
<1>3. ghost \in [restarted : BOOLEAN, failed : BOOLEAN] /\ running \in BOOLEAN
  BY <1>2 DEF Types
<1>4. CASE running
  <2>1. tasks' = tasks /\ running' = running /\ ghost' = [ghost EXCEPT !.restarted = @ \/ FALSE]
    BY <1>1, <1>3, <1>4 DEF Start
  <2>2. ghost' = ghost
    BY <1>3, <2>1
  <2>3. SockKept /\ \A s \in SockIds : sock'[s].open = sock[s].open
    BY <1>1, <1>2 DEF Types, SockKept
  <2>4. aborted' \in BOOLEAN /\ (aborted' => aborted)
    BY <1>1, <1>2 DEF Types
  <2>5. Parts'
    BY <1>1, <1>2, <2>1, <2>2, <2>3, <2>4, TasksStay
  <2>6. Counted'
    BY <1>1, <1>2, CountedSame
  <2> QED BY <2>5, <2>6 DEF IInv
<1>5. CASE ~running
  <2> DEFINE loop(i) == [kind |-> "loop", pc |-> "queued", at |-> "check", sock |-> socks[i], gap |-> FALSE]
             new == [i \in DOMAIN socks |-> loop(i)]
             early == Loops # {} \/ Stopping \/
                        \E t \in DOMAIN tasks : tasks[t].kind = "stop" /\ tasks[t].pc # "done"
  <2>1. tasks' = tasks \o new /\ ghost' = [ghost EXCEPT !.restarted = @ \/ early]
    BY <1>5 DEF Start
  <2>2. /\ ghost' \in [restarted : BOOLEAN, failed : BOOLEAN] /\ ghost'.failed = ghost.failed
        /\ ~ghost'.restarted => ~ghost.restarted /\ ~early
    <3>1. early \in BOOLEAN
      OBVIOUS
    <3> HIDE DEF early
    <3>2. (ghost.restarted \/ early) \in BOOLEAN
      OBVIOUS
    <3> QED BY <1>3, <2>1, <3>1, <3>2
  <2>3. socks \in Seq(SockIds) /\ tasks \in Seq(Task)
    BY <1>2 DEF Types
  <2>4. new \in Seq(Task) /\ Len(new) = Len(socks) /\ \A i \in 1 .. Len(socks) : new[i] = loop(i)
    <3>1. \A i \in 1 .. Len(socks) : loop(i) \in Task
      BY <2>3 DEF Task, LoopPC
    <3>2. DOMAIN socks = 1 .. Len(socks) /\ Len(socks) \in Nat
      BY <2>3
    <3>3. new \in [1 .. Len(socks) -> Task]
      BY <3>1, <3>2
    <3> QED BY <3>2, <3>3
  <2> HIDE DEF new
  <2>5. /\ tasks' \in Seq(Task) /\ DOMAIN tasks' = 1 .. Len(tasks) + Len(socks)
        /\ \A u \in 1 .. Len(tasks) + Len(socks) :
              tasks'[u] = IF u <= Len(tasks) THEN tasks[u] ELSE new[u - Len(tasks)]
    <3>1. new \in Seq(Task)
      BY <2>4
    <3>2. /\ tasks \o new \in Seq(Task) /\ Len(tasks \o new) = Len(tasks) + Len(new)
          /\ \A u \in 1 .. Len(tasks) + Len(new) :
              (tasks \o new)[u] = IF u <= Len(tasks) THEN tasks[u] ELSE new[u - Len(tasks)]
      BY <2>3, <3>1, ConcatProperties
    <3>3. tasks' = tasks \o new /\ Len(new) = Len(socks)
      BY <2>1, <2>4
    <3> QED BY <3>2, <3>3
  <2>6. DOMAIN tasks = 1 .. Len(tasks) /\ Len(tasks) \in Nat /\ DOMAIN socks = 1 .. Len(socks) /\ Len(socks) \in Nat
    BY <2>3
  <2>7. DOMAIN tasks \subseteq DOMAIN tasks' /\ \A u \in DOMAIN tasks : tasks'[u] = tasks[u]
    BY <2>5, <2>6
  <2>8. \A u \in DOMAIN tasks' \ DOMAIN tasks :
            u - Len(tasks) \in DOMAIN socks /\ tasks'[u] = loop(u - Len(tasks))
    <3>1. ASSUME NEW u \in DOMAIN tasks' \ DOMAIN tasks
          PROVE  /\ u - Len(tasks) \in 1 .. Len(socks) /\ u \in 1 .. Len(tasks) + Len(socks)
                 /\ ~(u <= Len(tasks))
      BY <2>5, <2>6
    <3>2. \A u \in DOMAIN tasks' \ DOMAIN tasks : tasks'[u] = new[u - Len(tasks)]
      BY <2>5, <3>1
    <3>3. \A i \in 1 .. Len(socks) : new[i] = loop(i)
      BY <2>4
    <3> HIDE DEF loop
    <3> QED BY <2>6, <3>1, <3>2, <3>3
  <2>9. \A u \in DOMAIN tasks' \ DOMAIN tasks :
            /\ tasks'[u].kind = "loop" /\ tasks'[u].pc = "queued" /\ tasks'[u].at = "check"
            /\ u - Len(tasks) \in DOMAIN socks /\ tasks'[u].sock = socks[u - Len(tasks)]
    BY <2>8
  <2>10. \A i \in DOMAIN socks : socks[i] \in SockIds /\ sock[socks[i]].made
    BY <1>2, <2>3 DEF Parts, Made
  <2>11. \A u \in DOMAIN tasks' \ DOMAIN tasks :
            tasks'[u].pc = "queued" /\ ProgramAt(u)' /\ (tasks'[u].kind = "loop" => Listed(tasks'[u].sock))
    BY <1>1, <2>9, <2>10 DEF ProgramAt, LoopPC, Listed
  <2>12. /\ Types' /\ Programs' /\ Made' /\ WaiterWaits' /\ (Busy <= Threads)' /\ Walk'
         /\ LoopsListed' /\ WaitersReachable' /\ Counted'
    BY <1>1, <2>2, <2>5, <2>7, <2>11, TasksAdded
  <2>13. OneGeneration'
    <3>1. SUFFICES ASSUME ~ghost'.restarted PROVE OneGeneration'
      BY DEF OneGeneration
    <3>2. /\ ~ghost.restarted /\ Loops = {} /\ ~Stopping
          /\ \A t \in DOMAIN tasks : tasks[t].kind = "stop" => tasks[t].pc = "done"
      BY <2>2, <3>1
    <3>3. ~aborted'
      BY <1>1 DEF Call
    <3>4. \A u \in Loops' : /\ u - Len(tasks) \in DOMAIN socks /\ tasks'[u].sock = socks[u - Len(tasks)]
                            /\ u \in Int
      BY <2>5, <2>6, <2>7, <2>9, <3>2 DEF Loops
    <3>5. \A i, j \in DOMAIN socks : socks[i] = socks[j] => i = j
      BY <1>2 DEF Parts, Made
    <3>6. \A t, u \in Loops' : tasks'[t].sock = tasks'[u].sock => t = u
      <4>1. SUFFICES ASSUME NEW t \in Loops', NEW u \in Loops', tasks'[t].sock = tasks'[u].sock PROVE t = u
        OBVIOUS
      <4>2. t - Len(tasks) = u - Len(tasks)
        BY <3>4, <3>5, <4>1
      <4> QED BY <2>6, <3>4, <4>2
    <3>7. \A i \in DOMAIN socks : sock[socks[i]].open
      BY <1>2, <3>2 DEF Parts, Walk
    <3>8. \A t \in Loops' : sock'[tasks'[t].sock].open
      BY <1>1, <3>4, <3>7
    <3>9. \A t \in DOMAIN tasks' : tasks'[t].kind = "stop" => tasks'[t].pc = "done"
      BY <2>7, <2>9, <3>2
    <3> QED BY <3>3, <3>6, <3>8, <3>9 DEF OneGeneration
  <2> QED BY <2>12, <2>13 DEF IInv, Parts
<1> QED
  BY <1>4, <1>5

LEMMA BindKeeps ==
    ASSUME IInv, NEW n \in 0 .. 2, NEW fail \in BOOLEAN, Bind(n, fail)
    PROVE  IInv'
<1>1. /\ Parts /\ Types /\ Counted /\ racy = FALSE /\ racy' \in BOOLEAN /\ (~racy' => ~Stopping)
      /\ used' \in [calls : Nat, clients : 0 .. MaxClients]
      /\ used'.clients = used.clients
  <2>1. Call
    BY DEF Bind
  <2>2. racy' \in BOOLEAN /\ (~racy' => ~Stopping)
    BY DEF Bind
  <2> QED BY <2>1, <2>2, Calls
<1>2. Programs /\ Made /\ WaiterWaits /\ Walk /\ LoopsListed /\ OneGeneration /\ WaitersReachable /\ Busy <= Threads
  BY <1>1 DEF Parts
<1>3. PICK k \in 0 .. MaxSocks : \A s \in SockIds : sock[s].made <=> s <= k
  BY <1>2 DEF Made
<1>0. k \in Nat /\ k <= MaxSocks /\ n \in Nat /\ n <= 2
  BY <1>3
<1>4. Cardinality({s \in SockIds : sock[s].made}) = k
  <2>1. {s \in SockIds : sock[s].made} = 1 .. k
    BY <1>3
  <2>2. Cardinality(1 .. k) = IF 1 > k THEN 0 ELSE k - 1 + 1
    BY <1>0, FS_Interval
  <2>3. Cardinality(1 .. k) = k
    BY <1>0, <2>2
  <2> QED BY <2>1, <2>3
<1> DEFINE files == [s \in SockIds |-> IF s \in k + 1 .. k + n
                                       THEN [sock[s] EXCEPT !.made = TRUE, !.open = TRUE] ELSE sock[s]]
           new == [i \in 1 .. n |-> k + i]
           list == IF fail THEN <<>> ELSE socks \o new
           Old(i) == i \in DOMAIN socks /\ list[i] = socks[i]
           Added(i) == /\ i > Len(socks) /\ i - Len(socks) \in 1 .. n
                       /\ list[i] = k + (i - Len(socks))
<1>5. /\ k + n <= MaxSocks /\ socks' = list /\ sock' = Dropped(files, list, tasks)
      /\ ghost' = [ghost EXCEPT !.failed = @ \/ fail]
      /\ UNCHANGED <<running, tasks, handlers, aborted, stuck>>
  BY <1>4 DEF Bind
<1>6. sock \in [SockIds -> File] /\ socks \in Seq(SockIds) /\ tasks \in Seq(Task)
      /\ ghost \in [restarted : BOOLEAN, failed : BOOLEAN]
  BY <1>1 DEF Types
<1>7. new \in Seq(SockIds) /\ Len(new) = n /\ \A i \in 1 .. n : new[i] = k + i
  <2>1. \A i \in 1 .. n : k + i \in SockIds
    <3>1. k + n <= MaxSocks
      BY <1>5
    <3> QED BY <1>0, <3>1
  <2>2. new \in [1 .. n -> SockIds] /\ n \in Nat
    BY <1>0, <2>1
  <2> QED BY <2>2
<1>8. /\ socks \o new \in Seq(SockIds) /\ Len(socks \o new) = Len(socks) + n
      /\ \A i \in 1 .. Len(socks) + n : (socks \o new)[i] = IF i <= Len(socks) THEN socks[i] ELSE new[i - Len(socks)]
  <2>1. new \in Seq(SockIds) /\ Len(new) = n
    BY <1>7
  <2> HIDE DEF new
  <2> QED BY <1>6, <2>1, ConcatProperties
<1>9. files \in [SockIds -> File]
  BY <1>6 DEF File
<1>10. ASSUME NEW s \in SockIds
       PROVE  /\ files[s].waiter = sock[s].waiter /\ files[s].conns = sock[s].conns
              /\ files[s].made <=> s <= k + n
              /\ s <= k => files[s] = sock[s]
              /\ s > k /\ s <= k + n => files[s].open
  <2>1. sock[s] \in File /\ s \in Int
    BY <1>6
  <2>2. CASE s \in k + 1 .. k + n
    <3>1. files[s] = [sock[s] EXCEPT !.made = TRUE, !.open = TRUE]
      BY <2>2
    <3>2. /\ files[s].waiter = sock[s].waiter /\ files[s].conns = sock[s].conns
          /\ files[s].made = TRUE /\ files[s].open = TRUE
      BY <2>1, <3>1 DEF File
    <3>3. s > k /\ s <= k + n
      BY <1>0, <2>1, <2>2
    <3> HIDE DEF files
    <3> QED BY <1>0, <2>1, <3>2, <3>3
  <2>3. CASE s \notin k + 1 .. k + n
    <3>1. files[s] = sock[s]
      BY <2>3
    <3>2. s <= k \/ s > k + n
      BY <1>0, <2>1, <2>3
    <3>3. sock[s].made <=> s <= k
      BY <1>3
    <3> HIDE DEF files
    <3> QED BY <1>0, <2>1, <3>1, <3>2, <3>3
  <2> QED BY <2>2, <2>3
<1> HIDE DEF files, new
<1>11. ASSUME NEW s \in SockIds
       PROVE  sock'[s] = IF \/ \E i \in DOMAIN list : list[i] = s
                            \/ \E t \in DOMAIN tasks : tasks[t].kind = "loop" /\ tasks[t].pc # "done"
                                                         /\ tasks[t].sock = s
                         THEN files[s] ELSE [files[s] EXCEPT !.open = FALSE]
  BY <1>5 DEF Dropped
<1>12. /\ sock' \in [SockIds -> File]
       /\ \A s \in SockIds : /\ sock'[s].waiter = sock[s].waiter /\ sock'[s].conns = sock[s].conns
                             /\ sock'[s].made <=> s <= k + n
  <2>1. ASSUME NEW s \in SockIds
        PROVE  /\ sock'[s] \in File /\ sock'[s].waiter = files[s].waiter /\ sock'[s].conns = files[s].conns
               /\ sock'[s].made = files[s].made
    <3>1. files[s] \in File
      BY <1>9
    <3> QED BY <1>11, <3>1 DEF File
  <2>2. sock' = [s \in SockIds |-> sock'[s]]
    BY <1>5 DEF Dropped
  <2>3. sock' \in [SockIds -> File]
    BY <2>1, <2>2
  <2> QED BY <1>10, <2>1, <2>3
<1>13. list \in Seq(SockIds) /\ (~fail => list = socks \o new) /\ (fail => DOMAIN list = {})
  <2>1. <<>> \in Seq(SockIds)
    OBVIOUS
  <2>2. CASE fail
    BY <2>1, <2>2
  <2>3. CASE ~fail
    BY <1>8, <2>3
  <2> QED BY <2>2, <2>3
<1>14. \A i \in DOMAIN list :
          /\ list[i] \in SockIds /\ i \in Nat
          /\ Old(i) \/ Added(i)
  <2>1. CASE fail
    BY <1>13, <2>1
  <2>2. CASE ~fail
    <3>1. list = socks \o new /\ DOMAIN list = 1 .. Len(socks) + n /\ Len(socks) \in Nat
          /\ DOMAIN socks = 1 .. Len(socks)
      BY <1>6, <1>8, <1>13, <2>2
    <3>2. ASSUME NEW i \in DOMAIN list, i <= Len(socks) PROVE i \in DOMAIN socks /\ list[i] = socks[i]
      BY <1>8, <3>1, <3>2
    <3>3. ASSUME NEW i \in DOMAIN list, ~(i <= Len(socks))
          PROVE  list[i] = k + (i - Len(socks)) /\ i - Len(socks) \in 1 .. n
      <4>1. i - Len(socks) \in 1 .. n /\ i \in 1 .. Len(socks) + n
        BY <3>1, <3>3
      <4>2. list[i] = new[i - Len(socks)]
        BY <1>8, <3>1, <3>3, <4>1
      <4> QED BY <1>7, <4>1, <4>2
    <3>4. \A i \in DOMAIN list : list[i] \in SockIds /\ i \in Nat
      <4>1. list \in Seq(SockIds)
        BY <1>13
      <4> HIDE DEF list
      <4> QED BY <4>1
    <3> QED BY <3>1, <3>2, <3>3, <3>4
  <2> QED BY <2>1, <2>2
<1>15. \A i \in DOMAIN socks : socks[i] \in SockIds /\ socks[i] <= k
  <2>1. \A i \in DOMAIN socks : socks[i] \in SockIds
    BY <1>6
  <2> QED BY <1>2, <1>3, <2>1 DEF Made
<1>16. ~fail => \A i \in DOMAIN socks : i \in DOMAIN list /\ list[i] = socks[i]
  <2>1. /\ DOMAIN socks = 1 .. Len(socks) /\ Len(socks) \in Nat
        /\ DOMAIN (socks \o new) = 1 .. Len(socks) + n
    BY <1>6, <1>8
  <2>2. \A i \in 1 .. Len(socks) : i \in 1 .. Len(socks) + n /\ (socks \o new)[i] = socks[i]
    BY <1>0, <1>8, <2>1
  <2> QED BY <1>13, <2>1, <2>2
<1> HIDE DEF list
<1>17. ASSUME NEW t \in Loops
       PROVE  tasks[t].sock \in SockIds /\ tasks[t].sock <= k /\ sock'[tasks[t].sock] = sock[tasks[t].sock]
  <2>1. t \in DOMAIN tasks /\ tasks[t].kind = "loop" /\ tasks[t].pc # "done"
    BY <1>17 DEF Loops
  <2>2. tasks[t].sock \in SockIds /\ sock[tasks[t].sock].made
    BY <1>2, <2>1, LoopHasSock
  <2> QED BY <1>3, <1>10, <1>11, <2>1, <2>2
<1>18. /\ ghost' \in [restarted : BOOLEAN, failed : BOOLEAN] /\ ghost'.restarted = ghost.restarted
       /\ ~ghost'.failed => ~ghost.failed /\ ~fail
  BY <1>5, <1>6
<1>19. Types'
  BY <1>1, <1>5, <1>12, <1>13, <1>18 DEF Types
<1>20. Programs'
  <2>1. SUFFICES ASSUME NEW u \in DOMAIN tasks PROVE ProgramAt(u)'
    BY <1>5 DEF Programs
  <2>2. ProgramAt(u)
    BY <1>2 DEF Programs
  <2>3. \A s \in SockIds : sock[s].made => sock'[s].made
    BY <1>3, <1>12
  <2> QED BY <1>5, <2>2, <2>3 DEF ProgramAt
<1>21. Made'
  <2>1. k + n \in 0 .. MaxSocks /\ \A s \in SockIds : sock'[s].made <=> s <= k + n
    BY <1>5, <1>12
  <2>2. \A i \in DOMAIN list : list[i] <= k + n
    BY <1>14, <1>15
  <2>3. \A i, j \in DOMAIN list : list[i] = list[j] => i = j
    <3>1. SUFFICES ASSUME NEW i \in DOMAIN list, NEW j \in DOMAIN list, list[i] = list[j] PROVE i = j
      OBVIOUS
    <3>2. CASE Old(i) /\ Old(j)
      BY <1>2, <3>1, <3>2 DEF Made
    <3>3. CASE Old(i) /\ Added(j)
      <4>1. list[i] <= k /\ list[j] > k
        BY <1>0, <1>15, <3>3
      <4> QED BY <1>0, <1>14, <3>1, <4>1
    <3>4. CASE Old(j) /\ Added(i)
      <4>1. list[j] <= k /\ list[i] > k
        BY <1>0, <1>15, <3>4
      <4> QED BY <1>0, <1>14, <3>1, <4>1
    <3>5. CASE Added(i) /\ Added(j)
      <4>1. i \in Nat /\ j \in Nat /\ Len(socks) \in Nat
        BY <1>6, <1>14
      <4>2. k + (i - Len(socks)) = k + (j - Len(socks))
        BY <3>1, <3>5
      <4> QED BY <1>0, <4>1, <4>2
    <3> QED BY <1>14, <3>2, <3>3, <3>4, <3>5
  <2> QED BY <1>5, <1>14, <2>1, <2>2, <2>3 DEF Made
<1>22. WaiterWaits'
  BY <1>2, <1>5, <1>12 DEF WaiterWaits, WaitsFor
<1>23. (Busy <= Threads)'
  BY <1>2, <1>5 DEF Busy, Active
<1>24. Walk'
  <2>1. SUFFICES ASSUME ~Stopping PROVE Walk'
    BY <1>1 DEF Walk
  <2>2. \A u \in DOMAIN tasks' : ~ActiveStop(u)'
    BY <1>5, <2>1 DEF ActiveStop, Active, Stopping
  <2>3. ASSUME NEW i \in DOMAIN list PROVE sock'[list[i]].open
    <3>1. list[i] \in SockIds /\ sock'[list[i]] = files[list[i]]
      BY <1>11, <1>14
    <3>2. CASE Old(i)
      <4>1. sock[socks[i]].open
        BY <1>1, <1>2, <2>1, <3>2 DEF Walk
      <4>2. files[socks[i]] = sock[socks[i]]
        BY <1>10, <1>15, <3>2
      <4> QED BY <3>1, <3>2, <4>1, <4>2
    <3>3. CASE Added(i)
      <4>1. list[i] > k /\ list[i] <= k + n
        BY <3>3
      <4> QED BY <1>10, <3>1, <4>1
    <3> QED BY <1>14, <3>2, <3>3
  <2> QED BY <1>5, <2>2, <2>3 DEF Walk
<1>25. Loops' = Loops /\ tasks' = tasks
  BY <1>5 DEF Loops
<1>26. ASSUME ~ghost'.failed, NEW s, \E i \in DOMAIN socks : socks[i] = s
       PROVE  \E i \in DOMAIN list : list[i] = s
  BY <1>16, <1>18, <1>26
<1>27. LoopsListed'
  BY <1>2, <1>5, <1>17, <1>18, <1>25, <1>26 DEF LoopsListed, Listed
<1>28. OneGeneration'
  <2>1. running' = running /\ aborted' = aborted /\ tasks' = tasks
    BY <1>5
  <2> QED BY <1>2, <1>17, <1>18, <1>25, <2>1 DEF OneGeneration
<1>29. WaitersReachable'
  BY <1>2, <1>5, <1>17, <1>18, <1>25, <1>26 DEF WaitersReachable
<1>30. Counted'
  BY <1>1, <1>5, <1>12, CountedSame
<1> QED
  BY <1>19, <1>20, <1>21, <1>22, <1>23, <1>24, <1>27, <1>28, <1>29, <1>30 DEF IInv, Parts

-----------------------------------------------------------------------------
(* The invariant                                                             *)

LEMMA InitIInv == Init => IInv
<1>1. SUFFICES ASSUME Init PROVE IInv
  OBVIOUS
<1>2. tasks = <<>> /\ socks = <<>> /\ DOMAIN tasks = {} /\ DOMAIN socks = {} /\ Loops = {}
  BY <1>1 DEF Init, Loops
<1>3. /\ sock \in [SockIds -> File] /\ \A s \in SockIds : ~sock[s].made /\ sock[s].waiter = Nobody /\ sock[s].conns = 0
  BY <1>1 DEF Init, File
<1>4. Types
  <2>1. socks \in Seq(SockIds) /\ tasks \in Seq(Task)
    BY <1>2
  <2>2. /\ running \in BOOLEAN /\ aborted \in BOOLEAN /\ racy \in BOOLEAN
        /\ ghost \in [restarted : BOOLEAN, failed : BOOLEAN]
    BY <1>1 DEF Init
  <2>3. used \in [calls : Nat, clients : 0 .. MaxClients]
    BY <1>1 DEF Init
  <2>4. stuck \in Nat
    BY <1>1 DEF Init
  <2> QED BY <1>3, <2>1, <2>2, <2>3, <2>4 DEF Types
<1>5. Programs /\ WaiterWaits /\ Walk /\ LoopsListed /\ WaitersReachable
  BY <1>2, <1>3 DEF Programs, WaiterWaits, Walk, LoopsListed, WaitersReachable
<1>6. OneGeneration
  BY <1>1, <1>2 DEF Init, OneGeneration
<1>7. Made
  <2>1. \A s \in SockIds : sock[s].made <=> s <= 0
    BY <1>3
  <2> QED BY <1>2, <2>1 DEF Made
<1>8. Busy <= Threads
  <2>1. {t \in DOMAIN tasks : Active(t)} = {}
    BY <1>2
  <2>2. stuck = 0
    BY <1>1 DEF Init
  <2> QED BY <2>1, <2>2, FS_EmptySet DEF Busy
<1>9. Counted
  <2> DEFINE total == [j \in 0 .. MaxSocks |-> 0]
  <2>1. /\ total \in [0 .. MaxSocks -> Nat] /\ total[0] = 0 /\ total[MaxSocks] = 0
        /\ \A j \in SockIds : total[j] = total[j - 1] + sock[j].conns
        /\ \A i, j \in 0 .. MaxSocks : i <= j => total[i] <= total[j]
    BY <1>3
  <2>2. handlers = 0 /\ used.clients = 0
    BY <1>1 DEF Init
  <2> HIDE DEF total
  <2> QED BY <2>1, <2>2 DEF Counted
<1> QED
  BY <1>4, <1>5, <1>6, <1>7, <1>8, <1>9 DEF IInv, Parts

LEMMA NextIInv == IInv /\ [Next]_vars => IInv'
<1> SUFFICES ASSUME IInv, [Next]_vars PROVE IInv'
  OBVIOUS
<1>1. CASE UNCHANGED vars \/ FillOrFree
  <2>1. /\ Parts /\ Counted
        /\ UNCHANGED <<running, socks, sock, tasks, handlers, used, aborted, racy, ghost, stuck>>
    BY <1>1 DEF IInv, vars, FillOrFree, mtx
  <2>2. /\ Types /\ sock \in [SockIds -> File] /\ racy' \in BOOLEAN /\ aborted' \in BOOLEAN
        /\ used' \in [calls : Nat, clients : 0 .. MaxClients]
    BY <2>1 DEF Parts, Types
  <2>3. SockKept /\ \A s \in SockIds : sock'[s].open = sock[s].open /\ sock'[s].conns = sock[s].conns
    BY <2>1, <2>2 DEF SockKept
  <2> QED BY <2>1, <2>2, <2>3, TasksStay, CountedSame DEF IInv
<1>2. ASSUME NEW n \in 0 .. 2, NEW fail \in BOOLEAN, Bind(n, fail) PROVE IInv'
  BY <1>2, BindKeeps
<1>3. ASSUME NEW t \in 1 .. MaxTasks, Dispatch(t) \/ Step(t) PROVE IInv'
  BY <1>3, DispatchKeeps, CheckKeeps, AcceptKeeps, LockKeeps, RegisterKeeps, CancelKeeps, CloseKeeps,
     CloseFKeeps DEF Step
<1>4. ASSUME NEW s \in SockIds, Trigger(s) \/ Connect(s) PROVE IInv'
  BY <1>4, TriggerKeeps, ConnectKeeps
<1> QED
  BY <1>1, <1>2, <1>3, <1>4, StartKeeps, StopKeeps, HandleClientKeeps DEF Next

LEMMA IInvImpliesServerInv == IInv /\ Readers => ServerInv
<1> SUFFICES ASSUME IInv, Readers PROVE ServerInv
  OBVIOUS
<1>1. Parts /\ Counted /\ Types
  BY DEF IInv, Parts
<1>2. WaitersReachable /\ WaiterWaits /\ Programs /\ OneGeneration /\ Busy <= Threads
  BY <1>1 DEF Parts
<1>3. running \in BOOLEAN /\ socks \in Seq(SockIds) /\ tasks \in Seq(Task) /\ sock \in [SockIds -> File]
      /\ used.clients \in 0 .. MaxClients
  BY <1>1 DEF Types
<1>4. PICK total \in [0 .. MaxSocks -> Nat] :
         /\ total[0] = 0 /\ \A k \in SockIds : total[k] = total[k - 1] + sock[k].conns
         /\ \A j, k \in 0 .. MaxSocks : j <= k => total[j] <= total[k]
         /\ handlers + total[MaxSocks] <= used.clients
  BY <1>1 DEF Counted
<1>5. handlers \in 0 .. MaxClients /\ total[MaxSocks] \in 0 .. MaxClients
  BY <1>1, <1>3, <1>4 DEF Counted
<1>6. ASSUME NEW s \in SockIds PROVE sock[s].conns \in 0 .. MaxClients
  <2>1. sock[s].conns \in Nat
    BY <1>3 DEF File
  <2>2. total[s] = total[s - 1] + sock[s].conns /\ total[s] <= total[MaxSocks]
        /\ total[s - 1] \in Nat /\ total[s] \in Nat
    BY <1>4
  <2> QED BY <1>5, <2>1, <2>2
<1>7. ASSUME NEW s \in SockIds PROVE sock[s].waiter \in 0 .. Len(tasks)
  <2>1. DOMAIN tasks = 1 .. Len(tasks) /\ Len(tasks) \in Nat
    BY <1>3
  <2> QED BY <1>2, <2>1 DEF WaiterWaits, WaitsFor
<1>8. \A t \in DOMAIN tasks : tasks[t].pc \in
          {"queued", "check", "accept", "lock", "register", "wait", "done", "cancel", "close", "closef"}
  BY <1>2 DEF Programs, ProgramAt, LoopPC, StopPC
<1>9. stuck \in 0 .. Threads
  <2> DEFINE A == {t \in DOMAIN tasks : Active(t)}
  <2>1. IsFiniteSet(DOMAIN tasks) /\ stuck \in Nat
    <3>1. DOMAIN tasks = 1 .. Len(tasks) /\ Len(tasks) \in Nat
      BY <1>3, LenProperties
    <3> QED BY <1>1, <3>1, FS_Interval DEF Types
  <2>2. Cardinality(A) \in Nat
    BY <2>1, FS_Subset, FS_CardinalityType
  <2>3. Cardinality(A) + stuck <= Threads
    BY <1>2 DEF Busy
  <2> HIDE DEF A
  <2> QED BY <2>1, <2>2, <2>3
<1>11. TypeOK
  BY <1>2, <1>3, <1>5, <1>6, <1>7, <1>8, <1>9 DEF TypeOK, Readers
<1>10. TroubleNeedsRestart
  BY <1>2 DEF OneGeneration, TroubleNeedsRestart
<1> QED
  BY <1>2, <1>10, <1>11 DEF ServerInv

\* The count of m_mtx goes down one by one and no further than -2: below -1 nobody gets in.
LEMMA ReadersKept == Types /\ Readers /\ [Next]_vars => Readers'
<1> SUFFICES ASSUME Types, Readers, [Next]_vars PROVE Readers'
  OBVIOUS
<1>1. CASE readers' = readers
  BY <1>1 DEF Readers
<1>2. CASE readers' = readers - 1 /\ ~Jammed
  BY <1>2 DEF Readers, Jammed
<1>3. ASSUME NEW n \in 0 .. 2, NEW fail \in BOOLEAN, Bind(n, fail) PROVE Readers'
  <2> DEFINE made == Cardinality({s \in SockIds : sock[s].made})
             new == made + 1 .. made + n
             files == [s \in SockIds |-> IF s \in new THEN [sock[s] EXCEPT !.made = TRUE, !.open = TRUE] ELSE sock[s]]
             list == IF fail THEN <<>> ELSE socks \o [i \in 1 .. n |-> made + i]
             gone == {s \in SockIds : files[s].open /\ ~Dropped(files, list, tasks)[s].open}
             closed == Cardinality(gone) + (IF fail /\ ~full THEN 1 ELSE 0)
  <2>1. readers' = IF closed <= readers + 2 THEN readers - closed ELSE -2
    BY <1>3 DEF Bind
  <2>2. Cardinality(gone) \in Nat
    <3>1. IsFiniteSet(SockIds)
      BY FS_Interval
    <3>2. gone \subseteq SockIds
      OBVIOUS
    <3> HIDE DEF gone
    <3> QED BY <3>1, <3>2, FS_Subset, FS_CardinalityType
  <2> HIDE DEF gone
  <2>3. closed \in Nat
    BY <2>2
  <2> HIDE DEF closed
  <2> QED BY <2>1, <2>3 DEF Readers
<1>4. ASSUME NEW t \in 1 .. MaxTasks, Dispatch(t) \/ Step(t)
      PROVE  readers' = readers \/ (readers' = readers - 1 /\ ~Jammed)
  BY <1>4 DEF Dispatch, Step, Check, Accept, Lock, Register, Cancel, Close, CloseF, mtx
<1>5. ASSUME NEW s \in SockIds, Trigger(s) \/ Connect(s) PROVE readers' = readers
  BY <1>5 DEF Trigger, Connect, mtx
<1>6. ASSUME Start \/ Stop \/ FillOrFree \/ UNCHANGED vars PROVE readers' = readers
  BY <1>6 DEF Start, Stop, FillOrFree, vars, mtx
<1>7. ASSUME HandleClient PROVE readers' = readers \/ (readers' = readers - 1 /\ ~Jammed)
  BY <1>7 DEF HandleClient
<1> QED
  BY <1>1, <1>2, <1>3, <1>4, <1>5, <1>6, <1>7 DEF Next

\* startListen and stop(), whenever bind(), start() and stop() are called and for any number
\* of threads, sockets and clients: addEvent's Assert fails, or a loop spins on a closed
\* socket, only after a start() that came before the tasks of an earlier stop() had ended;
\* and stop() can reach every loop that waits, but for the two gaps that WaitersReachable
\* names.
THEOREM ServerSafe == Spec => []ServerInv
<1>1. Init => Readers
  BY DEF Init, Readers
<1>2. IInv => Types
  BY DEF IInv, Parts
<1> QED
  BY <1>1, <1>2, InitIInv, NextIInv, ReadersKept, IInvImpliesServerInv, PTL DEF Spec
=============================================================================
