# Verification of the sylar network framework

TLA+ models of the framework in `src/src`: the scheduler's task list and life cycle,
fibers, the event poller, timers, the hooked system calls with their fd table, the TCP
server, and the objects these are built from. TLC checks them on small instances, TLAPS
proves the theorems of the modules whose names end in `_proofs` for all instances. `PROJECT.json` lists the runs, which definition models which lines, the
mutants that show that every property can fail, the hazards and the finding.

## 1. Inventory

| component | state | operations | interacts through |
|---|---|---|---|
| Scheduler, task list (`fiber/scheduler.*`) | `m_fibers` (std::list), `m_threads_mtx`, `m_fibers_mtx`, wake-up pipe | `schedule` (two overloads), scan and erase in `run`, `tickle` | every other part schedules tasks here |
| Scheduler, life cycle | `m_running`, `m_autoStop`, `m_activeThreadNum`, `m_threads`, `m_mainFiber`, idle fibers | constructor, `start`, `stop`, `run`, `idle`, `stopping` | creator thread and workers |
| Fiber (`fiber/fiber.*`) | `m_state`, `m_cb`, `m_ctx`, stack; thread-local `t_fiber` | construct, `reset`, `swapIn`, `swapOut`, `yieldToHold`, `MainFunc`, destroy | `run()` on one side, hooked calls on the other |
| EventPoller (`eventpoller/*`) | `m_fdContexts` (events, read and write context, mutex), `m_mtx`, `m_pendingEventCount`, epoll | `addEvent`, `delEvent`, `cancelEvent`, `cancelAll`, `contextResize`, `idle`, `triggerEvent` | kernel, `schedule`, timers |
| Timers (`timer/*`) | ordered set of timers, `m_mtx` | `addTimer`, `addConditionTimer`, `cancel`, `reset`, `refresh`, `getNextTimer`, `listExpiredCb` | `idle()` collects, `flushTimer` wakes it |
| Hooks (`util/hook.*`) | time-out flag per call | `do_io`, `sleep`, `connect`, `close`, `fcntl`, ... | EventPoller, timers, `yieldToHold` |
| FdManager (`socket/fdManager.*`) | table of FdCtx, `m_mtx` | `get`, `del` | hooks |
| TcpServer (`server/*`) | sockets, `m_running` | `bind`, `start`, `stop`, accept loop | two EventPollers |
| Socket, Address (`socket/*`) | fd, addresses | system calls, conversions | hooks |
| ByteArray (`socket/bytearray.*`) | chain of nodes, position, size, capacity | typed reads and writes, files | none |
| Thread, semaphore (`thread/*`) | id, running flag, `std::thread` | construct, `join`, destroy | Scheduler |
| Config (`config/*`) | values, listeners, registry | `Lookup`, `setValue`, listeners, YAML loading | Fiber (stack size), hooks (time-out) |
| Logger (`log/*`) | loggers, appenders, formats | log, configure | everywhere |
| ConcurrentVector, Singleton, env, daemon, util | small | small | |

What is hard here: two mutexes around one list; a fiber's state word that three
parties write without a lock; epoll results that are stale when they are handled;
a shared mutex unlocked by hand; wake-ups that must not be lost; shutting down while
all of this is going on; fd numbers that the kernel gives away again; time-outs that race
with what they guard; buffers and patterns at their edges. Correctness of the parts means:

* task list: every task is handed out exactly once, callbacks in order, nobody
  sleeps on a backlog;
* fibers: one thread per stack, state word truthful, a suspended body always known to
  somebody who will wake it, no Assert fails;
* poller: table, kernel and counter agree, waiters are neither forgotten nor woken
  twice, ready events are delivered;
* life cycle: `stop()` returns and nothing scheduled is left;
* timers: a callback goes to one of `cancel()` and the collector, no timer is forgotten,
  the poller does not sleep past the first;
* hooks: a call with a time-out returns, nobody waits on a file that is gone, no fiber
  blocks its thread, an `FdCtx` describes the file under its number;
* server: `stop()` reaches and ends every accept loop, accepted clients are handled;
* sockets, configuration, logging, vectors, threads: which uses are safe without locks,
  and that those leave the object consistent;
* buffers, addresses, patterns: what is written is read back, also at every edge.

## 2. Modules

| module | models | runs |
|---|---|---|
| `TaskPool` | abstract specification of the task list | as `PoolSpec` in `task_queue` |
| `TaskQueue`, `MCTaskQueue` | `schedule()` against the scan of `run()` | `task_queue`, `task_queue_loss` |
| `Fiber`, `MCFiber` | `fiber.cpp` and the body of `run()` | `fiber_single`, `fiber_workers` |
| `Scheduler`, `MCScheduler` | `start`, `run`, `stop`, `stopping`, `idle` | `scheduler` |
| `EventPoller`, `MCEventPoller` | `eventpoller.cpp` | `event_poller`, `event_poller_live` |
| `Timer`, `MCTimer` | `timer.cpp`, sleeping and collecting in `idle()` | `timer` |
| `Hook`, `MCHook` | `hook.cpp`, `fdManager.cpp` | `hook` |
| `TcpServer` | `TCPserver.cpp` | `server` |
| `Endian`, `ByteArray`, `Address`, `MCCodecs` | `endian.h`, `bytearray.cpp`, `address.cpp` | `codecs` |
| `Socket`, `Config`, `Logger`, `LogFormatter`, `ConcurrentVector`, `Thread`, `MCObjects` | one object each | `objects` |
| `EventPoller_proofs` | type correctness and safety of `EventPoller` | TLAPS |
| `TaskQueue_proofs` | safety of `TaskQueue`, refinement of `TaskPool` | TLAPS |
| `Fiber_proofs` | safety of `Fiber`, for one and for many workers | TLAPS |
| `Timer_proofs` | safety of `Timer` | TLAPS |
| `Hook_proofs` | `HookInv` of `Hook` | TLAPS |
| `TcpServer_proofs` | `ServerInv` of `TcpServer` | TLAPS |
| `Objects_proofs` | safety of `Thread`, `ConcurrentVector`, `Config`, `Socket`, `Logger`, `Scheduler` | TLAPS |
| `Codecs_proofs` | all properties of `ByteArray` and `Address`, and the parser of `LogFormatter` | TLAPS |

**TaskQueue.** `fibers` is the chain of nodes that `_M_next` links, `last` the
sentinel's `_M_prev`. `emplace_back` is three steps (read `last`, link, publish),
`erase` is two (read the neighbours under the scan, link them), because the two
critical sections do not exclude each other. The scan itself is one step: it only
reads links that a concurrent append changes at the end. A fiber task may be skipped
because its fiber is executing; which ones are is left open (`exec`). `Run` is the
whole dispatch; `Wake` is `epoll_wait` returning for the pipe or at its time-out.
Task status is mapped to `TaskPool`, which allows a loss: the code can lose a task
(`task_queue_loss`), but a lost or taken task never comes back.

**Fiber.** One action per store that another thread can see: `yieldToHold` stores
HOLD, `SwapOut` completes the `swapcontext`, `AfterSwapIn` reads `m_state`,
`SetHold` stores it. `saved` says that a fiber's context describes a stack nobody is
on. `begun` are the fibers with a body on their stack: `MainFunc` holds a reference
there, so they are not destroyed. `Arm` is the registration with a timer or an
FdContext by a hooked call, `Fire` the wake-up, which schedules the fiber for any
thread. The order of `m_fibers` is left open here (a superset of the code's choices).

**Scheduler.** `threads` are the `m_threadNum` workers, chosen at construction. `run[r]` is the loop of a worker, or of the creator inside
`m_mainFiber`. The two updates of `m_activeThreadNum` are a load and a store each.
`Poller` selects which `idle` and `stopping` apply. `EventPoller::stopping()` has no
return statement: its result is an arbitrary Boolean.

**EventPoller.** A thread's `call` record is its position in one of the operations.
A step is what happens between two points where other threads or the kernel can
tell the difference. `mutex` is each FdContext's mutex; `readers` is the count of
shared holders that `m_mtx` keeps, which the double unlock makes negative. The kernel
(external) has per fd the registered `interest`, the conditions that hold (`level`)
and whether the fd is on epoll's ready list (`ready`): an edge or an `epoll_ctl`
puts it there, `epoll_wait` takes it off. An fd outside `Table` makes `addEvent`
fail with an exception, since `contextResize` locks the mutex that `addEvent` holds.
A waiter is a fiber or callback; fds are not reused.

A failed `Assert` ends the process: `abort` names it and nothing happens afterwards.

**Timer.** A clock (`now`), the ordered set, callers and pollers. A section under the
exclusive lock is one step; `addTimer` inserts under a shared lock, so its insertion is
two; of two that overlap the later may drop any timers that were inserted meanwhile, but
brings none back (`lost`; a data race whose outcome is left open). `refresh()` is two sections, with a gap. The poller computes its
deadline, sleeps, and collects in separate steps; `blind` marks one that went to sleep
while a timer was already due, because `getNextTimer()` returns 0 then and 0 stands for
"no timer" in `idle()`.

**Hook.** Files and fd numbers are different things: `open` says which file a number
names, `datas` which `FdCtx` (named by the file it was made for) the table has for it. A
hooked call is tried, arms its time-out, registers, waits, is resumed and tries again;
close is `cancelAll`, `del` and `close_f`, with other fibers in between. `Expire` and
`Timeout` are a timer running out and its callback's `cancelEvent`. Cancelling is one step
here and registering two (`Lock` gets past `m_mtx`), since `EventPoller` shows what they do
inside; but what they leave of `m_mtx` is kept: `readers` goes down by one with each `cancelEvent` and `cancelAll`
(they unlock it twice), and below -1 (`Jammed`) whoever locks it next spins for ever, be it
`addEvent`, `close()` or a timer's callback (`spinning`). `Stale` is an FdContext that still
has an event of a file closed behind the poller's back: `EPOLL_CTL_MOD` fails there. On a
thread without hooks `socket()` makes no `FdCtx`, `accept()` does. Ghosts:
`early` (the time-out came before the registration), `gap` (the registration came after
`cancelAll`), `bypassed` (closed on a thread without hooks), `ioctled`.

**TcpServer.** bind, start and stop by the application in any order, called from a task as
`samples/EchoServer` does; each accept loop and each stop task is a task on one of `Threads`,
which it keeps until it waits or ends. Every socket that is closed, in `stop()`, in a bind
that fails, at the end of a loop or of a handler, costs `m_mtx` an unlock too many
(`readers`, `Jammed`, `stuck` as in `Hook`). `full` is a process without a free fd: `accept()`
fails as long as it lasts, and nothing makes it end. `start()` runs off its end without a
`return`; built as `CMakeLists.txt` says, without optimisation, it returns an arbitrary
value, which nobody uses.

**ByteArray.** `mem` is the memory of all nodes in order, `cur` the node that `m_cur`
points to; every access starts at `cur`, so that a `cur` that does not fit the position
shows. `ref` is the flat buffer that the code is compared with. A step into a null node is
`dead`; `stray` records the one write that goes on in the wrong node. Fixed and
variable-length integers, strings, iovecs and files are operators on such a buffer.
All four readers of variable-length integers return an `int32_t` (`Int32`), also
`readUint32`, `readUint64` and `readInt64`; `readStringVint` turns that into a 64-bit length.
Bytes are 3 bits wide (2 and the mark of a group that is not the last) and words 3 and 5 in
the run; the code's 8, 32 and 64 are the same constants.

**Address.** Operators over small bytes, compared with definitions by bits, groups or
characters. Only `broadcastAddress` and `networkAddress` of IPv4 and `networkAddress` of IPv6
refuse a prefix that is too long; in the others `CreateMask` shifts by a negative amount (any
mask it can make), or the byte written lies behind the address (the scope id).

**Socket, Config, Logger, ConcurrentVector, Thread.** One object, used by two threads
(`Thread`: by its owner and its own thread). A step ends where another thread can see the
difference; where the code's locks are commented out or missing, nothing keeps steps
apart. What undefined behaviour leads to is recorded (`stolen`, `hurt`, `trouble`,
`dangling`), and ghosts say whether operations have met (`overlap`, `met`,
`pushOverlap`). Two stores to one `shared_ptr` without a common lock may tear it (`Logger`,
`StoreFormatter`). An `accept()` whose `init()` fails leaves its file open without an owner
(`Socket`, `Lost`). **LogFormatter** is the parser, over six kinds of characters.

`MCCodecs` and `MCObjects` put parts side by side that share no state: `part` says which
one a behaviour is about.

## 3. What the runs show

| run | instance | checked | result |
|---|---|---|---|
| `task_queue` | 1 producer, 2 workers, 4 tasks: one pinned, one a fiber | `TypeOK`, `AtMostOnce`, `CallbackOrder`, `NoStalledBacklog`, refinement of `TaskPool` | hold |
| `task_queue_loss` | same | `NoTaskLost` | violated: append overlaps the erase of the last node |
| `event_poller` | 2 callers, 1 poller, 1 fd, 2 waiters, `epoll_ctl` may fail | `PendingExact`, `WaiterHeld`, `InterestInSync`, `ProtectedAsserts` | hold |
| `event_poller_live` | 1 caller, 1 poller, an fd beyond the table, hang-ups, fair | `TypeOK`, `ReadyIsDelivered` | hold |
| `fiber_single` | 1 worker, 2 tasks with up to 2 yields, fair | `TypeOK`, `AssertsHold`, `ExecIsRunning`, `ScheduledEnds` | hold |
| `fiber_workers` | 2 workers, 3 tasks, 2 yields, exceptions | `JobHeld`, `RaceNeedsYield` | hold |
| `scheduler` | creator, 0 to 2 workers, 3 tasks, fair | `TypeOK`, `StopDrains`, `StopReturns` | hold |
| `timer` | 2 timers (one recurring), 2 callers, 1 poller, 3 instants, fair | `TimerInv` (`TypeOK`, `OnlyResetOrRaceForgets`, `UndefinedNeedsGap`), `OneShot`, `SleepsNoLongerThanFirst`, `DueIsCollected` | hold |
| `hook` | 2 fibers (read and sleep; connect), a thread without hooks, 1 fd number for 2 files, fair | `HookInv` (`TypeOK`, `CtxMatchesFile`, `BlocksOnlyWhenStale`, `OrphanNeedsGap`, `TimeoutAhead`), `TimedCallReturns` | hold |
| `server` | 2 threads, 2 sockets, 3 tasks, 4 calls, 1 client, a process that may run out of fds, fair | `ServerInv` (`TypeOK`, `TroubleNeedsRestart`, `WaitersReachable`), `StoppedLoopsEnd`, `ClientsHandled` | hold |
| `codecs` | nodes of 2 bytes, 3 of them; words of 3 and 5 bits; addresses of 2 and 6 small bytes | `BufferInv`, `CodingsExact`, `CrashesOnlyAtEdge`, `AddressExact` | hold |
| `objects` | 2 threads on one object of each kind; patterns of up to 5 characters | `SocketInv`, `ListenersAgree`, `SkippedFileApplied`, `LoggerInv`, `FormatterExact`, `VectorInv`, `ThreadInv` | hold |

A name ending in `Inv` or `Exact` is the conjunction of the named parts that stand above
it in its module. What the runs show:

* *Fibers and poller.* With one thread in the poller and `yieldToHold` the fiber code is
  sound; with several threads it is sound only for tasks that do not yield, although even
  then no task is run twice or forgotten before the process aborts. The poller's table is
  consistent under every interleaving.
* *Timers.* Only `reset()` (which erases and does not insert) and two overlapping
  insertions lose a timer. The poller wakes in time unless a timer was already due when
  it went to sleep; such a timer waits for `MAX_TIMEOUT` and is collected then.
* *Hooks.* A call with a time-out is left waiting in four ways, all reached: the time-out
  comes between setting the timer and `addEvent`, where it cancels nothing; the call
  registers between another fiber's `cancelAll` and `close_f`; its fd is closed on a thread
  without hooks; or `m_mtx` is jammed. The last needs two `cancelEvent`s or `cancelAll`s in
  the life of the poller, that is two time-outs or two hooked closes of any fds, and then a
  third user; a long-lived process gets there. The properties name these four as their
  exceptions, so they do not say that such calls return: they say that no fifth way exists,
  up to the bounds.
* *Server.* A second `start()` before the first generation of tasks has ended is the one
  thing that makes `addEvent` abort or a loop spin on a closed socket. A `bind()` that fails
  throws away the sockets of a running server, whose loops `stop()` then cannot reach. After
  two closed clients, two failed `bind()` calls or the two `cancelAll`s for the first socket
  of a `stop()`, `m_mtx` is jammed and the next `cancelAll` or `addEvent` spins: a server with
  two sockets is never stopped whole. A loop that meets EMFILE tries again without yielding
  (`TCPserver.cpp:104-106`); as many loops as threads keep the handlers, which would give fds
  back, from ever running.
* *ByteArray.* `m_cur` follows the position except after a write into a full buffer from
  an earlier position. Variable-length integers lack their last group; with it appended,
  `readInt32` is right, `readUint32` and `readUint64` return 2^31 and more as something else,
  and 64-bit signed values come back only from -2^30 to 2^30 - 1, since `writeInt64` writes 32
  bits and the readers return an `int32_t` (`bytearray.cpp:135`, `:229`, `:244`, `:247`).
  `writeToFile` runs off the chain when it starts inside a node with less than a node to
  write.
* *Address.* `networkAddress` does not return the network: of IPv4 the host bits are left, of
  IPv6 the whole bytes of the prefix and the host bits of the byte in which it ends.
  `broadcastAddress` and `subnetMask` are right for prefixes that fit. Of IPv6 they write
  behind the address from full prefix length on; for IPv4, prefix 0 is undefined, and so is
  `subnetMask` of a prefix that is too long.
* *Patterns.* "%%" is not an escape: the first sign is copied and the second is looked at
  again (`logger.cpp:250-255`), so "%%" by itself is refused and "%%m" is a percent sign and
  an item.
* *Objects.* A Socket that is not shared never touches a file of somebody else and owns no
  file but `m_sock`'s; its cached local address may be stale. `accept()` leaks the new file
  if `init()` fails on it (`socket.cpp:158-161`). A configuration file that will be skipped
  has been applied, with the exceptions that the property lists. A Logger is safe unless
  a `setFormatter` without the lock meets another operation. A ConcurrentVector is safe
  only while `push_back` meets nobody, the sized constructor is not used and it does not
  outgrow its first locks. A Thread is complete when its constructor returns, and only one
  that was not joined is used after its destruction.

*Exceptions in properties.* A property such as "X needs Y" names in Y exactly what the
code lets happen. Every disjunct of Y was seen to be necessary: dropping it makes TLC find
a counterexample. (For `aborted` in `StoppedLoopsEnd` this takes a start after a stop and a
second stop, that is `MaxTasks` = 4 and `MaxCalls` = 5, which the property was also checked
with, for one and two sockets and no client.)

*Known defects without a run of their own.* The models contain these steps and the
properties above are stated around them:

* `idle()` triggers events that were withdrawn after `epoll_wait` reported them, and the
  Assert at `eventpoller.cpp:88` ends the process (`abort`, from `eventpoller.cpp:359`);
* `delEvent`, `cancelEvent` and `cancelAll` unlock `m_mtx` by hand and again in the
  destructor of the lock (`eventpoller.cpp:178`): `readers` becomes negative, and then
  every later shared lock spins (in `Hook` and `TcpServer` too, where it is an exception of
  the liveness properties);
* `run()` stores HOLD into a fiber that another worker may be running again
  (`scheduler.cpp:246`); its next `yieldToHold` fails the Assert at `fiber.cpp:195`;
* a fiber that ends by an exception stays EXCEPT (`fiber.cpp:228`), and its destructor's
  Assert at `fiber.cpp:86` fails;
* `EventPoller::stopping(timeout)` waits for `~0ull` (`eventpoller.cpp:62`), which
  `getNextTimer()` never returns, so `idle()` does not end and neither does `stop()`
  (`Scheduler` with `Poller = TRUE`).

Met while reading, outside the models: `run_daemon` never restarts its child; `newSock`
tests `m_sock` the wrong way round, so that the options of `initSock` are set only on a
socket that could not be made; names of parameters may
not contain the digit 9.

*Bounds.* The races involve two threads at one list node, fiber or FdContext, so two
of each kind of thread, one fd and two waiters reach them; four tasks allow an
append and an erase at the end, in the middle and next to a pinned task. `MaxYields`
= 2 lets a fiber be resumed, yield and be resumed again. `CountLimit` = 4 is more
than the threads can count, and small enough that an underflow of `m_activeThreadNum`
wraps. In `Timer` the clock runs to `Horizon` = 2, with delays of 1 and resets of 1 and 2, so a
recurring timer fires twice and one may be due, overslept and collected. In `Hook` one
number and `MaxFiles` = 2 force reuse; `MaxLate` = 1 is a callback that runs late;
`MaxCtl` = 1 is enough for each option to meet each call. In `TcpServer`, `MaxTasks` = 3
and `MaxCalls` = 4 allow start, stop, start and a bind that fails; failing accepts have no
bound. `readers` stops at -2 by itself, since nobody gets past the lock then. `MaxCapacity` = 6 with
`Base` = 2 has a first, a middle and a last node and both kinds of boundary. `ByteValues` has a
zero byte, a byte of ones and one between, and a `HostLength` of 6 is enough for an address in
brackets with a service. The bounds of
`objects` (`MaxOps`, `MaxSets`, `MaxLogOps`, `MaxVecOps`, ...) were chosen so that every
exception of every property is reached. Symmetry is used for threads, waiters, fibers and jobs in safety runs only.
`CHECK_DEADLOCK FALSE` is used where an abort ends the process, where a call may wait for
ever (`hook`, `server`), and where operations are bounded (`codecs`, `objects`); otherwise
TLC also shows the absence of deadlock.

*Fairness.* Threads keep running (weak fairness of a thread's own next step). A mutex
that is released again and again is obtained (strong fairness of the steps that wait
for an FdContext's mutex or for `m_fibers_mtx`). A poller comes back to `epoll_wait`,
which returns when the ready list is not empty. Sleeps end (`Fire`). `m_fibers` is
scanned from the front, so a task that can be taken again and again is taken. In `Timer` time passes and sleepers wake at their deadline;
in `Hook` time-outs expire and their callbacks run; in `TcpServer` free threads take tasks
in the order of the list. Nothing makes a caller call anything, a condition of an fd hold,
a client connect or an fd become free.

## 4. What is proved

`EventPoller_proofs`, theorem `TypeCorrect`: for any finite table, any sets of threads,
waiters and conditions, and any results of `epoll_ctl`, the variables keep their types
and a thread that has passed the size test works on an fd of the table (`FdInv`). The
type invariant alone is not inductive, since the steps after the test index
`m_fdContexts` without testing again; `FdInv` carries the test's result to them.
Assumed are only the named assumptions of `EventPoller`.

The same module proves `PendingExact` (`CountIsExact`), `WaiterHeld`
(`NobodyForgotten`), `InterestInSync` (`KernelInStep`) and `ProtectedAsserts`
(`AssertsAreProtected`) for all instances. None of them is inductive; `IInv` is
(theorem `Inductive`). Its layers, each preserved because of the ones before:

* `LockInv`, `ShapeInv`: a thread between its `epoll_ctl` and its unlock holds the
  mutex of the FdContext it works on, and the mutex of an FdContext is held only by
  such a thread. So at most one thread is inside an FdContext, and steps of the others
  do not touch what it relies on.
* `SectionInv`: `epoll_ctl` runs ahead of `events`, and `Section` says by how much at
  each point of each operation; at the unlock nothing is left of the difference, which
  is `InterestInSync`. For `idle()` the difference is what is still to be triggered:
  it may name events that were never registered (the stale results
  described in section 3), which is why `todo` and `events` are kept apart.
* `AddInv`, `ContextInv`, `WaiterHeld`: an `addEvent` under way owns its waiter, a
  context is filled exactly when its event is set, so registering and withdrawing keep
  waiters and contexts in one-to-one correspondence. `ContextInv` with `Section` rules out
  the Assert of `addEvent`, `Section` alone that of `cancelAll`.
* `PendingExact`: `CountUp`, `CountDown` and `CountSame` say how the cardinality of the
  counted pairs moves when one pair, or none, changes; `SoleOwner` says that only the
  thread inside an FdContext can owe a decrement or a trigger for it.

The other modules are proved in the same way: `Init => I`, `I /\ [Next]_vars => I'` and
`I => P`, for an inductive `I`. Constants have only the named
assumptions of their modules (finite sets, distinct null values, bounds that are numbers);
further hypotheses are named below.

`TaskQueue_proofs`: `TypeCorrect`, `TakenOnce` (`AtMostOnce`), `BacklogIsWoken`
(`NoStalledBacklog`, if there is a worker), `CallbacksInOrder` (`CallbackOrder`) and
`ImplementsPool` (`PoolSpec`).

* `Structure`: who holds which mutex; the node being erased is still at the position where
  it was found, since appends that come in between only add behind it (`EraseInPlace`); and
  the sentinel is its own predecessor only while the list is empty or its first node is not
  yet published (`SentinelLast`), so an append to the sentinel cuts off no node.
* `StepKinds` then sorts the steps: a step leaves the tasks alone, submits one, links one
  (to the list, or to a node that has left it), or takes one (an erase, which may drop what
  was appended behind the last node). All that follows is proved per kind.
* `OnePlace`: a submitted task is in a producer's hand, in the list or taken, in one of them
  at most and there once. `EraseFirst`: no plain callback is ahead of the node being erased.
  `InOrder`: the list is in the order of submission, and a callback taken is older than those
  in the list. `WokenOrAwake`: if all sleep, the pipe has a byte. For the refinement, lost
  tasks are those submitted that are in none of these places.

`Fiber_proofs`: `TypeCorrect`, `EveryJobHeld` (`JobHeld`) and `RacesNeedYields`
(`RaceNeedsYield`) for any number of workers; `AssertsOfOneWorker` (`AssertsHold`) and
`StateOfOneWorker` (`ExecIsRunning`) for one worker, if no body throws on a fiber that
`run()` will not reset (`~LateThrows`): without this the code's destructor aborts.

* `TurnInv`: at each point of `run()` which fiber a worker has, who may have the others
  (a worker, the list, a timer), and that a body begun is on exactly one of them.
* `CalmInv`: until a body yields, `m_state` follows from where the fiber is, for all
  workers. `AloneInv`: with one worker it always does.

`Timer_proofs`: `TimersKept` (`TimerInv`), `FiresOnce` (`OneShot`), `SleepsInTime`
(`SleepsNoLongerThanFirst`, if there is a poller). `Stages`: a timer in the set has its
callback, and one being inserted belongs to its inserter alone; `Starts`: the instant that
`reset(ms, false)` computes back lies in the past; `HandedOut`: a one-shot timer whose
callback was collected has lost it, and one poller has it. `SleepsInTime` rests on the
tickle: each insertion at the front leaves one under way until a poller has taken it.

`Hook_proofs`: `HookSafe` (`HookInv`). `Places` says what a fiber's locals hold at each point
of a hooked call. `Numbers` and `Owners`: files are numbered in the order of opening, a file
has one fd, and a fiber in `socket()` or `close()` has its fd alone, so that nobody sees an
FdCtx of a file before `get(fd, true)` and none is left after `del`. This carries
`CtxMatchesFile` through the reuse of a number, and with `NonBlocking` (a file with an FdCtx
is non-blocking unless `ioctl()` changed it) gives `BlocksOnlyWhenStale`. `Registered` and
`Cancelled`: a registration is of a fiber that waits for it, and behind `cancelAll` only a
fiber marked `gap` waits on that file. `TimeoutKnown`: where a time-out may be, from the
timer's start on, or that its callback spins. Steps that move one fiber (`Local`) and steps that withdraw registrations
(`Wake`) are proved once each. The assumption is that of `Hook`, with at least one fd.

`TcpServer_proofs`: `ServerSafe` (`ServerInv`). `OneGeneration`: without an early `start()`
there is one loop per socket, and while `m_running` no stop task is left and the loops'
sockets are open. `Walk`: one stop task at a time is in `m_socks`, with closed sockets
behind it; whoever registers on the socket it is closing is marked `gap`. `LoopsListed`: so
nothing open is thrown away when it clears `m_socks`. `Counted` bounds the connections with
prefix sums over the sockets, since a sum has no induction here.

`Objects_proofs`: `ThreadUsable` (`ThreadInv`), `VectorSafe` (`VectorInv`),
`ListenersToldTheTruth` (`ListenersAgree`), `FilesAreApplied` (`SkippedFileApplied`),
`SocketKeepsItsFile` (`SocketInv`), `LoggerSafe` (`LoggerInv`), each for any number of
threads, elements, listeners, files, numbers and appenders.

* `ThreadIInv`: what is constructed and who still refers to the object, by position.
* `VecIInv`: `m_size` is the number of elements plus the `push_back` calls between the two
  updates; users of the same stripe exclude each other; until two operations meet, each
  finds what it expects.
* `ConfigIInv`: while `setValue` walks alone, the listeners behind it have been told the new
  value and the others still believe the old one.
* `SockIInv`: at each place of an operation, which file the Socket owns and which its
  number names.
* `LogIInv`: while nothing has gone wrong (`hurt`), an attached appender not gone astray
  has the logger's formatter, or a walk has still to come by it; one with `m_hasFormatter`
  set has gone astray; and unless a null formatter was given, everything attached has one.

The same module has the Scheduler's `TypeCorrect`, and `StopIsDrained` (`StopDrains`) for the
plain Scheduler (`~Poller`) without tasks pinned to workers (`NoneForWorkers`). The second
hypothesis is necessary (section 5). `DrainInv` does not mention `m_activeThreadNum`: the
creator runs `m_mainFiber` after the joins, and that run leaves with an empty list.

`Codecs_proofs`: `BufferKept` (`BufferInv`), `CrashesAtTheEnd` (`CrashesOnlyAtEdge`) and
`CodingsAreExact` (`CodingsExact`), for nodes of every size, bytes of every width, any two
word widths of which `LongBits` is the greater, and all data.

* `IInv`: unless a write went into a full buffer from an earlier position (`ref.stray`), the
  array has the bytes, position and size of the flat buffer, and `EdgeOnly` says where
  `m_cur` is: at the node of the position (`Follows`), null behind the last one, until a
  null pointer is followed, which happens behind the last byte alone. The flat buffer knows
  no nodes, so for each operation it is shown that `m_cur` ends at the node of the new
  position and that the growth adds exactly the nodes that the flat buffer's adds.
* A loop of reads, writes, groups or chunks is a recursive function on its round numbers.
  `Iterate` says that such a function exists, `RoundByRound` carries a property of a
  round through all of them; both come from `SetInduction`, induction on Nat
  for a set instead of a predicate. For `Varint`, which recurses on the value, `Codes` are its
  restrictions to `0 .. m`, which agree with one another.
* The iovecs are consecutive pieces (`PlacesAre`), so that they name the places from the
  position on. `writeToFile` is followed chunk by chunk: `NextChunk` while its chunks are
  what is left of a node, `FileLost` where the first chunk's length goes wrong.
* Reading back: `Wrote` says what a write leaves before and behind the old position,
  `SeekBack` that a seek loses nothing of it. What is left is arithmetic: `BytesBack` for
  fixed integers (`DivTwice`: dividing twice is dividing by the product, for powers of two
  that come from the cardinality of SUBSET), `VarintShapes` for what `writeUint32` stores and
  leaves out, `UintDecodes` for the reader's rounds over it, and `Zigzag`. What comes back is
  stated as an equivalence, so that the values lost in the `int32_t` are proved lost.

`AddressesAreExact` in the same module is `AddressExact` for every width of a byte and of an
address. `AddrInv` says what the application holds: an address, a host, or a path with the
memory that its constructor filled. The rest is about operators:

* `BitBelow` and `BitAbove` say where division and remainder leave a bit, so a mask that is
  built by arithmetic fills exactly the bits of the host (`BroadcastBit`), and what
  `networkAddress` leaves is known bit by bit (`NetworkBit`).
* `CountBytes` clears the lowest bit round by round; a mask of p ones at the top keeps its
  shape and loses one (`ClearOfMask`), and the bytes' counts add up (`PrefixCounted`).
* `Shape` gives the groups before and behind the one run of zeros that `print` leaves out,
  and `TextGrows` follows the text from group to group. What `ToString` gives for a number is
  left open: both sides write the same.
* A path comes back up to its first zero (`PathReadBack`), and the order is decided at the
  first difference of two paths.

`PatternsTakenExactly` in the same module is `FormatterExact` for patterns of every length.

* `RoundInv`, before each round of the loop of `init()`: the items so far and the text that
  waits in `nstr` spell the pattern up to the current place, unless a format was not closed;
  in a pattern without braces the items are all known exactly when every percent sign so far
  was followed by what it may be. Each round moves on, so `Len(p)` of them reach the end.
* `FormatInv`, after each call: `m_error` is set exactly if some item is unknown or a mark of
  an error, and without a mark the items spell all patterns. It mentions the marks, not
  `m_error`, because what an unknown item spells is still its text.

Only model-checked are the liveness properties: the prover does not reason about fairness.

## 5. Not modelled, and the plan

Not modelled, with the reason, component by component in `PROJECT.json`:

* `LoadCounter`: called from commented-out lines only;
* `Singleton`, `env`, `daemon`, `util`, `macro`: sequential code around system calls;
  the loop of `run_daemon` runs once;
* conversions that libraries do (YAML, `getaddrinfo`, `getifaddrs`, `inet_pton`), the
  output of log items, log levels and files, and `LoggerManager`;
* getters and setters of socket options, which pass their arguments on;
* `yieldToReady`, which has no caller, and a restart of a Scheduler after `stop()`;
* in the runs of `Scheduler`: `use_caller = false`, where `stop()` may call through a null
  `m_mainFiber` (`scheduler.cpp:186`), and tasks pinned to a worker, which stay in
  `m_fibers` when that worker has left `run()` (`scheduler.cpp:210`). Both are in the
  model; nothing in the repository says what is promised there.
