------------------------------- MODULE Fiber --------------------------------
(***************************************************************************)
(* Fibers and the body of Scheduler::run() that switches to and from them. *)
(*                                                                         *)
(* A worker that has taken a task swaps a Fiber in; the task's body may    *)
(* register a wake-up (a timer, an fd event) and yieldToHold(); the        *)
(* wake-up schedules the fiber for any worker.  m_state is a plain field   *)
(* that the owner of the stack, run() and the scans of all workers access  *)
(* without a common lock, so the switch is modelled store by store:        *)
(*                                                                         *)
(*   yieldToHold   Assert EXEC, m_state := HOLD    swapcontext             *)
(*   run()         read m_state                    m_state := HOLD         *)
(*                                                                         *)
(* saved tells whether a fiber's ucontext describes a stack that nobody is *)
(* running on.  A failed Assert, and a swapcontext to a stack in use, end  *)
(* the process: abort names it.                                            *)
(***************************************************************************)
EXTENDS Naturals, FiniteSets

CONSTANTS
    Workers,        \* threads in run()
    Fibers,         \* room for Fiber objects
    Jobs,           \* task bodies
    MaxYields,      \* bound: how often a body yields
    LateThrows,     \* whether a body may throw on a fiber that run() will not
                    \* reset: one the user made, or one that has yielded
    NoFiber, NoJob

ASSUME BoundAssumption == MaxYields \in Nat /\ LateThrows \in BOOLEAN
ASSUME NullAssumption == NoFiber \notin Fibers /\ NoJob \notin Jobs

VARIABLES
    state, cb, saved,   \* Fiber: m_state ("none": no such object), m_cb, m_ctx
    begun,              \* fibers whose body is on their stack; MainFunc and
                        \* yieldToHold keep a reference to them there (cur)
    armed,              \* fibers that a timer or an FdContext refers to
    readyFibers,        \* m_fibers: tasks that carry a fiber,
    readyCbs,           \*           tasks that carry a callback
    cbFiber,            \* run(): cb_fiber of each worker
    pc, on,             \* where each worker is, and the fiber it deals with
    yields, runs, ends, \* history of each job: yields, starts, returns or throws
    abort

queue == <<readyFibers, readyCbs>>
jobs == <<yields, runs, ends>>
vars == <<state, cb, saved, begun, armed, readyFibers, readyCbs, cbFiber, pc, on,
          yields, runs, ends, abort>>

States == {"INIT", "HOLD", "EXEC", "TERM", "EXCEPT"}

\* "in": about to swapIn; "body": the task runs; "wait": it has registered its
\* wake-up; "switch": in swapOut; "after": back in run(); "hold": run() has read
\* m_state and will store HOLD.
Pcs == {"scan", "in", "body", "wait", "switch", "after", "hold"}

Aborts == {"no", "swapIn: EXEC", "swapIn: stack in use", "reset: state",
           "addEvent: not EXEC", "yieldToHold: not EXEC", "~Fiber: state"}

Init ==
    /\ state = [f \in Fibers |-> "none"]
    /\ cb = [f \in Fibers |-> NoJob]
    /\ saved = [f \in Fibers |-> TRUE]
    /\ begun = {}
    /\ armed = {}
    /\ readyFibers = {}
    /\ readyCbs = {}
    /\ cbFiber = [w \in Workers |-> NoFiber]
    /\ pc = [w \in Workers |-> "scan"]
    /\ on = [w \in Workers |-> NoFiber]
    /\ yields = [j \in Jobs |-> 0]
    /\ runs = [j \in Jobs |-> 0]
    /\ ends = [j \in Jobs |-> 0]
    /\ abort = "no"

Fail(name) ==
    /\ abort' = name
    /\ UNCHANGED <<state, cb, saved, begun, armed, queue, cbFiber, pc, on, jobs>>

\* The worker deals with a callback on its own cb_fiber, not with ft.fiber.
OnCbFiber(w) == on[w] = cbFiber[w]

Submitted(j) ==
    \/ j \in readyCbs \/ runs[j] > 0
    \/ \E f \in Fibers : state[f] # "none" /\ cb[f] = j

-----------------------------------------------------------------------------
(* Tasks come in                                                             *)

Schedule(j) ==
    /\ ~Submitted(j)
    /\ readyCbs' = readyCbs \cup {j}
    /\ UNCHANGED <<state, cb, saved, begun, armed, readyFibers, cbFiber, pc, on, jobs, abort>>

\* schedule(Fiber::Ptr(new Fiber(j, 0, false))): the caller keeps no reference.
ScheduleFiber(j, f) ==
    /\ ~Submitted(j)
    /\ state[f] = "none"
    /\ state' = [state EXCEPT ![f] = "INIT"]
    /\ cb' = [cb EXCEPT ![f] = j]
    /\ saved' = [saved EXCEPT ![f] = TRUE]
    /\ readyFibers' = readyFibers \cup {f}
    /\ UNCHANGED <<begun, armed, readyCbs, cbFiber, pc, on, jobs, abort>>

\* The timer expires, the event is triggered or cancelled: schedule(fiber).
FireUnscheduled(f) ==
    /\ f \in armed
    /\ armed' = armed \ {f}
    /\ UNCHANGED <<state, cb, saved, begun, queue, cbFiber, pc, on, jobs, abort>>

Fire(f) ==
    /\ f \in armed
    /\ armed' = armed \ {f}
    /\ readyFibers' = readyFibers \cup {f}
    /\ UNCHANGED <<state, cb, saved, begun, readyCbs, cbFiber, pc, on, jobs, abort>>

-----------------------------------------------------------------------------
(* run(): take a task and swap its fiber in                                  *)

\* A fiber that is executing stays in the list.
TakeFiber(w, f) ==
    /\ pc[w] = "scan"
    /\ f \in readyFibers /\ state[f] # "EXEC"
    /\ readyFibers' = readyFibers \ {f}
    /\ pc' = [pc EXCEPT ![w] = "in"]
    /\ on' = [on EXCEPT ![w] = f]
    /\ UNCHANGED <<state, cb, saved, begun, armed, readyCbs, cbFiber, jobs, abort>>

\* m_fibers.erase(it)
ErasedNot(j) == readyCbs

Erased(j) == readyCbs \ {j}

\* cb_fiber is reset to the callback, or a new one is made from it (f).
TakeCb(w, j, f) ==
    /\ pc[w] = "scan"
    /\ j \in readyCbs
    /\ IF cbFiber[w] = NoFiber THEN state[f] = "none" ELSE f = cbFiber[w]
    /\ IF state[f] \notin {"none", "INIT", "TERM", "EXCEPT"} THEN Fail("reset: state")
       ELSE /\ readyCbs' = Erased(j)
            /\ state' = [state EXCEPT ![f] = "INIT"]
            /\ cb' = [cb EXCEPT ![f] = j]
            /\ saved' = [saved EXCEPT ![f] = TRUE]
            /\ cbFiber' = [cbFiber EXCEPT ![w] = f]
            /\ pc' = [pc EXCEPT ![w] = "in"]
            /\ on' = [on EXCEPT ![w] = f]
            /\ UNCHANGED <<begun, armed, readyFibers, jobs, abort>>

\* Nothing to take: the idle fiber runs and swaps out again.
Idle(w) ==
    /\ pc[w] = "scan"
    /\ readyCbs = {}
    /\ \A f \in readyFibers : state[f] = "EXEC"
    /\ UNCHANGED vars

\* Who refers to f besides worker w, which is about to forget it.
Referenced(f, w) ==
    \/ f \in readyFibers \cup armed \cup begun
    \/ \E u \in Workers \ {w} : f \in {on[u], cbFiber[u]}

\* ft.reset() at the top of the loop; s is m_state by then.
Forget(w, s) ==
    LET f == on[w] IN
    IF Referenced(f, w) \/ s \in {"INIT", "TERM"}
    THEN /\ state' = [state EXCEPT ![f] = IF Referenced(f, w) THEN s ELSE "none"]
         /\ pc' = [pc EXCEPT ![w] = "scan"]
         /\ on' = [on EXCEPT ![w] = NoFiber]
         /\ UNCHANGED <<cb, saved, begun, armed, queue, cbFiber, jobs, abort>>
    ELSE Fail("~Fiber: state")

\* run() drops a task whose fiber has ended; otherwise swapIn().
SwapIn(w) ==
    LET f == on[w] IN
    /\ pc[w] = "in"
    /\ IF state[f] \in {"TERM", "EXCEPT"} THEN Forget(w, state[f])
       ELSE IF state[f] = "EXEC" THEN Fail("swapIn: EXEC")
       ELSE IF ~saved[f] THEN Fail("swapIn: stack in use")
       ELSE /\ runs' = IF f \in begun THEN runs ELSE [runs EXCEPT ![cb[f]] = @ + 1]
            /\ begun' = begun \cup {f}
            /\ state' = [state EXCEPT ![f] = "EXEC"]
            /\ saved' = [saved EXCEPT ![f] = FALSE]
            /\ pc' = [pc EXCEPT ![w] = "body"]
            /\ UNCHANGED <<cb, armed, queue, cbFiber, on, yields, ends, abort>>

-----------------------------------------------------------------------------
(* The task's body                                                           *)

\* A hooked call registers the fiber with a timer (sleep) or, through addEvent,
\* which asserts that the fiber is EXEC, with an FdContext.
Arm(w, event) ==
    LET f == on[w] IN
    /\ pc[w] = "body"
    /\ yields[cb[f]] < MaxYields
    /\ IF event /\ state[f] # "EXEC" THEN Fail("addEvent: not EXEC")
       ELSE /\ armed' = armed \cup {f}
            /\ yields' = [yields EXCEPT ![cb[f]] = @ + 1]
            /\ pc' = [pc EXCEPT ![w] = "wait"]
            /\ UNCHANGED <<state, cb, saved, begun, queue, cbFiber, on, runs, ends, abort>>

\* What yieldToHold stores.
HoldForgotten == "EXEC"

HoldAsReady == "READY"

Hold == "HOLD"

yieldToHold(w) ==
    LET f == on[w] IN
    /\ pc[w] = "wait"
    /\ IF state[f] # "EXEC" THEN Fail("yieldToHold: not EXEC")
       ELSE /\ state' = [state EXCEPT ![f] = Hold]
            /\ pc' = [pc EXCEPT ![w] = "switch"]
            /\ UNCHANGED <<cb, saved, begun, armed, queue, cbFiber, on, jobs, abort>>

EndStateForgotten(throws) == "EXEC"

EndState(throws) == IF throws THEN "EXCEPT" ELSE "TERM"

\* MainFunc: the body returns, or an exception leaves it; cur.reset().
MainFuncEnd(w, throws) ==
    LET f == on[w] IN
    /\ pc[w] = "body"
    /\ throws => LateThrows \/ OnCbFiber(w)
    /\ state' = [state EXCEPT ![f] = EndState(throws)]
    /\ cb' = IF throws THEN cb ELSE [cb EXCEPT ![f] = NoJob]
    /\ begun' = begun \ {f}
    /\ ends' = [ends EXCEPT ![cb[f]] = @ + 1]
    /\ pc' = [pc EXCEPT ![w] = "switch"]
    /\ UNCHANGED <<saved, armed, queue, cbFiber, on, yields, runs, abort>>

\* swapOut(): swapcontext has stored the registers and left the stack.
SwapOut(w) ==
    /\ pc[w] = "switch"
    /\ saved' = [saved EXCEPT ![on[w]] = TRUE]
    /\ pc' = [pc EXCEPT ![w] = "after"]
    /\ UNCHANGED <<state, cb, begun, armed, queue, cbFiber, on, jobs, abort>>

-----------------------------------------------------------------------------
(* run(): after swapIn() has returned                                        *)

\* m_state is read (READY is never stored by a fiber that swaps out).  A cb_fiber
\* that has ended is reset(nullptr) for the next callback.
AfterSwapIn(w) ==
    LET f == on[w] IN
    /\ pc[w] = "after"
    /\ IF state[f] \notin {"TERM", "EXCEPT"}
       THEN /\ pc' = [pc EXCEPT ![w] = "hold"]
            /\ UNCHANGED <<state, cb, saved, begun, armed, queue, cbFiber, on, jobs, abort>>
       ELSE IF ~OnCbFiber(w) THEN Forget(w, state[f])
       ELSE /\ state' = [state EXCEPT ![f] = "INIT"]
            /\ cb' = [cb EXCEPT ![f] = NoJob]
            /\ pc' = [pc EXCEPT ![w] = "scan"]
            /\ on' = [on EXCEPT ![w] = NoFiber]
            /\ UNCHANGED <<saved, begun, armed, queue, cbFiber, jobs, abort>>

\* A cb_fiber that has yielded is given up: cb_fiber.reset().
CbFiberKept(w) == cbFiber[w]

CbFiberLeft(w) == IF OnCbFiber(w) THEN NoFiber ELSE cbFiber[w]

SetHold(w) ==
    LET f == on[w] IN
    /\ pc[w] = "hold"
    /\ IF Referenced(f, w)
       THEN /\ state' = [state EXCEPT ![f] = "HOLD"]
            /\ cbFiber' = [cbFiber EXCEPT ![w] = CbFiberLeft(w)]
            /\ pc' = [pc EXCEPT ![w] = "scan"]
            /\ on' = [on EXCEPT ![w] = NoFiber]
            /\ UNCHANGED <<cb, saved, begun, armed, queue, jobs, abort>>
       ELSE Fail("~Fiber: state")

-----------------------------------------------------------------------------
WorkerStep(w) ==
    \/ \E f \in Fibers : TakeFiber(w, f)
    \/ \E j \in Jobs, f \in Fibers : TakeCb(w, j, f)
    \/ SwapIn(w)
    \/ \E event \in BOOLEAN : Arm(w, event)
    \/ yieldToHold(w)
    \/ \E throws \in BOOLEAN : MainFuncEnd(w, throws)
    \/ SwapOut(w) \/ AfterSwapIn(w) \/ SetHold(w)

Next ==
    /\ abort = "no"
    /\ \/ \E j \in Jobs : Schedule(j) \/ \E f \in Fibers : ScheduleFiber(j, f)
       \/ \E f \in Fibers : Fire(f)
       \/ \E w \in Workers : WorkerStep(w) \/ Idle(w)

Spec == Init /\ [][Next]_vars

\* Workers run; sleeps end and time-outs are set, so wake-ups come; m_fibers is
\* scanned in order, so a task that can be taken again and again is taken.  (Bodies
\* need not be fair about which way they go, only about going on.)
Fairness ==
    /\ \A f \in Fibers : WF_vars(abort = "no" /\ Fire(f))
    /\ \A w \in Workers :
         /\ WF_vars(abort = "no" /\ pc[w] # "scan" /\ WorkerStep(w))
         /\ \A f \in Fibers : SF_vars(abort = "no" /\ TakeFiber(w, f))
         /\ \A j \in Jobs :
              SF_vars(abort = "no" /\ \E f \in Fibers : TakeCb(w, j, f))

FairSpec == Spec /\ Fairness

-----------------------------------------------------------------------------
TypeOK ==
    /\ state \in [Fibers -> States \cup {"none"}]
    /\ cb \in [Fibers -> Jobs \cup {NoJob}]
    /\ saved \in [Fibers -> BOOLEAN]
    /\ begun \subseteq Fibers
    /\ armed \subseteq Fibers
    /\ readyFibers \subseteq Fibers
    /\ readyCbs \subseteq Jobs
    /\ cbFiber \in [Workers -> Fibers \cup {NoFiber}]
    /\ pc \in [Workers -> Pcs]
    /\ on \in [Workers -> Fibers \cup {NoFiber}]
    /\ yields \in [Jobs -> 0..MaxYields]
    /\ runs \in [Jobs -> Nat]
    /\ ends \in [Jobs -> Nat]
    /\ abort \in Aborts

\* No Assert of fiber.cpp fails and nobody switches to a stack in use, whatever
\* the order of yields, wake-ups and reuse of cb_fiber.
AssertsHold == abort = "no"

\* m_state, which the scans of all workers consult, tells the truth: EXEC exactly
\* while some worker runs the fiber's body, and then only one does.
ExecIsRunning ==
    /\ \A f \in Fibers :
         state[f] = "EXEC" <=> \E w \in Workers : on[w] = f /\ pc[w] \in {"body", "wait"}
    /\ \A v, w \in Workers : v # w /\ on[v] = on[w] => on[v] = NoFiber

\* With several workers, too, a task can only go wrong by yielding or by throwing:
\* bodies that run to their end never make an Assert fail, and until one yields
\* m_state tells the truth.
RaceNeedsYield ==
    (\A j \in Jobs : yields[j] = 0) =>
      abort \in {"no", "~Fiber: state"} /\ ExecIsRunning

Holders(j) == {f \in Fibers : state[f] # "none" /\ cb[f] = j}

\* No task is run twice or forgotten half-way: until its body ends it is in
\* m_fibers or the callback of exactly one Fiber, although cb_fiber is reused; and
\* a fiber whose body is suspended is with a worker, in m_fibers, or known to a
\* timer or an FdContext.
JobHeld ==
    /\ \A j \in Jobs :
         /\ ends[j] <= runs[j] /\ runs[j] <= 1
         /\ j \in readyCbs => Holders(j) = {} /\ runs[j] = 0
         /\ runs[j] > ends[j] => \E f \in begun : Holders(j) = {f}
    /\ \A f \in begun :
         f \in armed \cup readyFibers \/ \E w \in Workers : on[w] = f

\* A task that was scheduled ends, through any number of sleeps.
ScheduledEnds == \A j \in Jobs : Submitted(j) ~> ends[j] = 1
=============================================================================
