------------------------------- MODULE Timer --------------------------------
(***************************************************************************)
(* TimerManager: the ordered set m_timers, the calls on it (addTimer,      *)
(* cancel, refresh, reset) and the part of EventPoller::idle() that sleeps *)
(* until the first timer and collects the expired ones.                    *)
(*                                                                         *)
(* A section under the exclusive lock is one step.  addTimer inserts under *)
(* a *shared* lock, so an insertion is two steps: two of them may overlap, *)
(* and the later one may then write back a tree that lacks the other timer *)
(* (the loss is one of the outcomes of that data race).  Every m_next that *)
(* the set is ordered by changes only while the timer is out of the set,   *)
(* so the set of timers stands for the tree.                               *)
(***************************************************************************)
EXTENDS Integers, FiniteSets, FiniteSetsExt

CONSTANTS
    Timers,         \* numbers: the addresses that break ties between equal m_next
    Recurring,      \* the timers made with recurring = true
    Callers,        \* threads that call addTimer, cancel, refresh, reset
    Pollers,        \* threads that run idle()
    Delays,         \* the ms that callers pass to addTimer
    ResetDelays,    \* and to reset
    MaxTimeout,     \* MAX_TIMEOUT of idle()
    Horizon         \* the last instant of the run

ASSUME TimersAssumption ==
    IsFiniteSet(Timers) /\ Timers # {} /\ Timers \subseteq Nat /\ Recurring \subseteq Timers
ASSUME DelaysAssumption ==
    /\ IsFiniteSet(Delays \cup ResetDelays) /\ Delays \cup ResetDelays \subseteq Nat
    /\ MaxTimeout \in Nat \ {0} /\ Horizon \in Nat

VARIABLES
    now,            \* getCurrentMS()
    m_timers,
    timer,          \* m_ms, m_next, m_cb; stage of its creation
    call,           \* what each caller is doing
    poller,         \* what each poller is doing
    tickled,        \* an unreported write to the tickle pipe
    undefined,      \* refresh() erased end()
    fired,          \* callbacks of one-shot timers scheduled, counted up to 2
    cancelled, wasReset, lost   \* timers that cancel() or reset() returned true for;
                                \* timers that a racing insertion dropped

vars == <<now, m_timers, timer, call, poller, tickled, undefined, fired, cancelled,
          wasReset, lost>>
history == <<fired, cancelled, wasReset, lost>>

Threads == Callers \cup Pollers
Instants == 0 .. Horizon + Max(Delays \cup ResetDelays \cup {MaxTimeout})

\* An idle caller, and the idle() loop about to compute its next time-out.
Free == [pc |-> "free", t |-> Min(Timers), seen |-> {}]
Looping == [pc |-> "arm", deadline |-> 0, blind |-> FALSE, byTickle |-> FALSE, cur |-> 0,
            cbs |-> {}]

Init ==
    /\ now = 0
    /\ m_timers = {}
    /\ timer = [t \in Timers |-> [stage |-> "unused", ms |-> 0, next |-> 0, cb |-> FALSE]]
    /\ call = [c \in Callers |-> Free]
    /\ poller = [p \in Pollers |-> Looping]
    /\ tickled = FALSE
    /\ undefined = FALSE
    /\ fired = [t \in Timers |-> 0]
    /\ cancelled = {} /\ wasReset = {} /\ lost = {}

\* Timer::Comparator: by m_next, then by address.
Before(s, t) ==
    IF timer[s].next # timer[t].next THEN timer[s].next < timer[t].next ELSE s < t

AtFront(t, set) == \A s \in set \ {t} : Before(t, s)

\* m_mtx cannot be locked exclusively while an insertion holds it shared.
Exclusive == \A c \in Callers : call[c].pc # "insert"

Tick ==
    /\ now < Horizon
    /\ now' = now + 1
    /\ UNCHANGED <<m_timers, timer, call, poller, tickled, undefined, history>>

-----------------------------------------------------------------------------
(* TimerManager::addTimer                                                    *)

\* The constructor reads the time, then the shared lock is taken; m_mtx is free
\* between the steps of this model, so waiting for it is Tick's business.
New(c, t, ms) ==
    /\ call[c].pc = "free" /\ timer[t].stage = "unused"
    /\ timer' = [timer EXCEPT ![t] = [stage |-> "adding", ms |-> ms, next |-> now + ms,
                                      cb |-> TRUE]]
    /\ call' = [call EXCEPT ![c] = [pc |-> "insert", t |-> t, seen |-> m_timers]]
    /\ UNCHANGED <<now, m_timers, poller, tickled, undefined, history>>

\* The tree after the insertion: the timer is in it; if another insertion ended
\* meanwhile, that one's timer may be gone.
Inserted(c) ==
    {set \cup {call[c].t} : set \in {s \in SUBSET m_timers : call[c].seen \cap m_timers \subseteq s}}

\* Mutant: the iterator is compared with the begin() from before the insertion.
InsertNeverFront(c) ==
    /\ call[c].pc = "insert"
    /\ m_timers' = m_timers \cup {call[c].t}
    /\ call' = [call EXCEPT ![c] = Free]
    /\ timer' = [timer EXCEPT ![call[c].t].stage = "shared"]
    /\ UNCHANGED <<now, poller, tickled, undefined, history>>

Insert(c) ==
    /\ call[c].pc = "insert"
    /\ \E set \in Inserted(c) :
          /\ m_timers' = set
          /\ lost' = lost \cup (m_timers \ set)
          /\ call' = IF AtFront(call[c].t, set)
                     THEN [call EXCEPT ![c].pc = "flush", ![c].seen = {}]
                     ELSE [call EXCEPT ![c] = Free]
    /\ timer' = [timer EXCEPT ![call[c].t].stage = "shared"]
    /\ UNCHANGED <<now, poller, tickled, undefined, fired, cancelled, wasReset>>

\* EventPoller::flushTimer
FlushTimer(c) ==
    /\ call[c].pc = "flush"
    /\ tickled' = TRUE
    /\ call' = [call EXCEPT ![c] = Free]
    /\ UNCHANGED <<now, m_timers, timer, poller, undefined, history>>

-----------------------------------------------------------------------------
(* Calls on a timer                                                          *)

Usable(c, t) == call[c].pc = "free" /\ timer[t].stage = "shared"

Cancel(c, t) ==
    /\ Usable(c, t) /\ Exclusive
    /\ timer[t].cb
    /\ timer' = [timer EXCEPT ![t].cb = FALSE]
    /\ m_timers' = m_timers \ {t}
    /\ cancelled' = cancelled \cup {t}
    /\ UNCHANGED <<now, call, poller, tickled, undefined, fired, wasReset, lost>>

\* refresh() looks at m_cb under one lock and at the set under another.
RefreshCheck(c, t) ==
    /\ Usable(c, t)
    /\ timer[t].cb
    /\ call' = [call EXCEPT ![c] = [pc |-> "refresh", t |-> t, seen |-> {}]]
    /\ UNCHANGED <<now, m_timers, timer, poller, tickled, undefined, history>>

\* Found: it gives up.  Not found: it erases end().
Refresh(c) ==
    /\ call[c].pc = "refresh" /\ Exclusive
    /\ undefined' = (call[c].t \notin m_timers)
    /\ call' = [call EXCEPT ![c].pc = IF undefined' THEN "stuck" ELSE "free",
                            ![c].t = IF undefined' THEN @ ELSE Free.t]
    /\ UNCHANGED <<now, m_timers, timer, poller, tickled, history>>

\* Erased and given a new m_next, and not inserted again.
Reset(c, t, ms, fromNow) ==
    /\ Usable(c, t) /\ Exclusive
    /\ ms # timer[t].ms \/ fromNow
    /\ timer[t].cb /\ t \in m_timers
    /\ m_timers' = m_timers \ {t}
    /\ LET start == IF fromNow THEN now ELSE timer[t].next - timer[t].ms
       IN  timer' = [timer EXCEPT ![t].ms = ms, ![t].next = start + ms]
    /\ wasReset' = wasReset \cup {t}
    /\ UNCHANGED <<now, call, poller, tickled, undefined, fired, cancelled, lost>>

-----------------------------------------------------------------------------
(* EventPoller::idle()                                                       *)

\* getNextTimer(): 0 also stands for "no timer" and for "overdue".
GetNextTimer ==
    IF m_timers = {} THEN 0
    ELSE LET next == Min({timer[t].next : t \in m_timers})
         IN  IF next >= now THEN next - now ELSE 0

\* stopping() reads the next timer; idle() turns it into epoll_wait's time-out.
Arm(p) ==
    /\ poller[p].pc = "arm"
    /\ LET wait == IF GetNextTimer = 0 \/ GetNextTimer > MaxTimeout THEN MaxTimeout
                   ELSE GetNextTimer
       IN  poller' = [poller EXCEPT ![p] = [Looping EXCEPT
                        !.pc = "wait", !.deadline = now + wait,
                        !.blind = GetNextTimer = 0 /\ m_timers # {}]]
    /\ UNCHANGED <<now, m_timers, timer, call, tickled, undefined, history>>

\* epoll_wait returns for the pipe, for the time-out, or for a registered fd.
Wake(p, cause) ==
    /\ poller[p].pc = "wait"
    /\ cause = "tickle" => tickled
    /\ cause = "timeout" => now >= poller[p].deadline \/ now = Horizon
    /\ tickled' = (tickled /\ cause # "tickle")
    /\ poller' = [poller EXCEPT ![p].pc = "check", ![p].byTickle = cause = "tickle",
                                ![p].blind = FALSE, ![p].deadline = 0]
    /\ UNCHANGED <<now, m_timers, timer, call, undefined, history>>

\* listExpiredCb(): the time is read first, then emptiness under a shared lock.
ListCheck(p) ==
    /\ poller[p].pc = "check"
    /\ poller' = [poller EXCEPT ![p].pc = IF m_timers = {} THEN "drain" ELSE "list",
                                ![p].cur = now]
    /\ UNCHANGED <<now, m_timers, timer, call, tickled, undefined, history>>

\* Mutant: lower_bound alone, without the timers due exactly now.
ExpiredBefore(cur) == {t \in m_timers : timer[t].next < cur}

Expired(cur) == {t \in m_timers : timer[t].next <= cur}

\* Mutant: a one-shot timer keeps its m_cb.
ListKeepsCb(p) ==
    LET expired == Expired(poller[p].cur) IN
    /\ poller[p].pc = "list" /\ Exclusive
    /\ timer' = [t \in Timers |->
                   IF t \in expired \cap Recurring
                   THEN [timer[t] EXCEPT !.next = poller[p].cur + timer[t].ms] ELSE timer[t]]
    /\ m_timers' = {t \in m_timers : t \in Recurring \/ t \notin expired}
    /\ poller' = [poller EXCEPT ![p].pc = "drain", ![p].cbs = expired]
    /\ UNCHANGED <<now, call, tickled, undefined, history>>

\* Mutant: a recurring timer is not inserted again.
ListDropsRecurring(p) ==
    LET expired == Expired(poller[p].cur) IN
    /\ poller[p].pc = "list" /\ Exclusive
    /\ timer' = [t \in Timers |-> IF t \in expired \ Recurring
                                  THEN [timer[t] EXCEPT !.cb = FALSE] ELSE timer[t]]
    /\ m_timers' = m_timers \ expired
    /\ poller' = [poller EXCEPT ![p].pc = "drain", ![p].cbs = expired]
    /\ UNCHANGED <<now, call, tickled, undefined, history>>

ListExpiredCb(p) ==
    LET expired == Expired(poller[p].cur) IN
    /\ poller[p].pc = "list" /\ Exclusive
    /\ timer' = [t \in Timers |->
                   IF t \notin expired THEN timer[t]
                   ELSE IF t \in Recurring
                        THEN [timer[t] EXCEPT !.next = poller[p].cur + timer[t].ms]
                        ELSE [timer[t] EXCEPT !.cb = FALSE]]
    /\ m_timers' = {t \in m_timers : t \in Recurring \/ t \notin expired}
    /\ poller' = [poller EXCEPT ![p].pc = "drain", ![p].cbs = expired]
    /\ UNCHANGED <<now, call, tickled, undefined, history>>

\* schedule(cbs); the pipe is read until it is empty; swapOut() and round again.
ScheduleExpired(p) ==
    /\ poller[p].pc = "drain"
    /\ fired' = [t \in Timers |-> IF t \in poller[p].cbs \ Recurring THEN Min({2, fired[t] + 1})
                                  ELSE fired[t]]
    /\ tickled' = (tickled /\ ~poller[p].byTickle)
    /\ poller' = [poller EXCEPT ![p] = Looping]
    /\ UNCHANGED <<now, m_timers, timer, call, undefined, cancelled, wasReset, lost>>

-----------------------------------------------------------------------------
Step(c) == Insert(c) \/ FlushTimer(c) \/ Refresh(c)
Idle(p) == Arm(p) \/ ListCheck(p) \/ ListExpiredCb(p) \/ ScheduleExpired(p)

\* The run is over: the clock has stopped and nothing is left to do.
Over ==
    /\ undefined \/ now = Horizon
    /\ UNCHANGED vars

Next ==
    \/ /\ ~undefined
       /\ \/ Tick
          \/ \E c \in Callers : Step(c)
          \/ \E c \in Callers, t \in Timers :
                \/ \E ms \in Delays : New(c, t, ms)
                \/ \E ms \in ResetDelays, b \in BOOLEAN : Reset(c, t, ms, b)
                \/ Cancel(c, t)
                \/ RefreshCheck(c, t)
          \/ \E p \in Pollers : Idle(p) \/ \E w \in {"tickle", "timeout", "fd"} : Wake(p, w)
    \/ Over

Spec == Init /\ [][Next]_vars

\* The kernel keeps time and wakes sleepers, and runs every thread.
FairSpec ==
    /\ Spec
    /\ WF_vars(~undefined /\ Tick)
    /\ \A c \in Callers : WF_vars(~undefined /\ Step(c))
    /\ \A p \in Pollers :
          WF_vars(~undefined /\ (Idle(p) \/ Wake(p, "tickle") \/ Wake(p, "timeout")))

-----------------------------------------------------------------------------
(* Properties                                                                *)

TypeOK ==
    /\ now \in 0 .. Horizon
    /\ m_timers \subseteq Timers
    /\ timer \in [Timers -> [stage : {"unused", "adding", "shared"}, ms : Delays \cup ResetDelays \cup {0},
                             next : Instants, cb : BOOLEAN]]
    /\ call \in [Callers -> [pc : {"free", "insert", "flush", "refresh", "stuck"},
                             t : Timers, seen : SUBSET Timers]]
    /\ poller \in [Pollers -> [pc : {"arm", "wait", "check", "list", "drain"},
                               deadline : Instants, blind : BOOLEAN, byTickle : BOOLEAN,
                               cur : 0 .. Horizon, cbs : SUBSET Timers]]
    /\ tickled \in BOOLEAN /\ undefined \in BOOLEAN
    /\ fired \in [Timers -> 0 .. 2]
    /\ cancelled \subseteq Timers /\ wasReset \subseteq Timers /\ lost \subseteq Timers

Collected(t) == \E p \in Pollers : t \in poller[p].cbs

\* A one-shot timer's callback is handed out once, or cancel() returned true, and
\* never both: whichever of cancel() and listExpiredCb() locks m_mtx first decides.
\* The time-out of do_io relies on it.
OneShot ==
    \A t \in Timers \ Recurring :
        /\ fired[t] + (IF Collected(t) THEN 1 ELSE 0) <= 1
        /\ t \in cancelled => fired[t] = 0 /\ ~Collected(t)

\* A timer that still has its callback is in m_timers, unless reset() took it out or
\* a racing insertion dropped it: no other call loses a timer that may yet fire.
OnlyResetOrRaceForgets ==
    \A t \in Timers : timer[t].stage = "shared" /\ timer[t].cb /\ t \notin m_timers =>
        t \in wasReset \cup lost

\* refresh() erases end() only for a timer that reset() or the insertion race took out
\* of the set, or one that fired or was cancelled between its two locks.
UndefinedNeedsGap ==
    undefined => \A c \in Callers : call[c].pc = "stuck" =>
        ~timer[call[c].t].cb \/ call[c].t \in wasReset \cup lost

\* While every poller sleeps, one of them wakes no later than the first timer, or has
\* been tickled, or is about to be -- except one that went to sleep when a timer was
\* already due, which getNextTimer() reports as if there were none.
SleepsNoLongerThanFirst ==
    \A t \in m_timers :
        \/ tickled
        \/ \E c \in Callers : call[c].pc = "flush"
        \/ \E p \in Pollers : \/ poller[p].pc # "wait"
                              \/ poller[p].deadline <= timer[t].next
                              \/ poller[p].blind

\* Every timer in the set fires or leaves it, also one that idle() overslept.
DueIsCollected ==
    \A t \in Timers :
        (t \in m_timers /\ timer[t].next <= Horizon) ~>
            (t \notin m_timers \/ timer[t].next > Horizon \/ undefined)

\* What always holds of m_timers: only reset() and racing insertions (addTimer's shared
\* lock) lose a timer, and refresh() goes wrong only for one that left the set.
TimerInv == TypeOK /\ OnlyResetOrRaceForgets /\ UndefinedNeedsGap
=============================================================================
