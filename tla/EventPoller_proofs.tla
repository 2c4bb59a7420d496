------------------------ MODULE EventPoller_proofs --------------------------
(***************************************************************************)
(* The safety of EventPoller for every number of threads, file descriptors *)
(* and waiters and every result of epoll_ctl.  The variables keep their    *)
(* types, every access to m_fdContexts is below its size, and then, in     *)
(* layers, each inductive given the ones before:                           *)
(*                                                                         *)
(*   LockInv, ShapeInv           who is inside which FdContext             *)
(*   SectionInv, InterestInSync  how far a call inside has moved the       *)
(*                               kernel's interest and events apart        *)
(*   AddInv, ContextInv, WaiterHeld, ProtectedAsserts                      *)
(*                               which waiter is in which context          *)
(*   PendingExact                what has been counted                     *)
(***************************************************************************)
EXTENDS EventPoller, FiniteSetTheorems, TLAPS

-----------------------------------------------------------------------------
(* Type correctness                                                          *)

\* Each way of moving on gives a well-typed record.
LEMMA GotoType ==
    ASSUME TypeOK, NEW t \in Threads, NEW pc \in Pcs, Goto(t, pc)
    PROVE  call' \in [Threads -> CallRec]
  BY DEF TypeOK, Goto, CallRec

LEMMA ReturnType ==
    ASSUME TypeOK, NEW t \in Threads, Return(t)
    PROVE  call' \in [Threads -> CallRec]
  BY DEF TypeOK, Return, CallRec, Ops, Pcs

LEMMA GoType ==
    ASSUME TypeOK, NEW t \in Threads, NEW op \in Ops, NEW pc \in Pcs, NEW f \in Fds,
           NEW e \in Events, NEW todo \in SUBSET Events, Go(t, op, pc, f, e, todo)
    PROVE  call' \in [Threads -> CallRec]
  BY DEF TypeOK, Go, CallRec

LEMMA CtlType ==
    ASSUME TypeOK, NEW f, NEW evs, f \in Table => evs \subseteq Events, NEW ok \in BOOLEAN,
           EpollCtl(f, evs, ok)
    PROVE  /\ interest' \in [Table -> SUBSET Events]
           /\ ready' \in [Table -> BOOLEAN]
           /\ level' \in [Table -> SUBSET Conditions]
  BY DEF TypeOK, EpollCtl

LEMMA CtxType ==
    ASSUME TypeOK, NEW f \in Table, NEW e \in Events, NEW w \in Waiters \cup {NoWaiter},
           ctx' = [ctx EXCEPT ![f][e] = w]
    PROVE  ctx' \in [Table -> [Events -> Waiters \cup {NoWaiter}]]
  BY DEF TypeOK

LEMMA FailType ==
    ASSUME TypeOK, NEW name \in Aborts, Fail(name)
    PROVE  TypeOK'
  BY DEF TypeOK, Fail, kernel

LEMMA CallFacts ==
    ASSUME TypeOK, NEW t \in Threads
    PROVE  /\ call[t] \in CallRec
           /\ call[t].op \in Ops /\ call[t].pc \in Pcs /\ call[t].fd \in Fds
           /\ call[t].ev \in Events /\ call[t].who \in Waiters \cup {NoWaiter}
           /\ call[t].todo \subseteq Events
  BY DEF TypeOK, CallRec

\* A thread that has passed the size test works on an fd of the table.
FdInv == \A t \in Threads :
    call[t].pc \in {"ctl", "set", "dec", "trig", "exit"} => call[t].fd \in Table

\* What typing needs: the variables that a step may change otherwise than by
\* one of the operators above.
LEMMA StepType ==
    ASSUME TypeOK, FdInv, NEW t \in Threads, Step(t)
    PROVE  TypeOK'
<1>. DEFINE f == call[t].fd
            e == call[t].ev
<1>0. call[t].pc \in {"ctl", "set", "dec", "trig", "exit"} => f \in Table
  BY DEF FdInv
<1>1. CASE RdLock(t)
  BY <1>1, GotoType DEF RdLock, TypeOK, table, kernel, Pcs
<1>2. CASE Lookup(t)
  <2>1. call' \in [Threads -> CallRec]
    BY <1>2, GotoType, ReturnType DEF Lookup, Pcs
  <2>. QED BY <1>2, <2>1 DEF Lookup, TypeOK, table, kernel
<1>3. CASE Grow(t)
  BY <1>3, ReturnType DEF Grow, TypeOK, table, kernel, WaiterStates
<1>4. CASE Unlock(t)
  BY <1>4, ReturnType DEF Unlock, TypeOK, table, kernel
<1>5. CASE AddCtl(t)
  <2>1. CASE AlreadyRegistered(f, e)
    BY <1>5, <2>1, FailType DEF AddCtl, Aborts
  <2>2. CASE ~AlreadyRegistered(f, e)
    <3>1. f \in Table /\ events[f] \cup {e} \subseteq Events
      BY <1>0, <1>5, CallFacts DEF AddCtl, TypeOK
    <3>2. PICK ok \in CtlResults :
             /\ EpollCtl(f, events[f] \cup {e}, ok)
             /\ IF Refused(ok)
                THEN /\ waiter' = [waiter EXCEPT ![call[t].who] = "running"]
                     /\ Return(t)
                     /\ UNCHANGED mutex
                ELSE /\ mutex' = [mutex EXCEPT ![f] = t]
                     /\ Goto(t, "set")
                     /\ UNCHANGED waiter
             /\ UNCHANGED <<table, pending, readers, batch, abort>>
      BY <1>5, <2>2 DEF AddCtl
    <3>3. /\ interest' \in [Table -> SUBSET Events]
          /\ ready' \in [Table -> BOOLEAN]
          /\ level' \in [Table -> SUBSET Conditions]
      <4>1. ok \in BOOLEAN /\ EpollCtl(f, events[f] \cup {e}, ok) BY <3>2, CtlAssumption
      <4>. QED BY <3>1, <4>1, CtlType
    <3>4. call' \in [Threads -> CallRec]
      BY <3>2, ReturnType, GotoType DEF Pcs
    <3>5. mutex' \in [Table -> Threads \cup {NoThread}] /\ waiter' \in [Waiters -> WaiterStates]
      BY <3>2 DEF TypeOK, WaiterStates
    <3>. QED BY <3>2, <3>3, <3>4, <3>5 DEF TypeOK, table
  <2>. QED BY <2>1, <2>2
<1>6. CASE AddSet(t)
  <2>1. CASE getContext(f, e) # NoWaiter
    BY <1>6, <2>1, FailType DEF AddSet, Aborts
  <2>2. CASE getContext(f, e) = NoWaiter
    <3>1. call' \in [Threads -> CallRec]
      BY <1>6, <2>2, ReturnType DEF AddSet
    <3>2. events' \in [Table -> SUBSET Events]
      BY <1>6, <2>2, CallFacts DEF AddSet, TypeOK
    <3>3. ctx' \in [Table -> [Events -> Waiters \cup {NoWaiter}]]
      BY <1>6, <2>2, <1>0, CallFacts, CtxType DEF AddSet
    <3>. QED BY <1>6, <2>2, <3>1, <3>2, <3>3 DEF AddSet, TypeOK, kernel, WaiterStates
  <2>. QED BY <2>1, <2>2
<1>7. CASE WithdrawCtl(t)
  <2>1. f \in Table => Left(f, {e}) \subseteq Events
    BY DEF TypeOK, Left
  <2>2. call' \in [Threads -> CallRec]
    BY <1>7, GotoType DEF WithdrawCtl, Pcs
  <2>3. mutex' \in [Table -> Threads \cup {NoThread}]
    BY <1>7 DEF WithdrawCtl, TypeOK
  <2>4. /\ interest' \in [Table -> SUBSET Events]
        /\ ready' \in [Table -> BOOLEAN]
        /\ level' \in [Table -> SUBSET Conditions]
    <3>1. CASE UNCHANGED kernel
      BY <3>1 DEF TypeOK, kernel
    <3>2. ASSUME NEW ok \in CtlResults, EpollCtl(f, Left(f, {e}), ok)
          PROVE  <2>4
      BY <2>1, <3>2, CtlType, CtlAssumption
    <3>. QED BY <1>7, <3>1, <3>2 DEF WithdrawCtl
  <2>. QED BY <1>7, <2>2, <2>3, <2>4 DEF WithdrawCtl, TypeOK, table
<1>8. CASE DelSet(t)
  <2>1. call' \in [Threads -> CallRec]
    BY <1>8, GotoType DEF DelSet, Pcs
  <2>2. ctx' \in [Table -> [Events -> Waiters \cup {NoWaiter}]]
    BY <1>8, <1>0, CallFacts, CtxType DEF DelSet
  <2>3. events' \in [Table -> SUBSET Events]
    BY <1>8, <1>0 DEF DelSet, TypeOK, Left
  <2>4. pending' \in Int
    BY <1>8 DEF DelSet, TypeOK
  <2>5. waiter' \in [Waiters -> WaiterStates]
    BY <1>8 DEF DelSet, TypeOK, WaiterStates
  <2>6. mutex' \in [Table -> Threads \cup {NoThread}]
    BY <1>8 DEF DelSet, TypeOK
  <2>. QED BY <1>8, <2>1, <2>2, <2>3, <2>4, <2>5, <2>6 DEF DelSet, TypeOK, kernel
<1>9. CASE CancelDec(t)
  BY <1>9, GoType, CallFacts DEF CancelDec, TypeOK, table, kernel, Ops, Pcs
<1>10. CASE AllCtl(t)
  <2>1. f \in Table /\ events[f] \in SUBSET Events
    BY <1>0, <1>10 DEF AllCtl, TypeOK
  <2>2. call' \in [Threads -> CallRec]
    <3>1. CASE Goto(t, "unlock")
      BY <3>1, GotoType DEF Pcs
    <3>2. CASE Go(t, "cancelAll", "trig", f, e, events[f])
      BY <2>1, <3>2, GoType, CallFacts DEF Ops, Pcs
    <3>. QED BY <1>10, <3>1, <3>2 DEF AllCtl
  <2>3. /\ interest' \in [Table -> SUBSET Events]
        /\ ready' \in [Table -> BOOLEAN]
        /\ level' \in [Table -> SUBSET Conditions]
    <3>1. CASE UNCHANGED kernel
      BY <3>1 DEF TypeOK, kernel
    <3>2. ASSUME NEW ok \in CtlResults, EpollCtl(f, {}, ok)
          PROVE  <2>3
      BY <3>2, CtlType, CtlAssumption
    <3>. QED BY <1>10, <3>1, <3>2 DEF AllCtl
  <2>4. mutex' \in [Table -> Threads \cup {NoThread}]
    BY <1>10 DEF AllCtl, TypeOK
  <2>. QED BY <1>10, <2>2, <2>3, <2>4 DEF AllCtl, TypeOK, table
<1>11. CASE Trigger(t)
  <2>. DEFINE d == First(call[t].todo)
  <2>0. f \in Table /\ d \in Events
    BY <1>0, <1>11 DEF Trigger, First, Events
  <2>1. CASE d \notin events[f]
    BY <1>11, <2>1, FailType DEF Trigger, Aborts
  <2>2. CASE d \in events[f]
    <3>1. Go(t, call[t].op, IF call[t].op = "cancel" THEN "exit" ELSE "dec", f, d, call[t].todo \ {d})
      BY <1>11, <2>2 DEF Trigger
    <3>2. (IF call[t].op = "cancel" THEN "exit" ELSE "dec") \in Pcs
      BY DEF Pcs
    <3>3. call' \in [Threads -> CallRec]
      BY <2>0, <3>1, <3>2, GoType, CallFacts
    <3>4. ctx' \in [Table -> [Events -> Waiters \cup {NoWaiter}]]
      BY <1>11, <2>0, <2>2, CtxType DEF Trigger
    <3>5. events' \in [Table -> SUBSET Events]
      BY <1>11, <2>0, <2>2 DEF Trigger, TypeOK
    <3>. QED BY <1>11, <2>2, <3>3, <3>4, <3>5 DEF Trigger, TypeOK, kernel, WaiterStates
  <2>. QED BY <2>1, <2>2
<1>12. CASE Dec(t)
  <2>1. call' \in [Threads -> CallRec]
    BY <1>12, GotoType DEF Dec, Pcs
  <2>. QED BY <1>12, <2>1 DEF Dec, TypeOK, table, kernel
<1>13. CASE Exit(t)
  <2>1. CASE call[t].op = "cancelAll" /\ events[f] # {}
    BY <1>13, <2>1, FailType DEF Exit, Aborts
  <2>2. CASE ~(call[t].op = "cancelAll" /\ events[f] # {})
    <3>1. call' \in [Threads -> CallRec]
      BY <1>13, <2>2, GotoType DEF Exit, Pcs
    <3>. QED BY <1>13, <2>2, <3>1 DEF Exit, TypeOK, table, kernel
  <2>. QED BY <2>1, <2>2
<1>14. CASE EpollWait(t)
  <2>1. call' \in [Threads -> CallRec]
    BY <1>14, GoType, CallFacts DEF EpollWait, Ops, Pcs
  <2>2. batch' \in [Threads -> SUBSET Result]
    BY <1>14 DEF EpollWait, TypeOK, Result, Reported
  <2>. QED BY <1>14, <2>1, <2>2 DEF EpollWait, TypeOK, table
<1>15. CASE EndItems(t)
  BY <1>15, ReturnType DEF EndItems, TypeOK, table, kernel
<1>16. ASSUME NEW b \in batch[t], Item(t, b) PROVE TypeOK'
  <2>. DEFINE g == b.fd
              real == RealEvents(b.evs, events[g])
  <2>0. g \in Table /\ real \in SUBSET Events /\ Left(g, real) \subseteq Events
    BY TableAssumption DEF TypeOK, Result, RealEvents, Left
  <2>1. CASE events[g] \cap real = {}
    BY <1>16, <2>1 DEF Item, TypeOK, kernel, table
  <2>2. CASE events[g] \cap real # {}
    <3>1. PICK ok \in CtlResults :
             /\ EpollCtl(g, Left(g, real), ok)
             /\ IF Refused(ok) THEN UNCHANGED <<mutex, call>>
                ELSE /\ Go(t, "idle", "trig", g, e, real)
                     /\ mutex' = [mutex EXCEPT ![g] = t]
      BY <1>16, <2>2 DEF Item
    <3>2. /\ interest' \in [Table -> SUBSET Events]
          /\ ready' \in [Table -> BOOLEAN]
          /\ level' \in [Table -> SUBSET Conditions]
      <4>1. ok \in BOOLEAN /\ EpollCtl(g, Left(g, real), ok) BY <3>1, CtlAssumption
      <4>. QED BY <2>0, <4>1, CtlType
    <3>3. CASE UNCHANGED <<mutex, call>>
      BY <1>16, <3>2, <3>3 DEF Item, TypeOK, table
    <3>4. CASE Go(t, "idle", "trig", g, e, real) /\ mutex' = [mutex EXCEPT ![g] = t]
      <4>1. call' \in [Threads -> CallRec]
        BY <2>0, <3>4, GoType, CallFacts, TableAssumption DEF Ops, Pcs
      <4>. QED BY <1>16, <3>2, <3>4, <4>1 DEF Item, TypeOK, table
    <3>. QED BY <3>1, <3>3, <3>4
  <2>. QED BY <2>1, <2>2
<1>. QED BY <1>1, <1>2, <1>3, <1>4, <1>5, <1>6, <1>7, <1>8, <1>9, <1>10, <1>11, <1>12,
            <1>13, <1>14, <1>15, <1>16 DEF Step

\* What a thread's record is after each way of moving on.
LEMMA GotoFacts ==
    ASSUME TypeOK, NEW t \in Threads, NEW pc, Goto(t, pc)
    PROVE  /\ call'[t].pc = pc
           /\ call'[t].op = call[t].op /\ call'[t].fd = call[t].fd /\ call'[t].ev = call[t].ev
           /\ call'[t].who = call[t].who /\ call'[t].todo = call[t].todo
           /\ \A u \in Threads \ {t} : call'[u] = call[u]
  BY DEF TypeOK, Goto, CallRec

LEMMA GoFacts ==
    ASSUME TypeOK, NEW t \in Threads, NEW op, NEW pc, NEW f, NEW e, NEW todo,
           Go(t, op, pc, f, e, todo)
    PROVE  /\ call'[t].op = op /\ call'[t].pc = pc /\ call'[t].fd = f /\ call'[t].ev = e
           /\ call'[t].who = call[t].who /\ call'[t].todo = todo
           /\ \A u \in Threads \ {t} : call'[u] = call[u]
  BY DEF TypeOK, Go

LEMMA ReturnFacts ==
    ASSUME TypeOK, NEW t \in Threads, Return(t)
    PROVE  /\ call'[t].pc = "free" /\ call'[t].op = "none" /\ call'[t].fd = call[t].fd
           /\ call'[t].who = NoWaiter /\ call'[t].todo = {} /\ call'[t].ev = call[t].ev
           /\ \A u \in Threads \ {t} : call'[u] = call[u]
  BY DEF TypeOK, Return

LEMMA StepFd ==
    ASSUME TypeOK, FdInv, NEW t \in Threads, Step(t)
    PROVE  FdInv'
<1>. DEFINE Deep == {"ctl", "set", "dec", "trig", "exit"}
<1>1. CASE UNCHANGED call
  BY <1>1 DEF FdInv
<1>2. CASE Return(t)
  BY <1>2, ReturnFacts DEF FdInv
<1>3. ASSUME NEW pc, Goto(t, pc), pc \in Deep => call[t].fd \in Table PROVE FdInv'
  BY <1>3, GotoFacts DEF FdInv
<1>4. ASSUME NEW op, NEW pc, NEW f, NEW e, NEW todo, Go(t, op, pc, f, e, todo),
             pc \in Deep => f \in Table
      PROVE  FdInv'
  BY <1>4, GoFacts DEF FdInv
<1>5. call[t].pc \in Deep => call[t].fd \in Table
  BY DEF FdInv
<1>6. ASSUME NEW b \in batch[t], Item(t, b) PROVE FdInv'
  BY <1>1, <1>4, <1>6 DEF Item, TypeOK, Result
<1>7. CASE RdLock(t) \/ Lookup(t) \/ Grow(t) \/ Unlock(t) \/ EndItems(t) \/ EpollWait(t)
  BY <1>2, <1>3, <1>4, <1>7 DEF RdLock, Lookup, Grow, Unlock, EndItems, EpollWait
<1>8. CASE AddCtl(t) \/ AddSet(t)
  BY <1>1, <1>2, <1>3, <1>5, <1>8 DEF AddCtl, AddSet, Fail
<1>9. CASE WithdrawCtl(t) \/ DelSet(t) \/ CancelDec(t) \/ AllCtl(t)
  BY <1>3, <1>4, <1>5, <1>9 DEF WithdrawCtl, DelSet, CancelDec, AllCtl
<1>10. CASE Trigger(t) \/ Dec(t) \/ Exit(t)
  BY <1>1, <1>3, <1>4, <1>5, <1>10 DEF Trigger, Dec, Exit, Fail
<1>. QED BY <1>6, <1>7, <1>8, <1>9, <1>10 DEF Step

LEMMA CallAddType ==
    ASSUME TypeOK, FdInv, NEW t \in Threads, NEW f \in Fds, NEW e \in Events, NEW w \in Waiters,
           CallAdd(t, f, e, w)
    PROVE  TypeOK' /\ FdInv'
<1>1. call' \in [Threads -> CallRec]
  BY DEF CallAdd, TypeOK, CallRec, Ops, Pcs
<1>2. TypeOK'
  BY <1>1 DEF CallAdd, TypeOK, table, kernel, WaiterStates
<1>. QED BY <1>2 DEF CallAdd, FdInv, TypeOK

LEMMA CallWithdrawType ==
    ASSUME TypeOK, FdInv, NEW t \in Threads, NEW f \in Fds, NEW e \in Events, NEW op \in Ops,
           CallWithdraw(t, op, f, e)
    PROVE  TypeOK' /\ FdInv'
<1>1. call' \in [Threads -> CallRec]
  BY DEF CallWithdraw, TypeOK, CallRec, Ops, Pcs
<1>2. TypeOK'
  BY <1>1 DEF CallWithdraw, TypeOK, table, kernel
<1>. QED BY <1>2 DEF CallWithdraw, FdInv, TypeOK

\* The variables never leave their types, and every access to the table is to an
\* fd below m_fdContexts.size() (eventpoller.cpp:122, :174, :208, :242).
THEOREM TypeCorrect == Spec => [](TypeOK /\ FdInv)
<1>1. Init => TypeOK /\ FdInv
  <2>. SUFFICES ASSUME Init PROVE TypeOK /\ FdInv
    OBVIOUS
  <2>1. (CHOOSE f \in Fds : TRUE) \in Fds
    BY TableAssumption
  <2>2. call \in [Threads -> CallRec]
    BY <2>1 DEF Init, CallRec, Ops, Pcs, Events
  <2>. QED BY <2>2 DEF Init, TypeOK, FdInv, WaiterStates, Result, Aborts
<1>2. TypeOK /\ FdInv /\ [Next]_vars => TypeOK' /\ FdInv'
  <2>. SUFFICES ASSUME TypeOK, FdInv, [Next]_vars PROVE TypeOK' /\ FdInv'
    OBVIOUS
  <2>1. ASSUME NEW t \in Threads, Step(t) PROVE TypeOK' /\ FdInv'
    BY <2>1, StepType, StepFd
  <2>2. ASSUME NEW t \in Threads, NEW f \in Fds, NEW e \in Events, NEW w \in Waiters,
               CallAdd(t, f, e, w)
        PROVE  TypeOK' /\ FdInv'
    BY <2>2, CallAddType
  <2>3. ASSUME NEW t \in Threads, NEW f \in Fds, NEW e \in Events, NEW op \in Ops,
               CallWithdraw(t, op, f, e)
        PROVE  TypeOK' /\ FdInv'
    BY <2>3, CallWithdrawType
  <2>4. ASSUME NEW f \in Table, NEW c \in Conditions, Edge(f, c) \/ Drain(f, c)
        PROVE  TypeOK' /\ FdInv'
    <3>1. level' \in [Table -> SUBSET Conditions] /\ ready' \in [Table -> BOOLEAN]
      <4>1. CASE Edge(f, c)
        BY <4>1 DEF Edge, TypeOK
      <4>2. CASE Drain(f, c)
        BY <4>2 DEF Drain, TypeOK
      <4>. QED BY <2>4, <4>1, <4>2
    <3>. QED BY <2>4, <3>1 DEF Edge, Drain, TypeOK, FdInv
  <2>5. ASSUME NEW w \in Waiters, RunWaiter(w) PROVE TypeOK' /\ FdInv'
    BY <2>5 DEF RunWaiter, TypeOK, FdInv, table, kernel, WaiterStates
  <2>6. CASE UNCHANGED vars
    BY <2>6 DEF vars, TypeOK, FdInv
  <2>. QED BY <2>1, <2>2, <2>3, <2>4, <2>5, <2>6 DEF Next, Halted
<1>. QED BY <1>1, <1>2, PTL DEF Spec


-----------------------------------------------------------------------------
(* Mutual exclusion per FdContext                                            *)

Within(pc) == pc \in {"set", "dec", "trig", "exit"}

Inside(c) == Within(c.pc)

\* The thread inside an FdContext's critical section holds its mutex.
LockInv ==
    /\ \A t \in Threads : Inside(call[t]) => call[t].fd \in Table /\ mutex[call[t].fd] = t
    /\ \A f \in Table : mutex[f] # NoThread =>
         mutex[f] \in Threads /\ Inside(call[mutex[f]]) /\ call[mutex[f]].fd = f

\* Which operations can be at which point.
Fits(op, pc) ==
    /\ pc = "grow" => op = "add"
    /\ pc \in {"rdlock", "lookup", "ctl"} => op \in {"add", "del", "cancel", "cancelAll"}
    /\ pc = "set" => op \in {"add", "del"}
    /\ pc \in {"dec", "trig", "exit"} => op \in {"cancel", "cancelAll", "idle"}
    /\ pc \in {"free", "unlock", "items"} => op # "add"

ShapeInv == \A t \in Threads : Fits(call[t].op, call[t].pc)

\* The other threads' records stay as they are.
Alone(t) == \A u \in Threads \ {t} : call'[u] = call[u]

LEMMA LockKeep ==
    ASSUME LockInv, NEW t \in Threads, Alone(t), mutex' = mutex,
           Inside(call'[t]) <=> Inside(call[t]),
           Inside(call[t]) => call'[t].fd = call[t].fd
    PROVE  LockInv'
<1>1. \A u \in Threads : Inside(call'[u]) =>
        call'[u].fd = call[u].fd /\ Inside(call[u])
  BY DEF Alone
<1>2. \A f \in Table : mutex[f] # NoThread =>
        Inside(call'[mutex[f]]) /\ call'[mutex[f]].fd = f
  BY DEF Alone, LockInv
<1>. QED BY <1>1, <1>2 DEF LockInv

LEMMA LockEnter ==
    ASSUME TypeOK, LockInv, NEW t \in Threads, Alone(t), NEW f \in Table, mutex[f] = NoThread,
           mutex' = [mutex EXCEPT ![f] = t], ~Inside(call[t]), Inside(call'[t]), call'[t].fd = f
    PROVE  LockInv'
<1>1. ASSUME NEW u \in Threads, Inside(call'[u])
      PROVE  call'[u].fd \in Table /\ mutex'[call'[u].fd] = u
  <2>1. CASE u = t
    BY <2>1 DEF TypeOK
  <2>2. CASE u # t
    BY <1>1, <2>2, NullAssumption DEF TypeOK, Alone, LockInv, Threads
  <2>. QED BY <2>1, <2>2
<1>2. ASSUME NEW g \in Table, mutex'[g] # NoThread
      PROVE  mutex'[g] \in Threads /\ Inside(call'[mutex'[g]]) /\ call'[mutex'[g]].fd = g
  <2>1. CASE g = f
    BY <2>1 DEF TypeOK
  <2>2. CASE g # f
    BY <1>2, <2>2 DEF TypeOK, Alone, LockInv
  <2>. QED BY <2>1, <2>2
<1>. QED BY <1>1, <1>2 DEF LockInv

LEMMA LockLeave ==
    ASSUME TypeOK, LockInv, NEW t \in Threads, Alone(t), Inside(call[t]), ~Inside(call'[t]),
           mutex' = [mutex EXCEPT ![call[t].fd] = NoThread]
    PROVE  LockInv'
<1>1. ASSUME NEW u \in Threads, Inside(call'[u])
      PROVE  call'[u].fd \in Table /\ mutex'[call'[u].fd] = u
  <2>1. u # t /\ call'[u] = call[u]
    BY <1>1 DEF Alone
  <2>. QED BY <1>1, <2>1 DEF TypeOK, LockInv
<1>2. ASSUME NEW g \in Table, mutex'[g] # NoThread
      PROVE  mutex'[g] \in Threads /\ Inside(call'[mutex'[g]]) /\ call'[mutex'[g]].fd = g
  BY <1>2 DEF TypeOK, Alone, LockInv
<1>. QED BY <1>1, <1>2 DEF LockInv

LEMMA StepLock ==
    ASSUME TypeOK, FdInv, LockInv, ShapeInv, NEW t \in Threads, Step(t)
    PROVE  LockInv' /\ ShapeInv'
<1>. DEFINE c == call[t]
<1>0. Fits(c.op, c.pc) /\ c.pc \in Pcs
  BY CallFacts DEF ShapeInv
<1>a. ASSUME Alone(t), Fits(call'[t].op, call'[t].pc) PROVE ShapeInv'
  BY <1>a DEF Alone, ShapeInv
<1>b. CASE UNCHANGED <<call, mutex>>
  BY <1>b DEF LockInv, ShapeInv
<1>c. CASE Return(t) /\ mutex' = mutex /\ ~Within(c.pc)
  <2>1. Alone(t) /\ ~Inside(call'[t]) /\ Fits(call'[t].op, call'[t].pc)
    BY <1>c, ReturnFacts DEF Alone, Inside, Within, Fits
  <2>. QED BY <1>c, <1>a, <2>1, LockKeep DEF Inside
<1>d. ASSUME NEW pc, Goto(t, pc), mutex' = mutex, Within(pc) <=> Within(c.pc), Fits(c.op, pc)
      PROVE  LockInv' /\ ShapeInv'
  <2>1. Alone(t) /\ call'[t].op = c.op /\ call'[t].pc = pc /\ call'[t].fd = c.fd
    BY <1>d, GotoFacts DEF Alone
  <2>. QED BY <1>d, <1>a, <2>1, LockKeep DEF Inside
<1>e. ASSUME NEW op, NEW pc, NEW e, NEW todo, NEW f, Go(t, op, pc, f, e, todo), mutex' = mutex,
             Within(pc) <=> Within(c.pc), Within(pc) => f = c.fd, Fits(op, pc)
      PROVE  LockInv' /\ ShapeInv'
  <2>1. Alone(t) /\ call'[t].op = op /\ call'[t].pc = pc /\ call'[t].fd = f
    BY <1>e, GoFacts DEF Alone
  <2>. QED BY <1>e, <1>a, <2>1, LockKeep DEF Inside
<1>f. ASSUME Alone(t), NEW f \in Table, mutex[f] = NoThread, mutex' = [mutex EXCEPT ![f] = t],
             ~Within(c.pc), Within(call'[t].pc), call'[t].fd = f, Fits(call'[t].op, call'[t].pc)
      PROVE  LockInv' /\ ShapeInv'
  BY <1>f, <1>a, LockEnter DEF Inside
<1>g. ASSUME Alone(t), Within(c.pc), ~Within(call'[t].pc),
             mutex' = [mutex EXCEPT ![c.fd] = NoThread], Fits(call'[t].op, call'[t].pc)
      PROVE  LockInv' /\ ShapeInv'
  BY <1>g, <1>a, LockLeave DEF Inside
<1>h. c.pc = "ctl" => c.fd \in Table
  BY DEF FdInv
<1>1. CASE RdLock(t)
  BY <1>0, <1>1, <1>d DEF RdLock, Within, Fits
<1>2. CASE Lookup(t)
  BY <1>0, <1>2, <1>c, <1>d DEF Lookup, Within, Fits
<1>3. CASE Grow(t) \/ Unlock(t) \/ EndItems(t)
  BY <1>3, <1>c DEF Grow, Unlock, EndItems, Within
<1>4. CASE EpollWait(t)
  BY <1>4, <1>e DEF EpollWait, Within, Fits
<1>5. CASE AddCtl(t)
  <2>1. CASE UNCHANGED <<call, mutex>>
    BY <2>1, <1>b
  <2>2. CASE Return(t) /\ UNCHANGED mutex
    BY <1>5, <2>2, <1>c DEF AddCtl, Within
  <2>3. CASE mutex' = [mutex EXCEPT ![c.fd] = t] /\ Goto(t, "set")
    <3>1. Alone(t) /\ call'[t].op = c.op /\ call'[t].pc = "set" /\ call'[t].fd = c.fd
      BY <2>3, GotoFacts DEF Alone
    <3>. QED BY <1>5, <2>3, <3>1, <1>f, <1>h DEF AddCtl, Within, Fits
  <2>. QED BY <1>5, <2>1, <2>2, <2>3 DEF AddCtl, Fail
<1>6. CASE AddSet(t)
  <2>1. CASE UNCHANGED <<call, mutex>>
    BY <2>1, <1>b
  <2>2. CASE mutex' = [mutex EXCEPT ![c.fd] = NoThread] /\ Return(t)
    <3>1. Alone(t) /\ call'[t].op = "none" /\ call'[t].pc = "free"
      BY <2>2, ReturnFacts DEF Alone
    <3>. QED BY <1>6, <2>2, <3>1, <1>g DEF AddSet, Within, Fits
  <2>. QED BY <1>6, <2>1, <2>2 DEF AddSet, Fail
<1>7. CASE WithdrawCtl(t)
  <2>1. CASE Goto(t, "unlock") /\ UNCHANGED mutex
    BY <1>7, <2>1, <1>d DEF WithdrawCtl, Within, Fits
  <2>2. ASSUME NEW pc, mutex' = [mutex EXCEPT ![c.fd] = t], Goto(t, pc),
               pc = IF c.op = "del" THEN "set" ELSE "dec"
        PROVE  LockInv' /\ ShapeInv'
    <3>1. Alone(t) /\ call'[t].op = c.op /\ call'[t].pc = pc /\ call'[t].fd = c.fd
      BY <2>2, GotoFacts DEF Alone
    <3>. QED BY <1>7, <2>2, <3>1, <1>f, <1>h DEF WithdrawCtl, Within, Fits
  <2>. QED BY <1>7, <2>1, <2>2 DEF WithdrawCtl
<1>8. CASE DelSet(t)
  <2>1. Alone(t) /\ call'[t].op = c.op /\ call'[t].pc = "unlock"
    BY <1>8, GotoFacts DEF Alone, DelSet
  <2>. QED BY <1>8, <2>1, <1>g DEF DelSet, Within, Fits
<1>9. CASE CancelDec(t)
  BY <1>9, <1>e DEF CancelDec, Within, Fits
<1>10. CASE AllCtl(t)
  <2>1. CASE Goto(t, "unlock") /\ UNCHANGED mutex
    BY <1>10, <2>1, <1>d DEF AllCtl, Within, Fits
  <2>2. CASE mutex' = [mutex EXCEPT ![c.fd] = t]
             /\ Go(t, "cancelAll", "trig", c.fd, c.ev, events[c.fd])
    <3>1. Alone(t) /\ call'[t].op = "cancelAll" /\ call'[t].pc = "trig" /\ call'[t].fd = c.fd
      BY <2>2, GoFacts DEF Alone
    <3>. QED BY <1>10, <2>2, <3>1, <1>f, <1>h DEF AllCtl, Within, Fits
  <2>. QED BY <1>10, <2>1, <2>2 DEF AllCtl
<1>11. CASE Trigger(t)
  <2>1. CASE UNCHANGED <<call, mutex>>
    BY <2>1, <1>b
  <2>2. ASSUME NEW pc, pc = IF c.op = "cancel" THEN "exit" ELSE "dec", mutex' = mutex,
               Go(t, c.op, pc, c.fd, First(c.todo), c.todo \ {First(c.todo)})
        PROVE  LockInv' /\ ShapeInv'
    BY <1>0, <1>11, <2>2, <1>e DEF Trigger, Within, Fits
  <2>. QED BY <1>11, <2>1, <2>2 DEF Trigger, Fail
<1>12. CASE Dec(t)
  <2>1. ASSUME NEW pc, pc \in {"exit", "trig"}, Goto(t, pc) PROVE LockInv' /\ ShapeInv'
    BY <1>0, <1>12, <2>1, <1>d DEF Dec, Within, Fits
  <2>. QED BY <1>12, <2>1 DEF Dec
<1>13. CASE Exit(t)
  <2>1. CASE UNCHANGED <<call, mutex>>
    BY <2>1, <1>b
  <2>2. ASSUME NEW pc, pc \in {"items", "unlock"}, Goto(t, pc),
               mutex' = [mutex EXCEPT ![c.fd] = NoThread]
        PROVE  LockInv' /\ ShapeInv'
    <3>1. Alone(t) /\ call'[t].op = c.op /\ call'[t].pc = pc
      BY <2>2, GotoFacts DEF Alone
    <3>. QED BY <1>0, <1>13, <2>2, <3>1, <1>g DEF Exit, Within, Fits
  <2>. QED BY <1>13, <2>1, <2>2 DEF Exit, Fail
<1>14. ASSUME NEW b \in batch[t], Item(t, b) PROVE LockInv' /\ ShapeInv'
  <2>1. CASE UNCHANGED <<mutex, call>>
    BY <2>1, <1>b
  <2>2. ASSUME NEW real, Go(t, "idle", "trig", b.fd, c.ev, real),
               mutex' = [mutex EXCEPT ![b.fd] = t]
        PROVE  LockInv' /\ ShapeInv'
    <3>1. Alone(t) /\ call'[t].op = "idle" /\ call'[t].pc = "trig" /\ call'[t].fd = b.fd
      BY <2>2, GoFacts DEF Alone
    <3>2. b.fd \in Table
      BY DEF TypeOK, Result
    <3>. QED BY <1>14, <2>2, <3>1, <3>2, <1>f DEF Item, Within, Fits
  <2>. QED BY <1>14, <2>1, <2>2 DEF Item
<1>. QED BY <1>1, <1>2, <1>3, <1>4, <1>5, <1>6, <1>7, <1>8, <1>9, <1>10, <1>11, <1>12,
            <1>13, <1>14 DEF Step

-----------------------------------------------------------------------------
(* The kernel's interest and events                                          *)

\* How far the call c, inside the section, has moved events (evs) and the kernel's
\* interest (int) apart.
Section(c, evs, int) ==
    /\ c.pc = "set" /\ c.op = "add" => c.ev \notin evs /\ int = evs \cup {c.ev}
    /\ c.pc = "set" /\ c.op = "del" => c.ev \in evs /\ int = evs \ {c.ev}
    /\ c.op = "cancel" /\ c.pc \in {"dec", "trig"} => c.ev \in evs /\ int = evs \ {c.ev}
    /\ c.op = "cancel" /\ c.pc = "trig" => c.todo = {c.ev}
    /\ c.op \in {"cancelAll", "idle"} =>
         /\ c.pc \in {"dec", "trig"} => int = evs \ c.todo
         /\ c.pc = "dec" => c.ev \notin evs
         /\ c.pc = "trig" => c.todo # {}
    /\ c.op = "cancelAll" =>
         /\ c.pc \in {"dec", "trig"} => c.todo = evs
         /\ c.pc = "exit" => evs = {}
    /\ c.pc = "exit" => int = evs

SectionInv == \A t \in Threads :
    Inside(call[t]) => Section(call[t], events[call[t].fd], interest[call[t].fd])

\* A step outside every section.
LEMMA SectionQuiet ==
    ASSUME SectionInv, InterestInSync, NEW t \in Threads, Alone(t), ~Inside(call'[t]),
           UNCHANGED <<events, interest, mutex>>
    PROVE  SectionInv' /\ InterestInSync'
  BY DEF SectionInv, InterestInSync, Alone

\* A step of the thread that holds the mutex of f, or takes it.
LEMMA SectionFrame ==
    ASSUME LockInv, SectionInv, InterestInSync, NEW t \in Threads, Alone(t),
           NEW f \in Table, mutex[f] \in {NoThread, t}, t # NoThread,
           \A g \in Table \ {f} : /\ events'[g] = events[g]
                                  /\ interest'[g] = interest[g]
                                  /\ mutex'[g] = mutex[g],
           Inside(call'[t]) => call'[t].fd = f /\ Section(call'[t], events'[f], interest'[f]),
           mutex'[f] = NoThread => interest'[f] = events'[f]
    PROVE  SectionInv' /\ InterestInSync'
<1>1. InterestInSync'
  BY DEF InterestInSync
<1>2. ASSUME NEW u \in Threads \ {t}, Inside(call'[u])
      PROVE  Section(call'[u], events'[call'[u].fd], interest'[call'[u].fd])
  <2>1. call'[u] = call[u] /\ Inside(call[u])
    BY <1>2 DEF Alone
  <2>2. call[u].fd \in Table /\ mutex[call[u].fd] = u /\ u # NoThread
    BY <2>1, NullAssumption DEF LockInv, Threads
  <2>3. call[u].fd # f
    BY <2>2
  <2>. QED BY <2>1, <2>2, <2>3 DEF SectionInv
<1>3. ASSUME Inside(call'[t])
      PROVE  Section(call'[t], events'[call'[t].fd], interest'[call'[t].fd])
  BY <1>3
<1>. QED BY <1>1, <1>2, <1>3 DEF SectionInv

LEMMA CtlFacts ==
    ASSUME TypeOK, NEW f \in Table, NEW evs, NEW ok \in BOOLEAN, EpollCtl(f, evs, ok)
    PROVE  /\ ok => interest'[f] = evs
           /\ ~ok => interest' = interest
           /\ \A g \in Table \ {f} : interest'[g] = interest[g]
  BY DEF EpollCtl, TypeOK

\* A step that takes the mutex of f after its epoll_ctl.
LEMMA SectionEnter ==
    ASSUME TypeOK, LockInv, SectionInv, InterestInSync, NEW t \in Threads, Alone(t),
           NEW f \in Table, mutex[f] = NoThread, NEW evs, EpollCtl(f, evs, TRUE),
           mutex' = [mutex EXCEPT ![f] = t], events' = events, call'[t].fd = f,
           Section(call'[t], events[f], evs)
    PROVE  SectionInv' /\ InterestInSync'
<1>1. interest'[f] = evs /\ \A g \in Table \ {f} : interest'[g] = interest[g]
  BY CtlFacts
<1>2. mutex'[f] = t /\ t # NoThread /\ \A g \in Table \ {f} : mutex'[g] = mutex[g]
  BY NullAssumption DEF TypeOK, Threads
<1>. QED BY <1>1, <1>2, SectionFrame

LEMMA StepSection ==
    ASSUME TypeOK, FdInv, LockInv, ShapeInv, SectionInv, InterestInSync,
           NEW t \in Threads, Step(t)
    PROVE  SectionInv' /\ InterestInSync'
<1>. DEFINE c == call[t]
            f == call[t].fd
            e == call[t].ev
            Goal == SectionInv' /\ InterestInSync'
<1>0. /\ Fits(c.op, c.pc) /\ c.pc \in Pcs /\ t # NoThread
      /\ e \in Events /\ c.todo \subseteq Events
  BY CallFacts, NullAssumption DEF ShapeInv, Threads
<1>a. CASE UNCHANGED <<call, events, interest, mutex>>
  BY <1>a DEF SectionInv, InterestInSync
<1>b. CASE UNCHANGED <<events, interest, mutex>> /\ Return(t)
  BY <1>b, ReturnFacts, SectionQuiet DEF Alone, Inside, Within
<1>c. ASSUME NEW pc, UNCHANGED <<events, interest, mutex>>, Goto(t, pc), ~Within(pc) PROVE Goal
  BY <1>c, GotoFacts, SectionQuiet DEF Alone, Inside
<1>d. c.pc \in {"ctl", "set", "dec", "trig", "exit"} => f \in Table
  BY DEF FdInv
<1>e. Within(c.pc) => mutex[f] = t /\ Section(c, events[f], interest[f]) /\ f \in Table
  BY DEF LockInv, SectionInv, Inside
\* A step inside the section that keeps the kernel as it is.
<1>f. ASSUME Within(c.pc), Alone(t), interest' = interest, NEW evs,
             events' = [events EXCEPT ![f] = evs], mutex' = mutex,
             call'[t].fd = f, Section(call'[t], evs, interest[f])
      PROVE  Goal
  <2>1. /\ events'[f] = evs
        /\ \A g \in Table \ {f} : events'[g] = events[g]
    BY <1>e, <1>f DEF TypeOK
  <2>. QED BY <1>0, <1>e, <1>f, <2>1, SectionFrame
\* The last step of a section.
<1>g. ASSUME Within(c.pc), Alone(t), interest' = interest, NEW evs,
             events' = [events EXCEPT ![f] = evs], mutex' = [mutex EXCEPT ![f] = NoThread],
             ~Within(call'[t].pc), interest[f] = evs
      PROVE  Goal
  <2>1. /\ events'[f] = evs
        /\ \A g \in Table \ {f} : events'[g] = events[g] /\ mutex'[g] = mutex[g]
    BY <1>e, <1>g DEF TypeOK
  <2>. QED BY <1>0, <1>e, <1>g, <2>1, SectionFrame DEF Inside
<1>h. Within(c.pc) => events = [events EXCEPT ![f] = events[f]]
  BY <1>e DEF TypeOK
<1>1. CASE RdLock(t) \/ Lookup(t) \/ Grow(t) \/ Unlock(t) \/ EndItems(t)
  BY <1>1, <1>b, <1>c DEF RdLock, Lookup, Grow, Unlock, EndItems, table, kernel, Within
<1>2. CASE EpollWait(t)
  <2>1. Alone(t) /\ ~Inside(call'[t])
    BY <1>2, GoFacts DEF EpollWait, Alone, Inside, Within
  <2>. QED BY <1>2, <2>1, SectionQuiet DEF EpollWait, table
<1>3. CASE AddCtl(t)
  <2>0. c.pc = "ctl" /\ c.op = "add" /\ mutex[f] = NoThread /\ f \in Table
    BY <1>3, <1>d DEF AddCtl
  <2>1. CASE AlreadyRegistered(f, e)
    BY <1>3, <2>1, <1>a DEF AddCtl, Fail, kernel
  <2>2. ASSUME NEW ok \in CtlResults, EpollCtl(f, events[f] \cup {e}, ok), Refused(ok),
               Return(t), UNCHANGED mutex, UNCHANGED table
        PROVE  Goal
    BY <2>0, <2>2, <1>b, CtlFacts, CtlAssumption DEF Refused, table
  <2>3. ASSUME NEW ok \in CtlResults, EpollCtl(f, events[f] \cup {e}, ok), ~Refused(ok),
               Goto(t, "set"), mutex' = [mutex EXCEPT ![f] = t], UNCHANGED table,
               ~AlreadyRegistered(f, e)
        PROVE  Goal
    <3>1. Alone(t) /\ call'[t].op = "add" /\ call'[t].pc = "set" /\ call'[t].fd = f /\ call'[t].ev = e
      BY <2>0, <2>3, GotoFacts DEF Alone
    <3>2. Section(call'[t], events[f], events[f] \cup {e})
      BY <2>3, <3>1 DEF Section, AlreadyRegistered
    <3>3. EpollCtl(f, events[f] \cup {e}, TRUE)
      BY <2>3, CtlAssumption DEF Refused
    <3>. QED BY <2>0, <2>3, <3>1, <3>2, <3>3, SectionEnter DEF table
  <2>. QED BY <1>3, <2>1, <2>2, <2>3 DEF AddCtl
<1>4. CASE AddSet(t)
  <2>0. c.pc = "set" /\ c.op = "add" /\ Within(c.pc)
    BY <1>4 DEF AddSet, Within
  <2>1. CASE getContext(f, e) # NoWaiter
    BY <1>4, <2>1, <1>a DEF AddSet, Fail, kernel
  <2>2. CASE getContext(f, e) = NoWaiter
    <3>1. Alone(t) /\ call'[t].pc = "free"
      BY <1>4, <2>2, ReturnFacts DEF AddSet, Alone
    <3>2. interest[f] = events[f] \cup {e}
      BY <2>0, <1>e DEF Section
    <3>. QED BY <1>4, <2>0, <2>2, <3>1, <3>2, <1>g DEF AddSet, kernel, Within
  <2>. QED BY <2>1, <2>2
<1>5. CASE WithdrawCtl(t)
  <2>0. c.pc = "ctl" /\ c.op \in {"del", "cancel"} /\ mutex[f] = NoThread /\ f \in Table
    BY <1>5, <1>d DEF WithdrawCtl
  <2>1. CASE Goto(t, "unlock") /\ UNCHANGED <<mutex, interest>>
    BY <1>5, <2>1, <1>c DEF WithdrawCtl, table, Within
  <2>2. ASSUME NEW ok \in CtlResults, EpollCtl(f, Left(f, {e}), ok), Refused(ok),
               Goto(t, "unlock"), UNCHANGED mutex
        PROVE  Goal
    BY <2>0, <2>1, <2>2, CtlFacts, CtlAssumption DEF Refused
  <2>3. ASSUME NEW ok \in CtlResults, EpollCtl(f, Left(f, {e}), ok), ~Refused(ok),
               NEW pc, pc = (IF c.op = "del" THEN "set" ELSE "dec"), Goto(t, pc),
               mutex' = [mutex EXCEPT ![f] = t], e \in events[f]
        PROVE  Goal
    <3>1. Alone(t) /\ call'[t].op = c.op /\ call'[t].pc = pc /\ call'[t].fd = f /\ call'[t].ev = e
      BY <2>3, GotoFacts DEF Alone
    <3>2. Section(call'[t], events[f], Left(f, {e}))
      BY <2>0, <2>3, <3>1 DEF Section, Left
    <3>3. EpollCtl(f, Left(f, {e}), TRUE)
      BY <2>3, CtlAssumption DEF Refused
    <3>. QED BY <1>5, <2>0, <2>3, <3>1, <3>2, <3>3, SectionEnter DEF WithdrawCtl, table
  <2>. QED BY <1>5, <2>1, <2>2, <2>3 DEF WithdrawCtl, kernel
<1>6. CASE DelSet(t)
  <2>0. c.pc = "set" /\ c.op = "del" /\ Within(c.pc)
    BY <1>6 DEF DelSet, Within
  <2>1. Alone(t) /\ call'[t].pc = "unlock"
    BY <1>6, GotoFacts DEF DelSet, Alone
  <2>2. interest[f] = events[f] \ {e}
    BY <2>0, <1>e DEF Section
  <2>. QED BY <1>6, <2>0, <2>1, <2>2, <1>g DEF DelSet, kernel, Within, Left
<1>7. CASE CancelDec(t)
  <2>0. c.pc = "dec" /\ c.op = "cancel" /\ Within(c.pc)
    BY <1>7 DEF CancelDec, Within
  <2>1. /\ Alone(t) /\ call'[t].pc = "trig" /\ call'[t].op = "cancel" /\ call'[t].fd = f
        /\ call'[t].ev = e /\ call'[t].todo = {e}
    BY <1>7, GoFacts DEF CancelDec, Alone
  <2>2. Section(call'[t], events[f], interest[f])
    BY <2>0, <2>1, <1>e DEF Section
  <2>. QED BY <1>7, <2>0, <2>1, <2>2, <1>f, <1>h DEF CancelDec, kernel, table
<1>8. CASE AllCtl(t)
  <2>0. c.pc = "ctl" /\ mutex[f] = NoThread /\ f \in Table
    BY <1>8, <1>d DEF AllCtl
  <2>1. CASE Goto(t, "unlock") /\ UNCHANGED <<mutex, interest>>
    BY <1>8, <2>1, <1>c DEF AllCtl, table, Within
  <2>2. ASSUME NEW ok \in CtlResults, EpollCtl(f, {}, ok), Refused(ok),
               Goto(t, "unlock"), UNCHANGED mutex
        PROVE  Goal
    BY <2>0, <2>1, <2>2, CtlFacts, CtlAssumption DEF Refused
  <2>3. ASSUME NEW ok \in CtlResults, EpollCtl(f, {}, ok), ~Refused(ok),
               Go(t, "cancelAll", "trig", f, e, events[f]),
               mutex' = [mutex EXCEPT ![f] = t], events[f] # {}
        PROVE  Goal
    <3>1. /\ Alone(t) /\ call'[t].op = "cancelAll" /\ call'[t].pc = "trig" /\ call'[t].fd = f
          /\ call'[t].todo = events[f]
      BY <2>3, GoFacts DEF Alone
    <3>2. Section(call'[t], events[f], {})
      BY <2>3, <3>1 DEF Section
    <3>3. EpollCtl(f, {}, TRUE)
      BY <2>3, CtlAssumption DEF Refused
    <3>. QED BY <1>8, <2>0, <2>3, <3>1, <3>2, <3>3, SectionEnter DEF AllCtl, table
  <2>. QED BY <1>8, <2>1, <2>2, <2>3 DEF AllCtl, kernel
<1>9. CASE Trigger(t)
  <2>. DEFINE d == First(c.todo)
  <2>0. c.pc = "trig" /\ Within(c.pc) /\ c.op \in {"cancel", "cancelAll", "idle"}
    BY <1>0, <1>9 DEF Trigger, Within, Fits
  <2>1. CASE d \notin events[f]
    BY <1>9, <2>1, <1>a DEF Trigger, Fail, kernel
  <2>2. CASE d \in events[f]
    <3>1. d \in c.todo
      BY <1>0, <1>e, <2>0 DEF Section, First, Events
    <3>2. /\ Alone(t) /\ call'[t].op = c.op /\ call'[t].fd = f /\ call'[t].ev = d
          /\ call'[t].pc = (IF c.op = "cancel" THEN "exit" ELSE "dec")
          /\ call'[t].todo = c.todo \ {d}
      BY <1>9, <2>2, GoFacts DEF Trigger, Alone
    <3>3. Section(call'[t], events[f] \ {d}, interest[f])
      BY <1>e, <2>0, <2>2, <3>1, <3>2 DEF Section
    <3>. QED BY <1>9, <2>0, <2>2, <3>2, <3>3, <1>f DEF Trigger, kernel
  <2>. QED BY <2>1, <2>2
<1>10. CASE Dec(t)
  <2>0. c.pc = "dec" /\ c.op \in {"cancelAll", "idle"} /\ Within(c.pc)
    BY <1>10 DEF Dec, Within
  <2>1. /\ Alone(t) /\ call'[t].op = c.op /\ call'[t].fd = f /\ call'[t].ev = e
        /\ call'[t].todo = c.todo /\ call'[t].pc = (IF c.todo = {} THEN "exit" ELSE "trig")
    BY <1>10, GotoFacts DEF Dec, Alone
  <2>2. Section(call'[t], events[f], interest[f])
    BY <2>0, <2>1, <1>e DEF Section
  <2>. QED BY <1>10, <2>0, <2>1, <2>2, <1>f, <1>h DEF Dec, kernel, table
<1>11. CASE Exit(t)
  <2>0. c.pc = "exit" /\ Within(c.pc)
    BY <1>11 DEF Exit, Within
  <2>1. CASE c.op = "cancelAll" /\ events[f] # {}
    BY <1>11, <2>1, <1>a DEF Exit, Fail, kernel
  <2>2. CASE ~(c.op = "cancelAll" /\ events[f] # {})
    <3>1. Alone(t) /\ ~Within(call'[t].pc)
      <4>1. PICK pc \in {"items", "unlock"} : Goto(t, pc)
        BY <1>11, <2>2 DEF Exit
      <4>. QED BY <4>1, GotoFacts DEF Alone, Within
    <3>2. interest[f] = events[f]
      BY <2>0, <1>e DEF Section
    <3>. QED BY <1>11, <2>0, <2>2, <3>1, <3>2, <1>g, <1>h DEF Exit, kernel, table
  <2>. QED BY <2>1, <2>2
<1>12. ASSUME NEW b \in batch[t], Item(t, b) PROVE Goal
  <2>. DEFINE g == b.fd
              real == RealEvents(b.evs, events[g])
  <2>0. g \in Table /\ mutex[g] = NoThread
    BY <1>12 DEF TypeOK, Result, Item
  <2>1. CASE UNCHANGED <<mutex, interest, call>>
    BY <1>12, <2>1, <1>a DEF Item, table
  <2>2. ASSUME NEW ok \in CtlResults, EpollCtl(g, Left(g, real), ok), Refused(ok),
               UNCHANGED <<mutex, call>>
        PROVE  Goal
    BY <2>0, <2>1, <2>2, CtlFacts, CtlAssumption DEF Refused
  <2>3. ASSUME NEW ok \in CtlResults, EpollCtl(g, Left(g, real), ok), ~Refused(ok),
               Go(t, "idle", "trig", g, e, real),
               mutex' = [mutex EXCEPT ![g] = t], events[g] \cap real # {}
        PROVE  Goal
    <3>1. /\ Alone(t) /\ call'[t].op = "idle" /\ call'[t].pc = "trig" /\ call'[t].fd = g
          /\ call'[t].todo = real
      BY <2>3, GoFacts DEF Alone
    <3>2. Section(call'[t], events[g], Left(g, real))
      BY <2>3, <3>1 DEF Section, Left
    <3>3. EpollCtl(g, Left(g, real), TRUE)
      BY <2>3, CtlAssumption DEF Refused
    <3>. QED BY <1>12, <2>0, <2>3, <3>1, <3>2, <3>3, SectionEnter DEF Item, table
  <2>. QED BY <1>12, <2>1, <2>2, <2>3 DEF Item, kernel
<1>. QED BY <1>1, <1>2, <1>3, <1>4, <1>5, <1>6, <1>7, <1>8, <1>9, <1>10, <1>11, <1>12 DEF Step

-----------------------------------------------------------------------------
(* The waiters in the contexts                                               *)

\* An addEvent under way carries a waiter of its own.
AddInv ==
    /\ \A t \in Threads : call[t].op = "add" =>
         call[t].who \in Waiters /\ waiter[call[t].who] = "adding"
    /\ \A s, t \in Threads :
         call[s].op = "add" /\ call[t].op = "add" /\ call[s].who = call[t].who => s = t

ContextInv == \A f \in Table, e \in Events : ctx[f][e] # NoWaiter <=> e \in events[f]

\* Nothing is registered or withdrawn.
LEMMA ContextQuiet ==
    ASSUME TypeOK, ContextInv, WaiterHeld, UNCHANGED <<events, ctx>>,
           \A w \in Waiters : waiter'[w] = "waiting" <=> waiter[w] = "waiting"
    PROVE  ContextInv' /\ WaiterHeld'
<1>1. ContextInv'
  BY DEF ContextInv
<1>2. \A f \in Table, e \in Events : ctx[f][e] \in Waiters \cup {NoWaiter}
  BY DEF TypeOK
<1>. QED BY <1>1, <1>2 DEF WaiterHeld

LEMMA Register ==
    ASSUME TypeOK, ContextInv, WaiterHeld, NEW f \in Table, NEW e \in Events, NEW w \in Waiters,
           ctx[f][e] = NoWaiter, waiter[w] = "adding",
           events' = [events EXCEPT ![f] = @ \cup {e}],
           ctx' = [ctx EXCEPT ![f][e] = w],
           waiter' = [waiter EXCEPT ![w] = "waiting"]
    PROVE  ContextInv' /\ WaiterHeld'
<1>1. /\ ctx'[f][e] = w
      /\ \A g \in Table, d \in Events : g # f \/ d # e => ctx'[g][d] = ctx[g][d]
  BY DEF TypeOK
<1>2. /\ events'[f] = events[f] \cup {e}
      /\ \A g \in Table \ {f} : events'[g] = events[g]
  BY DEF TypeOK
<1>3. waiter'[w] = "waiting" /\ \A x \in Waiters \ {w} : waiter'[x] = waiter[x]
  BY DEF TypeOK
<1>4. w # NoWaiter /\ \A g \in Table, d \in Events : /\ ctx[g][d] # w
                                                     /\ ctx[g][d] \in Waiters \cup {NoWaiter}
  BY NullAssumption DEF WaiterHeld, TypeOK
<1>5. ContextInv'
  BY <1>1, <1>2, <1>4 DEF ContextInv
<1>6. \A x \in Waiters : waiter'[x] = "waiting" =>
        \E g \in Table : \E d \in events'[g] : ctx'[g][d] = x
  <2>1. SUFFICES ASSUME NEW x \in Waiters, waiter'[x] = "waiting"
                 PROVE  \E g \in Table : \E d \in events'[g] : ctx'[g][d] = x
    OBVIOUS
  <2>2. CASE x = w
    BY <1>1, <1>2, <2>2
  <2>3. CASE x # w
    <3>1. PICK g \in Table : \E d \in events[g] : ctx[g][d] = x
      BY <1>3, <2>1, <2>3 DEF WaiterHeld
    <3>2. PICK d \in events[g] : ctx[g][d] = x
      BY <3>1
    <3>3. d \in Events /\ (g # f \/ d # e)
      BY <3>2, NullAssumption DEF TypeOK
    <3>4. d \in events'[g] /\ ctx'[g][d] = x
      BY <1>1, <1>2, <3>2, <3>3
    <3>. QED BY <3>4
  <2>. QED BY <2>2, <2>3
<1>7. ASSUME NEW g \in Table, NEW h \in Table, NEW d \in Events, NEW b \in Events,
             ctx'[g][d] # NoWaiter
      PROVE  /\ d \in events'[g]
             /\ waiter'[ctx'[g][d]] = "waiting"
             /\ ctx'[h][b] = ctx'[g][d] => h = g /\ b = d
  <2>1. CASE g = f /\ d = e
    BY <1>1, <1>2, <1>3, <1>4, <2>1
  <2>2. CASE g # f \/ d # e
    <3>1. ctx'[g][d] = ctx[g][d] /\ ctx[g][d] \in Waiters /\ ctx[g][d] # w
      BY <1>1, <1>4, <1>7, <2>2
    <3>2. d \in events[g] /\ waiter[ctx[g][d]] = "waiting"
      BY <1>7, <3>1 DEF WaiterHeld
    <3>3. ctx[h][b] = ctx[g][d] => h = g /\ b = d
      BY <1>7, <3>1 DEF WaiterHeld
    <3>4. d \in events'[g] /\ waiter'[ctx'[g][d]] = "waiting"
      BY <1>2, <1>3, <3>1, <3>2
    <3>5. CASE h = f /\ b = e
      BY <1>1, <3>1, <3>4, <3>5
    <3>6. CASE h # f \/ b # e
      BY <1>1, <3>1, <3>3, <3>4, <3>6
    <3>. QED BY <3>5, <3>6
  <2>. QED BY <2>1, <2>2
<1>. QED BY <1>5, <1>6, <1>7 DEF WaiterHeld

LEMMA Withdraw ==
    ASSUME TypeOK, ContextInv, WaiterHeld, NEW f \in Table, NEW e \in events[f],
           NEW s, s # "waiting",
           events' = [events EXCEPT ![f] = events[f] \ {e}],
           ctx' = [ctx EXCEPT ![f][e] = NoWaiter],
           waiter' = [waiter EXCEPT ![ctx[f][e]] = s]
    PROVE  /\ ContextInv' /\ WaiterHeld'
           /\ \A w \in Waiters : waiter[w] # "waiting" => waiter'[w] = waiter[w]
<1>. DEFINE w == ctx[f][e]
<1>0. e \in Events /\ \A g \in Table : events[g] \subseteq Events
  BY DEF TypeOK
<1>1. /\ ctx'[f][e] = NoWaiter
      /\ \A g \in Table, d \in Events : g # f \/ d # e => ctx'[g][d] = ctx[g][d]
  BY <1>0 DEF TypeOK
<1>2. /\ events'[f] = events[f] \ {e}
      /\ \A g \in Table \ {f} : events'[g] = events[g]
  BY DEF TypeOK
<1>3. w # NoWaiter /\ w \in Waiters /\ waiter[w] = "waiting"
  BY <1>0 DEF ContextInv, WaiterHeld, TypeOK
<1>4. waiter'[w] # "waiting" /\ \A x \in Waiters \ {w} : waiter'[x] = waiter[x]
  BY <1>3 DEF TypeOK
<1>5. ContextInv'
  BY <1>1, <1>2 DEF ContextInv
<1>6. \A x \in Waiters : waiter'[x] = "waiting" =>
        \E g \in Table : \E d \in events'[g] : ctx'[g][d] = x
  <2>1. SUFFICES ASSUME NEW x \in Waiters, waiter'[x] = "waiting"
                 PROVE  \E g \in Table : \E d \in events'[g] : ctx'[g][d] = x
    OBVIOUS
  <2>2. x # w /\ waiter[x] = "waiting"
    BY <1>4, <2>1
  <2>3. PICK g \in Table : \E d \in events[g] : ctx[g][d] = x
    BY <2>2 DEF WaiterHeld
  <2>4. PICK d \in events[g] : ctx[g][d] = x
    BY <2>3
  <2>5. d \in Events /\ (g # f \/ d # e)
    BY <1>0, <2>2, <2>4
  <2>6. d \in events'[g] /\ ctx'[g][d] = x
    BY <1>1, <1>2, <2>4, <2>5
  <2>. QED BY <2>6
<1>7. ASSUME NEW g \in Table, NEW h \in Table, NEW d \in Events, NEW b \in Events,
             ctx'[g][d] # NoWaiter
      PROVE  /\ d \in events'[g]
             /\ waiter'[ctx'[g][d]] = "waiting"
             /\ ctx'[h][b] = ctx'[g][d] => h = g /\ b = d
  <2>1. (g # f \/ d # e) /\ ctx'[g][d] = ctx[g][d]
    BY <1>1, <1>7
  <2>2. d \in events[g] /\ waiter[ctx[g][d]] = "waiting" /\ ctx[g][d] \in Waiters
    BY <1>7, <2>1 DEF WaiterHeld, TypeOK
  <2>3. ctx[h][b] = ctx[g][d] => h = g /\ b = d
    BY <1>7, <2>1 DEF WaiterHeld
  <2>4. ctx[g][d] # w
    BY <1>0, <1>7, <2>1 DEF WaiterHeld
  <2>5. d \in events'[g] /\ waiter'[ctx'[g][d]] = "waiting"
    BY <1>2, <1>4, <2>1, <2>2, <2>4
  <2>6. ctx'[h][b] = ctx'[g][d] => h = g /\ b = d
    BY <1>1, <1>7, <2>1, <2>3
  <2>. QED BY <2>5, <2>6
<1>8. \A x \in Waiters : waiter[x] # "waiting" => waiter'[x] = waiter[x]
  BY <1>3, <1>4
<1>. QED BY <1>5, <1>6, <1>7, <1>8 DEF WaiterHeld

LEMMA AddQuiet ==
    ASSUME AddInv, NEW t \in Threads, Alone(t),
           call'[t].op = "add" => call[t].op = "add" /\ call'[t].who = call[t].who,
           \A w \in Waiters : waiter[w] = "adding" =>
             \/ waiter'[w] = "adding"
             \/ call[t].op = "add" /\ w = call[t].who /\ call'[t].op # "add"
    PROVE  AddInv'
<1>1. ASSUME NEW u \in Threads, call'[u].op = "add"
      PROVE  call[u].op = "add" /\ call'[u].who = call[u].who
  BY <1>1 DEF Alone
<1>2. ASSUME NEW u \in Threads, call'[u].op = "add"
      PROVE  call'[u].who \in Waiters /\ waiter'[call'[u].who] = "adding"
  <2>1. call[u].who \in Waiters /\ waiter[call[u].who] = "adding"
    BY <1>1, <1>2 DEF AddInv
  <2>2. call[t].op = "add" /\ call[u].who = call[t].who => u = t
    BY <1>1, <1>2 DEF AddInv
  <2>. QED BY <1>1, <1>2, <2>1, <2>2
<1>3. ASSUME NEW u \in Threads, NEW v \in Threads, call'[u].op = "add", call'[v].op = "add",
             call'[u].who = call'[v].who
      PROVE  u = v
  BY <1>1, <1>3 DEF AddInv
<1>. QED BY <1>2, <1>3 DEF AddInv

LEMMA StepContext ==
    ASSUME TypeOK, FdInv, ShapeInv, LockInv, SectionInv, AddInv, ContextInv, WaiterHeld,
           ProtectedAsserts, NEW t \in Threads, Step(t)
    PROVE  AddInv' /\ ContextInv' /\ WaiterHeld' /\ ProtectedAsserts'
<1>. DEFINE c == call[t]
            f == call[t].fd
            e == call[t].ev
            Goal == AddInv' /\ ContextInv' /\ WaiterHeld' /\ ProtectedAsserts'
<1>0. Fits(c.op, c.pc) /\ e \in Events /\ c.todo \subseteq Events
  BY CallFacts DEF ShapeInv
<1>a. c.op = "add" => c.who \in Waiters /\ waiter[c.who] = "adding"
  BY DEF AddInv
<1>b. Within(c.pc) => Section(c, events[f], interest[f]) /\ f \in Table
  BY DEF LockInv, SectionInv, Inside
<1>c. ASSUME UNCHANGED <<events, ctx, waiter, abort>>, Alone(t),
             call'[t].op = "add" => c.op = "add" /\ call'[t].who = c.who
      PROVE  Goal
  <2>1. AddInv'
    BY <1>c, AddQuiet
  <2>. QED BY <1>c, <2>1, ContextQuiet DEF ProtectedAsserts
<1>d. CASE UNCHANGED <<events, ctx, waiter, abort>> /\ Return(t)
  BY <1>c, <1>d, ReturnFacts DEF Alone
<1>e. ASSUME NEW pc, UNCHANGED <<events, ctx, waiter, abort>>, Goto(t, pc) PROVE Goal
  BY <1>c, <1>e, GotoFacts DEF Alone
<1>f. ASSUME NEW op, NEW pc, NEW g, NEW d, NEW todo, op # "add", Go(t, op, pc, g, d, todo),
             UNCHANGED <<events, ctx, waiter, abort>>
      PROVE  Goal
  BY <1>c, <1>f, GoFacts DEF Alone
\* addEvent gives its waiter back.
<1>g. ASSUME NEW s \in {"failed", "running"}, UNCHANGED <<events, ctx, abort>>, c.op = "add",
             waiter' = [waiter EXCEPT ![c.who] = s], Return(t)
      PROVE  Goal
  <2>1. Alone(t) /\ call'[t].op = "none"
    BY <1>g, ReturnFacts DEF Alone
  <2>2. waiter'[c.who] = s /\ \A w \in Waiters \ {c.who} : waiter'[w] = waiter[w]
    BY <1>a, <1>g DEF TypeOK
  <2>3. AddInv'
    BY <1>g, <2>1, <2>2, AddQuiet
  <2>4. ContextInv' /\ WaiterHeld'
    BY <1>a, <1>g, <2>2, ContextQuiet
  <2>. QED BY <1>g, <2>3, <2>4 DEF ProtectedAsserts
\* An event is taken out of the table.
<1>h. ASSUME NEW d \in events[f], NEW s \in {"dropped", "queued"}, f \in Table, c.op # "add",
             Alone(t), call'[t].op = c.op, events' = [events EXCEPT ![f] = events[f] \ {d}],
             ctx' = [ctx EXCEPT ![f][d] = NoWaiter],
             waiter' = [waiter EXCEPT ![ctx[f][d]] = s], abort' = abort
      PROVE  Goal
  <2>1. /\ ContextInv' /\ WaiterHeld'
        /\ \A w \in Waiters : waiter[w] # "waiting" => waiter'[w] = waiter[w]
    BY <1>h, Withdraw
  <2>2. AddInv'
    BY <1>h, <2>1, AddQuiet
  <2>. QED BY <1>h, <2>1, <2>2 DEF ProtectedAsserts
<1>i. ASSUME NEW name, Fail(name),
             name \notin {"addEvent: context in use", "cancelAll: events left"}
      PROVE  Goal
  <2>1. AddInv'
    BY <1>i DEF Fail, AddInv
  <2>2. ContextInv' /\ WaiterHeld'
    BY <1>i, ContextQuiet DEF Fail
  <2>. QED BY <1>i, <2>1, <2>2 DEF Fail, ProtectedAsserts
<1>1. CASE RdLock(t) \/ Lookup(t) \/ Unlock(t) \/ EndItems(t)
  BY <1>1, <1>d, <1>e DEF RdLock, Lookup, Unlock, EndItems, table
<1>2. CASE Grow(t)
  BY <1>0, <1>2, <1>g DEF Grow, table, Fits
<1>3. CASE AddCtl(t)
  <2>1. CASE AlreadyRegistered(f, e)
    BY <1>3, <1>i, <2>1 DEF AddCtl
  <2>2. CASE waiter' = [waiter EXCEPT ![c.who] = "running"] /\ Return(t)
             /\ UNCHANGED <<table, abort>>
    BY <1>3, <1>g, <2>2 DEF AddCtl, table
  <2>3. CASE Goto(t, "set") /\ UNCHANGED waiter /\ UNCHANGED <<table, abort>>
    BY <1>e, <2>3 DEF table
  <2>. QED BY <1>3, <2>1, <2>2, <2>3 DEF AddCtl
<1>4. CASE AddSet(t)
  <2>0. c.pc = "set" /\ c.op = "add" /\ f \in Table /\ e \notin events[f]
    BY <1>4, <1>b DEF AddSet, Within, Section
  <2>1. ctx[f][e] = NoWaiter
    BY <1>0, <2>0 DEF ContextInv
  <2>2. /\ events' = [events EXCEPT ![f] = @ \cup {e}]
        /\ ctx' = [ctx EXCEPT ![f][e] = c.who]
        /\ waiter' = [waiter EXCEPT ![c.who] = "waiting"]
        /\ Return(t) /\ abort' = abort
    BY <1>4, <2>1 DEF AddSet, getContext
  <2>3. ContextInv' /\ WaiterHeld'
    BY <1>0, <1>a, <2>0, <2>1, <2>2, Register
  <2>4. Alone(t) /\ call'[t].op = "none"
    BY <2>2, ReturnFacts DEF Alone
  <2>5. \A w \in Waiters \ {c.who} : waiter'[w] = waiter[w]
    BY <2>2 DEF TypeOK
  <2>6. AddInv'
    BY <2>0, <2>4, <2>5, AddQuiet
  <2>. QED BY <2>2, <2>3, <2>6 DEF ProtectedAsserts
<1>5. CASE WithdrawCtl(t)
  BY <1>5, <1>e DEF WithdrawCtl, table
<1>6. CASE DelSet(t)
  <2>0. c.pc = "set" /\ c.op = "del" /\ f \in Table /\ e \in events[f]
    BY <1>6, <1>b DEF DelSet, Within, Section
  <2>1. Alone(t) /\ call'[t].op = c.op
    BY <1>6, GotoFacts DEF DelSet, Alone
  <2>. QED BY <1>6, <1>h, <2>0, <2>1 DEF DelSet, Left, getContext
<1>7. CASE CancelDec(t)
  BY <1>7, <1>f DEF CancelDec, table
<1>8. CASE AllCtl(t)
  BY <1>8, <1>e, <1>f DEF AllCtl, table
<1>9. CASE Trigger(t)
  <2>. DEFINE d == First(c.todo)
  <2>0. c.pc = "trig" /\ f \in Table /\ c.op # "add"
    BY <1>0, <1>9, <1>b DEF Trigger, Within, Fits
  <2>1. CASE d \notin events[f]
    BY <1>9, <1>i, <2>1 DEF Trigger
  <2>2. CASE d \in events[f]
    <3>1. Alone(t) /\ call'[t].op = c.op
      BY <1>9, <2>2, GoFacts DEF Trigger, Alone
    <3>. QED BY <1>9, <1>h, <2>0, <2>2, <3>1 DEF Trigger, getContext
  <2>. QED BY <2>1, <2>2
<1>10. CASE Dec(t)
  BY <1>10, <1>e DEF Dec, table
<1>11. CASE Exit(t)
  <2>1. c.op = "cancelAll" => events[f] = {}
    BY <1>11, <1>b DEF Exit, Within, Section
  <2>. QED BY <1>11, <1>e, <2>1 DEF Exit, table
<1>12. CASE EpollWait(t)
  BY <1>12, <1>f DEF EpollWait, table
<1>13. ASSUME NEW b \in batch[t], Item(t, b) PROVE Goal
  <2>1. CASE UNCHANGED call
    BY <1>13, <2>1, <1>c DEF Item, table, Alone
  <2>2. ASSUME NEW real, Go(t, "idle", "trig", b.fd, e, real) PROVE Goal
    BY <1>13, <1>f, <2>2 DEF Item, table
  <2>. QED BY <1>13, <2>1, <2>2 DEF Item
<1>. QED BY <1>1, <1>2, <1>3, <1>4, <1>5, <1>6, <1>7, <1>8, <1>9, <1>10, <1>11, <1>12, <1>13
     DEF Step

-----------------------------------------------------------------------------
(* m_pendingEventCount                                                       *)

LEMMA CountedFinite == IsFiniteSet(Counted) /\ Cardinality(Counted) \in Nat
<1>1. IsFiniteSet(Events)
  <2>1. IsFiniteSet({"READ"}) /\ IsFiniteSet({"WRITE"})
    BY FS_Singleton
  <2>2. Events = {"READ"} \cup {"WRITE"}
    BY DEF Events
  <2>. QED BY <2>1, <2>2, FS_Union
<1>2. IsFiniteSet(Table \X Events)
  BY <1>1, FiniteAssumption, FS_Product
<1>3. Counted \subseteq Table \X Events
  BY DEF Counted
<1>. QED BY <1>2, <1>3, FS_Subset, FS_CardinalityType

\* No pair starts or stops counting.
LEMMA CountSame ==
    ASSUME PendingExact, pending' = pending,
           \A f \in Table, e \in Events : Counts(f, e)' <=> Counts(f, e)
    PROVE  PendingExact'
<1>1. Counted' = Counted
  BY DEF Counted
<1>. QED BY <1>1 DEF PendingExact

\* One pair starts counting.
LEMMA CountUp ==
    ASSUME PendingExact, pending' = pending + 1, NEW f \in Table, NEW e \in Events,
           ~Counts(f, e), Counts(f, e)',
           \A g \in Table, d \in Events : <<g, d>> # <<f, e>> => (Counts(g, d)' <=> Counts(g, d))
    PROVE  PendingExact'
<1>1. Counted' = Counted \cup {<<f, e>>}
  BY DEF Counted
<1>2. <<f, e>> \notin Counted
  BY DEF Counted
<1>3. Cardinality(Counted \cup {<<f, e>>}) = Cardinality(Counted) + 1
  BY <1>2, CountedFinite, FS_AddElement
<1>. QED BY <1>1, <1>3 DEF PendingExact

\* One pair stops counting.
LEMMA CountDown ==
    ASSUME PendingExact, pending' = pending - 1, NEW f \in Table, NEW e \in Events,
           Counts(f, e), ~Counts(f, e)',
           \A g \in Table, d \in Events : <<g, d>> # <<f, e>> => (Counts(g, d)' <=> Counts(g, d))
    PROVE  PendingExact'
<1>1. Counted' = Counted \ {<<f, e>>}
  BY DEF Counted
<1>2. <<f, e>> \in Counted
  BY DEF Counted
<1>3. Cardinality(Counted \ {<<f, e>>}) = Cardinality(Counted) - 1
  BY <1>2, CountedFinite, FS_RemoveElement
<1>. QED BY <1>1, <1>3 DEF PendingExact

\* What a step of one thread means for the pairs that it does not owe anything for.
LEMMA CountFrame ==
    ASSUME NEW t \in Threads, Alone(t),
           NEW f \in Table, NEW e \in Events,
           OwesDec(call[t], f, e)' <=> OwesDec(call[t], f, e),
           OwesTrigger(call[t], f, e)' <=> OwesTrigger(call[t], f, e),
           e \in events[f] <=> e \in events'[f]
    PROVE  Counts(f, e)' <=> Counts(f, e)
<1>1. Undecremented(f, e)' <=> Undecremented(f, e)
  <2>1. \A u \in Threads : OwesDec(call'[u], f, e) <=> OwesDec(call[u], f, e)
    BY DEF Alone
  <2>. QED BY <2>1 DEF Undecremented
<1>2. Untriggered(f, e)' <=> Untriggered(f, e)
  <2>1. \A u \in Threads : OwesTrigger(call'[u], f, e) <=> OwesTrigger(call[u], f, e)
    BY DEF Alone
  <2>. QED BY <2>1 DEF Untriggered
<1>. QED BY <1>1, <1>2 DEF Counts

LEMMA CountQuiet ==
    ASSUME PendingExact, UNCHANGED <<pending, events>>, NEW t \in Threads, Alone(t),
           \A f \in Table, e \in Events :
             /\ ~OwesDec(call[t], f, e) /\ ~OwesDec(call'[t], f, e)
             /\ ~OwesTrigger(call[t], f, e) /\ ~OwesTrigger(call'[t], f, e)
    PROVE  PendingExact'
<1>1. ASSUME NEW f \in Table, NEW e \in Events PROVE Counts(f, e)' <=> Counts(f, e)
  BY CountFrame
<1>. QED BY <1>1, CountSame

\* Only the thread inside the section of f can owe anything for f.
LEMMA SoleOwner ==
    ASSUME LockInv, NEW t \in Threads, Inside(call[t]), Alone(t), NEW f, f = call[t].fd,
           NEW e \in Events
    PROVE  /\ Undecremented(f, e) <=> OwesDec(call[t], f, e)
           /\ Untriggered(f, e) <=> OwesTrigger(call[t], f, e)
           /\ Undecremented(f, e)' <=> OwesDec(call'[t], f, e)
           /\ Untriggered(f, e)' <=> OwesTrigger(call'[t], f, e)
<1>1. \A u \in Threads \ {t} : ~(Inside(call[u]) /\ call[u].fd = f)
  BY DEF LockInv
<1>2. \A u \in Threads \ {t} : ~OwesDec(call[u], f, e) /\ ~OwesTrigger(call[u], f, e)
  BY <1>1 DEF OwesDec, OwesTrigger, Inside, Within
<1>3. \A u \in Threads \ {t} : ~OwesDec(call'[u], f, e) /\ ~OwesTrigger(call'[u], f, e)
  BY <1>2 DEF Alone
<1>4. Undecremented(f, e) <=> OwesDec(call[t], f, e)
  BY <1>2 DEF Undecremented
<1>5. Untriggered(f, e) <=> OwesTrigger(call[t], f, e)
  BY <1>2 DEF Untriggered
<1>6. Undecremented(f, e)' <=> OwesDec(call'[t], f, e)
  BY <1>3 DEF Undecremented
<1>7. Untriggered(f, e)' <=> OwesTrigger(call'[t], f, e)
  BY <1>3 DEF Untriggered
<1>. QED BY <1>4, <1>5, <1>6, <1>7

LEMMA StepPending ==
    ASSUME TypeOK, FdInv, ShapeInv, LockInv, SectionInv, PendingExact, NEW t \in Threads, Step(t),
           NEW f, f = call[t].fd, NEW e, e = call[t].ev
    PROVE  PendingExact'
<1>. DEFINE c == call[t]
<1>0. Fits(c.op, c.pc) /\ e \in Events /\ c.todo \subseteq Events
  BY CallFacts DEF ShapeInv
<1>a. Within(c.pc) => Section(c, events[f], interest[f]) /\ f \in Table /\ Inside(c)
  BY DEF LockInv, SectionInv, Inside
<1>b. CASE UNCHANGED <<pending, events, call>>
  <2>1. ASSUME NEW g \in Table, NEW d \in Events PROVE Counts(g, d)' <=> Counts(g, d)
    BY <1>b, CountFrame DEF Alone
  <2>. QED BY <1>b, <2>1, CountSame
<1>c. ASSUME UNCHANGED <<pending, events>>, Alone(t),
             c.pc \notin {"dec", "trig"}, call'[t].pc \notin {"dec", "trig"}
      PROVE  PendingExact'
  BY <1>c, CountQuiet DEF OwesDec, OwesTrigger
<1>d. CASE UNCHANGED <<pending, events>> /\ c.pc \notin {"dec", "trig"} /\ Return(t)
  BY <1>c, <1>d, ReturnFacts DEF Alone
<1>e. ASSUME NEW pc, UNCHANGED <<pending, events>>, c.pc \notin {"dec", "trig"},
             Goto(t, pc), pc \notin {"dec", "trig"}
      PROVE  PendingExact'
  BY <1>c, <1>e, GotoFacts DEF Alone
<1>f. ASSUME NEW op, NEW g, NEW d, NEW todo, Go(t, op, "trig", g, d, todo), op # "cancel",
             UNCHANGED <<pending, events>>, c.pc \notin {"dec", "trig"}
      PROVE  PendingExact'
  <2>1. Alone(t) /\ call'[t].op = op /\ call'[t].pc = "trig"
    BY <1>f, GoFacts DEF Alone
  <2>. QED BY <1>f, <2>1, CountQuiet DEF OwesDec, OwesTrigger
\* Inside the section only the pair <<f, d>> is at stake.
<1>g. ASSUME Alone(t), NEW d \in Events, f \in Table,
             \A b \in Events : /\ OwesDec(c, f, b) => b = d
                               /\ OwesTrigger(c, f, b) => b = d
                               /\ OwesDec(call'[t], f, b) => b = d
                               /\ OwesTrigger(call'[t], f, b) => b = d,
             call'[t].fd = f,
             \A g \in Table, b \in Events :
               <<g, b>> # <<f, d>> => (b \in events'[g] <=> b \in events[g])
      PROVE  \A g \in Table, b \in Events :
               <<g, b>> # <<f, d>> => (Counts(g, b)' <=> Counts(g, b))
  <2>1. SUFFICES ASSUME NEW g \in Table, NEW b \in Events, <<g, b>> # <<f, d>>
                 PROVE  Counts(g, b)' <=> Counts(g, b)
    OBVIOUS
  <2>2. /\ ~OwesDec(c, g, b) /\ ~OwesTrigger(c, g, b)
        /\ ~OwesDec(call'[t], g, b) /\ ~OwesTrigger(call'[t], g, b)
    BY <1>g, <2>1 DEF OwesDec, OwesTrigger
  <2>3. b \in events[g] <=> b \in events'[g]
    BY <1>g, <2>1
  <2>. QED BY <1>g, <2>2, <2>3, CountFrame
<1>1. CASE RdLock(t) \/ Lookup(t) \/ Grow(t) \/ Unlock(t) \/ EndItems(t)
  BY <1>1, <1>d, <1>e DEF RdLock, Lookup, Grow, Unlock, EndItems, table
<1>2. CASE EpollWait(t)
  <2>1. Alone(t) /\ call'[t].pc = "items"
    BY <1>2, GoFacts DEF EpollWait, Alone
  <2>. QED BY <1>2, <1>c, <2>1 DEF EpollWait, table
<1>3. CASE AddCtl(t)
  BY <1>3, <1>b, <1>d, <1>e DEF AddCtl, Fail, table
<1>4. CASE AddSet(t)
  <2>0. c.pc = "set" /\ c.op = "add" /\ f \in Table /\ e \notin events[f] /\ Inside(c)
    BY <1>4, <1>a DEF AddSet, Within, Section
  <2>1. CASE getContext(f, e) # NoWaiter
    BY <1>4, <1>b, <2>1 DEF AddSet, Fail
  <2>2. CASE getContext(f, e) = NoWaiter
    <3>1. Alone(t) /\ call'[t].pc = "free" /\ call'[t].fd = f
      BY <1>4, <2>2, ReturnFacts DEF AddSet, Alone
    <3>2. /\ pending' = pending + 1
          /\ events' = [events EXCEPT ![f] = @ \cup {e}]
      BY <1>4, <2>2 DEF AddSet
    <3>3. /\ e \in events'[f]
          /\ \A g \in Table, b \in Events :
               <<g, b>> # <<f, e>> => (b \in events'[g] <=> b \in events[g])
      BY <2>0, <3>2 DEF TypeOK
    <3>4. ~Undecremented(f, e) /\ ~Untriggered(f, e)'
      BY <1>0, <2>0, <3>1, SoleOwner DEF OwesDec, OwesTrigger
    <3>5. ~Counts(f, e) /\ Counts(f, e)'
      BY <2>0, <3>3, <3>4 DEF Counts
    <3>6. \A g \in Table, b \in Events : <<g, b>> # <<f, e>> => (Counts(g, b)' <=> Counts(g, b))
      BY <1>0, <1>g, <2>0, <3>1, <3>3 DEF OwesDec, OwesTrigger
    <3>. QED BY <1>0, <2>0, <3>2, <3>5, <3>6, CountUp
  <2>. QED BY <2>1, <2>2
<1>5. CASE WithdrawCtl(t)
  <2>0. c.pc = "ctl" /\ c.op \in {"del", "cancel"} /\ UNCHANGED <<pending, events>>
    BY <1>5 DEF WithdrawCtl, table
  <2>1. CASE Goto(t, "unlock")
    BY <1>e, <2>0, <2>1
  <2>2. ASSUME NEW pc, pc = (IF c.op = "del" THEN "set" ELSE "dec"), Goto(t, pc)
        PROVE  PendingExact'
    <3>1. Alone(t) /\ call'[t].op = c.op /\ call'[t].pc = pc
      BY <2>2, GotoFacts DEF Alone
    <3>. QED BY <2>0, <2>2, <3>1, CountQuiet DEF OwesDec, OwesTrigger
  <2>. QED BY <1>5, <2>1, <2>2 DEF WithdrawCtl
<1>6. CASE DelSet(t)
  <2>0. c.pc = "set" /\ c.op = "del" /\ f \in Table /\ e \in events[f] /\ Inside(c)
    BY <1>6, <1>a DEF DelSet, Within, Section
  <2>1. Alone(t) /\ call'[t].pc = "unlock" /\ call'[t].fd = f
    BY <1>6, GotoFacts DEF DelSet, Alone
  <2>2. /\ pending' = pending - 1
        /\ events' = [events EXCEPT ![f] = events[f] \ {e}]
    BY <1>6 DEF DelSet, Left
  <2>3. /\ e \notin events'[f]
        /\ \A g \in Table, b \in Events :
             <<g, b>> # <<f, e>> => (b \in events'[g] <=> b \in events[g])
    BY <2>0, <2>2 DEF TypeOK
  <2>4. ~Undecremented(f, e)' /\ ~Untriggered(f, e)
    BY <1>0, <2>0, <2>1, SoleOwner DEF OwesDec, OwesTrigger
  <2>5. Counts(f, e) /\ ~Counts(f, e)'
    BY <2>0, <2>3, <2>4 DEF Counts
  <2>6. \A g \in Table, b \in Events : <<g, b>> # <<f, e>> => (Counts(g, b)' <=> Counts(g, b))
    BY <1>0, <1>g, <2>0, <2>1, <2>3 DEF OwesDec, OwesTrigger
  <2>. QED BY <1>0, <2>0, <2>2, <2>5, <2>6, CountDown
<1>7. CASE CancelDec(t)
  <2>0. c.pc = "dec" /\ c.op = "cancel" /\ f \in Table /\ e \in events[f] /\ Inside(c)
    BY <1>7, <1>a DEF CancelDec, Within, Section
  <2>1. /\ Alone(t) /\ call'[t].pc = "trig" /\ call'[t].op = "cancel" /\ call'[t].fd = f
        /\ call'[t].ev = e
    BY <1>7, GoFacts DEF CancelDec, Alone
  <2>2. pending' = pending - 1 /\ events' = events
    BY <1>7 DEF CancelDec, table
  <2>4. Untriggered(f, e)' /\ ~Untriggered(f, e)
    BY <1>0, <2>0, <2>1, SoleOwner DEF OwesTrigger
  <2>5. Counts(f, e) /\ ~Counts(f, e)'
    BY <2>0, <2>4 DEF Counts
  <2>6. \A g \in Table, b \in Events : <<g, b>> # <<f, e>> => (Counts(g, b)' <=> Counts(g, b))
    BY <1>0, <1>g, <2>0, <2>1, <2>2 DEF OwesDec, OwesTrigger
  <2>. QED BY <1>0, <2>0, <2>2, <2>5, <2>6, CountDown
<1>8. CASE AllCtl(t)
  BY <1>8, <1>e, <1>f DEF AllCtl, table
<1>9. CASE Trigger(t)
  <2>. PICK d \in Events : d = First(c.todo)
    BY DEF First, Events
  <2>0. c.pc = "trig" /\ f \in Table /\ Inside(c) /\ c.op \in {"cancel", "cancelAll", "idle"}
    BY <1>0, <1>9, <1>a DEF Trigger, Within, Fits
  <2>1. CASE d \notin events[f]
    BY <1>9, <1>b, <2>1 DEF Trigger, Fail
  <2>2. CASE d \in events[f]
    <3>1. /\ Alone(t) /\ call'[t].op = c.op /\ call'[t].fd = f /\ call'[t].ev = d
          /\ call'[t].pc = (IF c.op = "cancel" THEN "exit" ELSE "dec")
      BY <1>9, <2>2, GoFacts DEF Trigger, Alone
    <3>2. pending' = pending /\ events' = [events EXCEPT ![f] = @ \ {d}]
      BY <1>9, <2>2 DEF Trigger
    <3>3. /\ d \notin events'[f]
          /\ \A g \in Table, b \in Events :
               <<g, b>> # <<f, d>> => (b \in events'[g] <=> b \in events[g])
      BY <2>0, <3>2 DEF TypeOK
    <3>4. c.op = "cancel" => d = e
      BY <1>0, <1>a, <2>0 DEF Inside, Section, First, Events
    <3>5. /\ Undecremented(f, d)' <=> OwesDec(call'[t], f, d)
          /\ Untriggered(f, d)' <=> OwesTrigger(call'[t], f, d)
          /\ Undecremented(f, d) <=> OwesDec(c, f, d)
          /\ Untriggered(f, d) <=> OwesTrigger(c, f, d)
      BY <2>0, <3>1, SoleOwner
    <3>7. Counts(f, d)' <=> Counts(f, d)
      <4>1. CASE c.op = "cancel"
        BY <2>0, <3>1, <3>3, <3>4, <3>5, <4>1 DEF Counts, OwesDec, OwesTrigger
      <4>2. CASE c.op # "cancel"
        BY <2>0, <2>2, <3>1, <3>5, <4>2 DEF Counts, OwesDec, OwesTrigger
      <4>. QED BY <4>1, <4>2
    <3>8. \A g \in Table, b \in Events : <<g, b>> # <<f, d>> => (Counts(g, b)' <=> Counts(g, b))
      <4>1. \A b \in Events : /\ OwesDec(c, f, b) => b = d
                              /\ OwesTrigger(c, f, b) => b = d
                              /\ OwesDec(call'[t], f, b) => b = d
                              /\ OwesTrigger(call'[t], f, b) => b = d
        BY <2>0, <3>1, <3>4 DEF OwesDec, OwesTrigger
      <4>. QED BY <1>g, <2>0, <3>1, <3>3, <4>1
    <3>. QED BY <3>2, <3>7, <3>8, CountSame
  <2>. QED BY <2>1, <2>2
<1>10. CASE Dec(t)
  <2>0. /\ c.pc = "dec" /\ c.op \in {"cancelAll", "idle"} /\ f \in Table /\ Inside(c)
        /\ e \notin events[f]
    BY <1>10, <1>a DEF Dec, Within, Section
  <2>1. /\ Alone(t) /\ call'[t].pc \in {"trig", "exit"} /\ call'[t].op = c.op
        /\ call'[t].fd = f
    <3>1. PICK pc \in {"trig", "exit"} : Goto(t, pc)
      BY <1>10 DEF Dec
    <3>. QED BY <3>1, GotoFacts DEF Alone
  <2>2. pending' = pending - 1 /\ events' = events
    BY <1>10 DEF Dec, table
  <2>3. Undecremented(f, e) /\ ~Untriggered(f, e) /\ ~Undecremented(f, e)'
    BY <1>0, <2>0, <2>1, SoleOwner DEF OwesDec, OwesTrigger
  <2>4. Counts(f, e) /\ ~Counts(f, e)'
    BY <2>0, <2>2, <2>3 DEF Counts
  <2>5. \A g \in Table, b \in Events : <<g, b>> # <<f, e>> => (Counts(g, b)' <=> Counts(g, b))
    BY <1>0, <1>g, <2>0, <2>1, <2>2 DEF OwesDec, OwesTrigger
  <2>. QED BY <1>0, <2>0, <2>2, <2>4, <2>5, CountDown
<1>11. CASE Exit(t)
  BY <1>11, <1>b, <1>e DEF Exit, Fail, table
<1>12. ASSUME NEW b \in batch[t], Item(t, b) PROVE PendingExact'
  <2>1. CASE UNCHANGED call
    BY <1>12, <1>b, <2>1 DEF Item, table
  <2>2. ASSUME NEW real, Go(t, "idle", "trig", b.fd, e, real) PROVE PendingExact'
    BY <1>12, <1>f, <2>2 DEF Item, table
  <2>. QED BY <1>12, <2>1, <2>2 DEF Item
<1>. QED BY <1>1, <1>2, <1>3, <1>4, <1>5, <1>6, <1>7, <1>8, <1>9, <1>10, <1>11, <1>12 DEF Step

-----------------------------------------------------------------------------
(* The inductive invariant                                                   *)

Core == /\ LockInv /\ ShapeInv
        /\ SectionInv /\ InterestInSync
        /\ AddInv /\ ContextInv /\ WaiterHeld /\ ProtectedAsserts
        /\ PendingExact

LEMMA InitCore == Init => Core
<1>. SUFFICES ASSUME Init PROVE Core
  OBVIOUS
<1>1. \A t \in Threads : call[t].pc = "free" /\ call[t].op = "none"
  BY DEF Init
<1>2. \A f \in Table : /\ events[f] = {} /\ interest[f] = {} /\ mutex[f] = NoThread
                       /\ \A e \in Events : ctx[f][e] = NoWaiter
  BY DEF Init
<1>3. LockInv /\ ShapeInv /\ SectionInv /\ InterestInSync
  BY <1>1, <1>2 DEF LockInv, ShapeInv, SectionInv, InterestInSync, Inside, Within, Fits
<1>4. AddInv
  BY <1>1 DEF AddInv
<1>5. ContextInv
  BY <1>2 DEF ContextInv
<1>6. WaiterHeld
  BY <1>2 DEF Init, WaiterHeld
<1>7. PendingExact
  <2>1. Counted = {}
    BY <1>1, <1>2 DEF Counted, Counts, Undecremented, OwesDec
  <2>. QED BY <2>1, FS_EmptySet DEF PendingExact, Init
<1>. QED BY <1>3, <1>4, <1>5, <1>6, <1>7 DEF Core, ProtectedAsserts, Init

\* A step that leaves the calls and the table alone.
LEMMA SameCore ==
    ASSUME TypeOK, Core, UNCHANGED <<events, ctx, mutex, pending, interest, call, abort>>,
           \A w \in Waiters : /\ waiter'[w] = "waiting" <=> waiter[w] = "waiting"
                              /\ waiter'[w] = "adding" <=> waiter[w] = "adding"
    PROVE  Core'
<1>1. ContextInv' /\ WaiterHeld'
  BY ContextQuiet DEF Core
<1>2. LockInv' /\ ShapeInv' /\ SectionInv' /\ InterestInSync' /\ ProtectedAsserts'
  BY DEF Core, LockInv, ShapeInv, SectionInv, InterestInSync, ProtectedAsserts
<1>3. AddInv'
  BY DEF Core, AddInv
<1>4. PendingExact'
  <2>1. Counted' = Counted
    BY DEF Counted, Counts, Undecremented, Untriggered
  <2>. QED BY <2>1 DEF Core, PendingExact
<1>. QED BY <1>1, <1>2, <1>3, <1>4 DEF Core

\* A call begins.
LEMMA BeginCore ==
    ASSUME TypeOK, Core, NEW t \in Threads, call[t].pc = "free", Alone(t),
           call'[t].pc = "rdlock", call'[t].op \in {"add", "del", "cancel", "cancelAll"},
           UNCHANGED <<events, ctx, mutex, pending, interest, abort>>,
           \A w \in Waiters : waiter'[w] = "waiting" <=> waiter[w] = "waiting",
           AddInv'
    PROVE  Core'
<1>1. ~Inside(call[t]) /\ ~Inside(call'[t])
  BY DEF Inside, Within
<1>2. LockInv'
  BY <1>1, LockKeep DEF Core
<1>3. ShapeInv'
  BY DEF Core, ShapeInv, Alone, Fits
<1>4. SectionInv' /\ InterestInSync'
  BY <1>1, SectionQuiet DEF Core
<1>5. ContextInv' /\ WaiterHeld'
  BY ContextQuiet DEF Core
<1>6. PendingExact'
  BY CountQuiet DEF Core, OwesDec, OwesTrigger
<1>. QED BY <1>2, <1>3, <1>4, <1>5, <1>6 DEF Core, ProtectedAsserts

LEMMA CallAddCore ==
    ASSUME TypeOK, Core, NEW t \in Threads, NEW f \in Fds, NEW e \in Events, NEW w \in Waiters,
           CallAdd(t, f, e, w)
    PROVE  Core'
<1>1. /\ Alone(t) /\ call[t].pc = "free" /\ waiter[w] = "running"
      /\ call'[t].pc = "rdlock" /\ call'[t].op = "add" /\ call'[t].who = w
  BY DEF CallAdd, Alone, TypeOK
<1>2. waiter'[w] = "adding" /\ \A x \in Waiters \ {w} : waiter'[x] = waiter[x]
  BY DEF CallAdd, TypeOK
<1>3. ASSUME NEW u \in Threads \ {t}, call'[u].op = "add"
      PROVE  call'[u] = call[u] /\ call[u].who \in Waiters /\ call[u].who # w
             /\ waiter[call[u].who] = "adding"
  BY <1>1, <1>3 DEF Alone, Core, AddInv
<1>4. AddInv'
  <2>1. ASSUME NEW u \in Threads, call'[u].op = "add"
        PROVE  call'[u].who \in Waiters /\ waiter'[call'[u].who] = "adding"
    BY <1>1, <1>2, <1>3, <2>1
  <2>2. ASSUME NEW u \in Threads, NEW v \in Threads, call'[u].op = "add", call'[v].op = "add",
               call'[u].who = call'[v].who
        PROVE  u = v
    <3>1. CASE u = t \/ v = t
      BY <1>1, <1>3, <2>2, <3>1
    <3>2. CASE u # t /\ v # t
      BY <1>3, <2>2, <3>2 DEF Core, AddInv
    <3>. QED BY <3>1, <3>2
  <2>. QED BY <2>1, <2>2 DEF AddInv
<1>. QED BY <1>1, <1>2, <1>4, BeginCore DEF CallAdd, table, kernel

LEMMA CallWithdrawCore ==
    ASSUME TypeOK, Core, NEW t \in Threads, NEW f \in Fds, NEW e \in Events, NEW op \in Ops,
           CallWithdraw(t, op, f, e)
    PROVE  Core'
<1>1. /\ Alone(t) /\ call[t].pc = "free" /\ op \in {"del", "cancel", "cancelAll"}
      /\ call'[t].pc = "rdlock" /\ call'[t].op = op
  BY DEF CallWithdraw, Alone, TypeOK
<1>2. AddInv'
  BY <1>1, AddQuiet DEF CallWithdraw, Core
<1>. QED BY <1>1, <1>2, BeginCore DEF CallWithdraw, table, kernel

IInv == TypeOK /\ FdInv /\ Core

\* The strengthening is inductive.
THEOREM Inductive == Spec => []IInv
<1>1. Init => Core
  BY InitCore
<1>2. TypeOK /\ FdInv /\ Core /\ [Next]_vars => Core'
  <2>. SUFFICES ASSUME TypeOK, FdInv, Core, [Next]_vars PROVE Core'
    OBVIOUS
  <2>1. ASSUME NEW t \in Threads, Step(t) PROVE Core'
    BY <2>1, StepLock, StepSection, StepContext, StepPending DEF Core
  <2>2. ASSUME NEW t \in Threads, NEW f \in Fds, NEW e \in Events, NEW w \in Waiters,
               CallAdd(t, f, e, w)
        PROVE  Core'
    BY <2>2, CallAddCore
  <2>3. ASSUME NEW t \in Threads, NEW f \in Fds, NEW e \in Events, NEW op \in Ops,
               CallWithdraw(t, op, f, e)
        PROVE  Core'
    BY <2>3, CallWithdrawCore
  <2>4. ASSUME NEW f \in Table, NEW c \in Conditions, Edge(f, c) \/ Drain(f, c) PROVE Core'
    BY <2>4, SameCore DEF Edge, Drain
  <2>5. ASSUME NEW w \in Waiters, RunWaiter(w) PROVE Core'
    <3>1. waiter[w] = "queued" /\ waiter'[w] = "running"
          /\ \A x \in Waiters \ {w} : waiter'[x] = waiter[x]
      BY <2>5 DEF RunWaiter, TypeOK
    <3>. QED BY <2>5, <3>1, SameCore DEF RunWaiter, table, kernel
  <2>6. CASE UNCHANGED vars
    BY <2>6, SameCore DEF vars
  <2>. QED BY <2>1, <2>2, <2>3, <2>4, <2>5, <2>6 DEF Next, Halted
<1>. QED BY <1>1, <1>2, TypeCorrect, PTL DEF Spec, IInv

\* m_pendingEventCount is exact between any two of its updates.
THEOREM CountIsExact == Spec => []PendingExact
<1>1. IInv => PendingExact
  BY DEF IInv, Core
<1>. QED BY <1>1, Inductive, PTL

\* A registered waiter is in exactly one context until it is scheduled or dropped,
\* and no context names anybody else.
THEOREM NobodyForgotten == Spec => []WaiterHeld
<1>1. IInv => WaiterHeld
  BY DEF IInv, Core
<1>. QED BY <1>1, Inductive, PTL

\* Whenever an FdContext's mutex is free, epoll's interest is its set of events,
\* whichever epoll_ctl calls have failed.
THEOREM KernelInStep == Spec => []InterestInSync
<1>1. IInv => InterestInSync
  BY DEF IInv, Core
<1>. QED BY <1>1, Inductive, PTL

\* The Asserts of addEvent on an empty context and of cancelAll on events never fail.
THEOREM AssertsAreProtected == Spec => []ProtectedAsserts
<1>1. IInv => ProtectedAsserts
  BY DEF IInv, Core
<1>. QED BY <1>1, Inductive, PTL
=============================================================================
