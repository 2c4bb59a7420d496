---------------------------- MODULE Fiber_proofs ----------------------------
(***************************************************************************)
(* Fibers for every number of workers, fibers and jobs: no task is run     *)
(* twice or forgotten, whichever stores to m_state race; and when they     *)
(* cannot race.                                                            *)
(*                                                                         *)
(* The argument is about turns.  m_state does not tell who may run a       *)
(* fiber; that a fiber is armed, in m_fibers or with one worker does, and  *)
(* it is never in two of these places.                                     *)
(***************************************************************************)
EXTENDS Fiber, TLAPS

-----------------------------------------------------------------------------
(* The inductive invariant                                                   *)

\* A worker deals with a fiber unless it scans; the fiber lives, and a body that
\* runs has begun.
Dealing == \A w \in Workers :
    /\ IF pc[w] = "scan" THEN on[w] = NoFiber ELSE on[w] \in Fibers
    /\ pc[w] = "body" => on[w] \in begun
    /\ pc[w] # "scan" => state[on[w]] # "none"

\* Worker w has the right to run f, or runs it.
HasTurn(w, f) == on[w] = f /\ pc[w] \in {"in", "body"}

\* The fibers that will run: a timer or an FdContext, m_fibers or a worker has them.
Due == {f \in Fibers : f \in armed \cup readyFibers \/ \E w \in Workers : HasTurn(w, f)}

\* Only one of them has: a fiber that is armed, in the list or with one worker is nowhere else.
OneTurn ==
    /\ armed \cap readyFibers = {}
    /\ \A f \in armed \cup readyFibers, w \in Workers : ~HasTurn(w, f)
    /\ \A f \in Fibers, v, w \in Workers : HasTurn(v, f) /\ HasTurn(w, f) => v = w

\* A body that has begun and not ended is due, and what is due is not over.
DueIsLive ==
    /\ begun \subseteq Due
    /\ \A f \in Due : state[f] \notin {"none", "TERM", "EXCEPT"}

\* cb_fiber is alive, of one worker, and due only while its worker deals with it.
CbFibers ==
    /\ \A w \in Workers : cbFiber[w] # NoFiber =>
         state[cbFiber[w]] # "none" /\ (cbFiber[w] \in Due => on[w] = cbFiber[w])
    /\ \A v, w \in Workers : v # w /\ cbFiber[v] = cbFiber[w] => cbFiber[v] = NoFiber

\* How far the job of a fiber has come.
JobsOfFibers ==
    /\ \A f \in Due : /\ cb[f] \in Jobs /\ ends[cb[f]] = 0
                      /\ runs[cb[f]] = IF f \in begun THEN 1 ELSE 0
    /\ \A f, g \in Due : cb[f] = cb[g] => f = g
    /\ \A f \in Fibers \ Due : state[f] # "none" /\ cb[f] # NoJob => runs[cb[f]] = 1 /\ ends[cb[f]] = 1

JobCounts == \A j \in Jobs :
    /\ ends[j] <= runs[j] /\ runs[j] <= 1
    /\ j \in readyCbs => Holders(j) = {} /\ runs[j] = 0
    /\ runs[j] = 1 /\ ends[j] = 0 => \E f \in begun : cb[f] = j

TurnInv == TypeOK /\ Dealing /\ OneTurn /\ DueIsLive /\ CbFibers /\ JobsOfFibers /\ JobCounts


LEMMA InitTurn == Init => TurnInv
<1>. SUFFICES ASSUME Init PROVE TurnInv
  OBVIOUS
<1>1. Due = {}
  BY DEF Init, Due, HasTurn
<1>2. TypeOK
  BY BoundAssumption DEF Init, TypeOK, States, Pcs, Aborts
<1>3. Dealing /\ OneTurn
  BY DEF Init, Dealing, OneTurn, HasTurn
<1>4. DueIsLive /\ CbFibers /\ JobsOfFibers /\ JobCounts
  BY <1>1 DEF Init, DueIsLive, CbFibers, JobsOfFibers, JobCounts, Holders
<1>. QED BY <1>2, <1>3, <1>4 DEF TurnInv

LEMMA FailTurn ==
    ASSUME TurnInv, NEW name \in Aborts, Fail(name)
    PROVE  TurnInv'
<1>1. /\ UNCHANGED <<state, cb, saved, begun, armed, readyFibers, readyCbs, cbFiber, pc, on, yields, runs, ends>>
      /\ abort' \in Aborts
  BY DEF Fail, queue, jobs
<1>2. TypeOK'
  BY <1>1 DEF TurnInv, TypeOK
<1>3. Due' = Due
  BY <1>1 DEF Due, HasTurn
<1>4. Dealing' /\ OneTurn'
  BY <1>1 DEF TurnInv, Dealing, OneTurn, HasTurn
<1>5. DueIsLive' /\ CbFibers' /\ JobsOfFibers' /\ JobCounts'
  BY <1>1, <1>3 DEF TurnInv, DueIsLive, CbFibers, JobsOfFibers, JobCounts, Holders
<1>. QED BY <1>2, <1>4, <1>5 DEF TurnInv

LEMMA ScheduleTurn ==
    ASSUME TurnInv, NEW j \in Jobs, Schedule(j)
    PROVE  TurnInv'
<1>1. UNCHANGED <<state, cb, saved, begun, armed, readyFibers, cbFiber, pc, on, yields, runs, ends, abort>>
  BY DEF Schedule, jobs
<1>2. TypeOK'
  BY <1>1 DEF Schedule, TurnInv, TypeOK
<1>3. Due' = Due
  BY <1>1 DEF Due, HasTurn
<1>4. Dealing' /\ OneTurn'
  BY <1>1 DEF TurnInv, Dealing, OneTurn, HasTurn
<1>5. DueIsLive' /\ CbFibers' /\ JobsOfFibers'
  BY <1>1, <1>3 DEF TurnInv, DueIsLive, CbFibers, JobsOfFibers
<1>6. JobCounts'
  <2>1. Holders(j) = {} /\ runs[j] = 0
    BY DEF Schedule, Submitted, Holders, TurnInv, TypeOK
  <2>2. \A i \in Jobs : Holders(i)' = Holders(i)
    BY <1>1 DEF Holders
  <2>. QED BY <1>1, <2>1, <2>2 DEF Schedule, TurnInv, JobCounts
<1>. QED BY <1>2, <1>4, <1>5, <1>6 DEF TurnInv

LEMMA ScheduleFiberTurn ==
    ASSUME TurnInv, NEW j \in Jobs, NEW f \in Fibers, ScheduleFiber(j, f)
    PROVE  TurnInv'
<1>1. UNCHANGED <<begun, armed, readyCbs, cbFiber, pc, on, yields, runs, ends, abort>>
  BY DEF ScheduleFiber, jobs
<1>2. TypeOK'
  BY <1>1 DEF ScheduleFiber, TurnInv, TypeOK, States
<1>3. f \notin Due /\ f \notin begun
  BY DEF ScheduleFiber, TurnInv, DueIsLive
<1>4. Due' = Due \cup {f}
  BY <1>1 DEF ScheduleFiber, Due, HasTurn
<1>5. Dealing' /\ OneTurn'
  <2>1. f \notin armed /\ \A w \in Workers : ~HasTurn(w, f)
    BY <1>3 DEF Due
  <2>. QED BY <1>1, <2>1 DEF ScheduleFiber, TurnInv, Dealing, OneTurn, HasTurn
<1>6. /\ state' = [state EXCEPT ![f] = "INIT"] /\ cb' = [cb EXCEPT ![f] = j]
      /\ state \in [Fibers -> States \cup {"none"}] /\ cb \in [Fibers -> Jobs \cup {NoJob}]
      /\ state[f] = "none"
  BY DEF ScheduleFiber, TurnInv, TypeOK
<1>7. runs[j] = 0 /\ ends[j] = 0 /\ j \notin readyCbs /\ Holders(j) = {}
  BY DEF ScheduleFiber, Submitted, Holders, TurnInv, TypeOK, JobCounts
<1>8. DueIsLive'
  BY <1>1, <1>4, <1>6 DEF TurnInv, DueIsLive
<1>9. CbFibers'
  BY <1>1, <1>4, <1>6 DEF TurnInv, CbFibers, TypeOK
<1>10. JobsOfFibers'
  <2>1. \A g \in Due : cb[g] # j
    BY <1>7 DEF Holders, TurnInv, DueIsLive, Due
  <2>. QED BY <1>1, <1>3, <1>4, <1>6, <1>7, <2>1, NullAssumption DEF TurnInv, JobsOfFibers, Due
<1>11. JobCounts'
  BY <1>1, <1>3, <1>6, <1>7 DEF TurnInv, JobCounts, Holders, TypeOK
<1>. QED BY <1>2, <1>5, <1>8, <1>9, <1>10, <1>11 DEF TurnInv

LEMMA FireTurn ==
    ASSUME TurnInv, NEW f \in Fibers, Fire(f)
    PROVE  TurnInv'
<1>1. UNCHANGED <<state, cb, saved, begun, readyCbs, cbFiber, pc, on, yields, runs, ends, abort>>
  BY DEF Fire, jobs
<1>2. TypeOK'
  BY <1>1 DEF Fire, TurnInv, TypeOK
<1>3. Due' = Due
  BY <1>1 DEF Fire, Due, HasTurn
<1>4. Dealing' /\ OneTurn'
  BY <1>1 DEF Fire, TurnInv, Dealing, OneTurn, HasTurn
<1>5. DueIsLive' /\ CbFibers' /\ JobsOfFibers' /\ JobCounts'
  BY <1>1, <1>3 DEF TurnInv, DueIsLive, CbFibers, JobsOfFibers, JobCounts, Holders
<1>. QED BY <1>2, <1>4, <1>5 DEF TurnInv

LEMMA TakeFiberTurn ==
    ASSUME TurnInv, NEW w \in Workers, NEW f \in Fibers, TakeFiber(w, f)
    PROVE  TurnInv'
<1>1. UNCHANGED <<state, cb, saved, begun, armed, readyCbs, cbFiber, yields, runs, ends, abort>>
  BY DEF TakeFiber, jobs
<1>0. /\ pc \in [Workers -> Pcs] /\ on \in [Workers -> Fibers \cup {NoFiber}]
      /\ on[w] = NoFiber /\ pc[w] = "scan"
      /\ \A v \in Workers : v # w => on'[v] = on[v] /\ pc'[v] = pc[v]
      /\ on'[w] = f /\ pc'[w] = "in"
  BY DEF TurnInv, TypeOK, Dealing, TakeFiber
<1>2. TypeOK'
  BY <1>1 DEF TakeFiber, TurnInv, TypeOK, Pcs
<1>3. Due' = Due
  BY <1>0, <1>1, NullAssumption DEF TakeFiber, Due, HasTurn
<1>4. Dealing' /\ OneTurn'
  <2>1. state[f] # "none"
    BY DEF TakeFiber, Due, TurnInv, DueIsLive
  <2>2. Dealing'
    BY <1>0, <1>1, <2>1 DEF TurnInv, Dealing
  <2>3. OneTurn'
    BY <1>0, <1>1, NullAssumption DEF TakeFiber, TurnInv, OneTurn, HasTurn
  <2>. QED BY <2>2, <2>3
<1>5. CbFibers'
  <2>1. f \in Due
    BY DEF TakeFiber, Due
  <2>2. \A v \in Workers : cbFiber[v] # NoFiber /\ cbFiber[v] \in Due => on'[v] = cbFiber[v]
    BY <1>0 DEF TurnInv, CbFibers
  <2>. QED BY <1>1, <1>3, <2>2 DEF TurnInv, CbFibers
<1>6. DueIsLive' /\ JobsOfFibers' /\ JobCounts'
  BY <1>1, <1>3 DEF TurnInv, DueIsLive, JobsOfFibers, JobCounts, Holders
<1>. QED BY <1>2, <1>4, <1>5, <1>6 DEF TurnInv

\* What a step of worker w that keeps its fiber does to where the workers are.
LEMMA PcStep ==
    ASSUME TurnInv, NEW w \in Workers, NEW p \in Pcs, pc' = [pc EXCEPT ![w] = p]
    PROVE  /\ pc' \in [Workers -> Pcs] /\ pc'[w] = p
           /\ \A v \in Workers : v # w => pc'[v] = pc[v]
  BY DEF TurnInv, TypeOK

LEMMA OnStep ==
    ASSUME TurnInv, NEW w \in Workers, NEW f \in Fibers \cup {NoFiber}, on' = [on EXCEPT ![w] = f]
    PROVE  /\ on' \in [Workers -> Fibers \cup {NoFiber}] /\ on'[w] = f
           /\ \A v \in Workers : v # w => on'[v] = on[v]
  BY DEF TurnInv, TypeOK

\* The two lemmas below are for workers that have no turn: they leave the tasks alone.
LEMMA StateOnly ==
    ASSUME TurnInv, NEW f \in Fibers, NEW s \in States \cup {"none"},
           state' = [state EXCEPT ![f] = s],
           f \in Due => s \notin {"none", "TERM", "EXCEPT"},
           s = "none" => \A w \in Workers : cbFiber[w] # f,
           state[f] # "none",
           UNCHANGED <<cb, begun, readyCbs, cbFiber, runs, ends, Due>>,
           \A v \in Workers : cbFiber[v] # NoFiber /\ cbFiber[v] \in Due => on'[v] = cbFiber[v]
    PROVE  DueIsLive' /\ CbFibers' /\ JobsOfFibers' /\ JobCounts'
<1>0. state \in [Fibers -> States \cup {"none"}] /\ cbFiber \in [Workers -> Fibers \cup {NoFiber}]
  BY DEF TurnInv, TypeOK
<1>1. DueIsLive'
  BY <1>0 DEF TurnInv, DueIsLive
<1>2. CbFibers'
  BY <1>0 DEF TurnInv, CbFibers
<1>3. JobsOfFibers'
  BY <1>0 DEF TurnInv, JobsOfFibers
<1>4. JobCounts'
  <2>1. \A j \in Jobs : Holders(j)' \subseteq Holders(j)
    BY <1>0 DEF Holders
  <2>. QED BY <2>1 DEF TurnInv, JobCounts
<1>. QED BY <1>1, <1>2, <1>3, <1>4

LEMMA SameTurns ==
    ASSUME TurnInv, NEW w \in Workers, pc[w] \notin {"in", "body"}, pc'[w] \notin {"in", "body"},
           \A v \in Workers : v # w => pc'[v] = pc[v] /\ on'[v] = on[v],
           UNCHANGED <<armed, readyFibers>>
    PROVE  UNCHANGED Due /\ OneTurn'
<1>1. \A v \in Workers, f \in Fibers : HasTurn(v, f)' <=> HasTurn(v, f)
  BY DEF HasTurn
<1>2. Due' = Due
  BY <1>1 DEF Due
<1>3. OneTurn'
  <2>1. armed \cup readyFibers \subseteq Fibers
    BY DEF TurnInv, TypeOK
  <2>. QED BY <1>1, <2>1 DEF TurnInv, OneTurn
<1>. QED BY <1>2, <1>3

LEMMA ForgetTurn ==
    ASSUME TurnInv, NEW w \in Workers, pc[w] = "after", ~OnCbFiber(w), Forget(w, state[on[w]])
    PROVE  TurnInv'
<1>. DEFINE f == on[w]
            s == IF Referenced(f, w) THEN state[f] ELSE "none"
<1>0. /\ f \in Fibers /\ state[f] \in States \cup {"none"}
      /\ state \in [Fibers -> States \cup {"none"}]
  BY DEF TurnInv, Dealing, TypeOK
<1>1. CASE Fail("~Fiber: state")
  BY <1>1, FailTurn DEF Aborts
<1>2. CASE ~Fail("~Fiber: state")
  <2>1. /\ state' = [state EXCEPT ![f] = s]
        /\ pc' = [pc EXCEPT ![w] = "scan"] /\ on' = [on EXCEPT ![w] = NoFiber]
        /\ UNCHANGED <<cb, saved, begun, armed, readyFibers, readyCbs, cbFiber, yields, runs, ends, abort>>
    BY <1>2 DEF Forget, queue, jobs
  <2>2. /\ pc' \in [Workers -> Pcs] /\ pc'[w] = "scan" /\ on'[w] = NoFiber
        /\ on' \in [Workers -> Fibers \cup {NoFiber}]
        /\ \A v \in Workers : v # w => pc'[v] = pc[v] /\ on'[v] = on[v]
    BY <2>1, PcStep, OnStep DEF Pcs
  <2>3. UNCHANGED Due /\ OneTurn'
    BY <2>1, <2>2, SameTurns
  <2>4. TypeOK'
    BY <1>0, <2>1, <2>2 DEF TurnInv, TypeOK
  <2>5. state[f] # "none"
    BY DEF TurnInv, Dealing
  <2>6. Dealing'
    <3>1. s = "none" => \A v \in Workers : v # w => on[v] # f
      BY <2>5 DEF Referenced
    <3>2. \A v \in Workers : v # w /\ pc[v] # "scan" => state'[on[v]] # "none"
      BY <1>0, <2>1, <2>5, <3>1 DEF TurnInv, Dealing
    <3>. QED BY <2>1, <2>2, <3>2 DEF TurnInv, Dealing
  <2>7. s = "none" => f \notin Due /\ \A v \in Workers : cbFiber[v] # f
    BY <1>0, <2>5 DEF Referenced, Due, HasTurn, OnCbFiber
  <2>8. f \in Due => s \notin {"none", "TERM", "EXCEPT"}
    BY <2>7 DEF TurnInv, DueIsLive
  <2>9. \A v \in Workers : cbFiber[v] # NoFiber /\ cbFiber[v] \in Due => on'[v] = cbFiber[v]
    BY <2>2 DEF TurnInv, CbFibers, OnCbFiber
  <2>10. DueIsLive' /\ CbFibers' /\ JobsOfFibers' /\ JobCounts'
    <3>. HIDE DEF s, f
    <3>. QED BY <1>0, <2>1, <2>3, <2>5, <2>7, <2>8, <2>9, StateOnly DEF s
  <2>. QED BY <2>3, <2>4, <2>6, <2>10 DEF TurnInv
<1>. QED BY <1>1, <1>2

LEMMA TakeCbTurn ==
    ASSUME TurnInv, NEW w \in Workers, NEW j \in Jobs, NEW f \in Fibers, TakeCb(w, j, f)
    PROVE  TurnInv'
<1>1. CASE Fail("reset: state")
  BY <1>1, FailTurn DEF Aborts
<1>2. CASE ~Fail("reset: state")
  <2>1. /\ pc[w] = "scan" /\ j \in readyCbs
        /\ IF cbFiber[w] = NoFiber THEN state[f] = "none" ELSE f = cbFiber[w]
        /\ state[f] \in {"none", "INIT", "TERM", "EXCEPT"}
        /\ readyCbs' = readyCbs \ {j}
        /\ state' = [state EXCEPT ![f] = "INIT"] /\ cb' = [cb EXCEPT ![f] = j]
        /\ saved' = [saved EXCEPT ![f] = TRUE] /\ cbFiber' = [cbFiber EXCEPT ![w] = f]
        /\ pc' = [pc EXCEPT ![w] = "in"] /\ on' = [on EXCEPT ![w] = f]
        /\ UNCHANGED <<begun, armed, readyFibers, yields, runs, ends, abort>>
    BY <1>2 DEF TakeCb, Erased, jobs
  <2>2. /\ pc' \in [Workers -> Pcs] /\ pc'[w] = "in" /\ on'[w] = f
        /\ on' \in [Workers -> Fibers \cup {NoFiber}]
        /\ \A v \in Workers : v # w => pc'[v] = pc[v] /\ on'[v] = on[v]
    BY <2>1, PcStep, OnStep DEF Pcs
  <2>3. /\ state \in [Fibers -> States \cup {"none"}] /\ cb \in [Fibers -> Jobs \cup {NoJob}]
        /\ cbFiber \in [Workers -> Fibers \cup {NoFiber}] /\ on[w] = NoFiber
    BY <2>1 DEF TurnInv, TypeOK, Dealing
  <2>4. f \notin Due /\ f \notin begun
    BY <2>1, <2>3, NullAssumption DEF TurnInv, DueIsLive, CbFibers
  <2>5. TypeOK'
    BY <2>1, <2>2, <2>3 DEF TurnInv, TypeOK, States
  <2>6. Due' = Due \cup {f}
    BY <2>1, <2>2, <2>3, NullAssumption DEF Due, HasTurn
  <2>7. Dealing' /\ OneTurn'
    <3>1. f \notin armed \cup readyFibers /\ \A v \in Workers : ~HasTurn(v, f)
      BY <2>4 DEF Due
    <3>. QED BY <2>1, <2>2, <2>3, <3>1, NullAssumption DEF TurnInv, Dealing, OneTurn, HasTurn
  <2>8. runs[j] = 0 /\ ends[j] = 0 /\ Holders(j) = {}
    BY <2>1 DEF TurnInv, JobCounts, TypeOK
  <2>9. DueIsLive'
    BY <2>1, <2>3, <2>6 DEF TurnInv, DueIsLive
  <2>10. CbFibers'
    <3>1. \A v \in Workers : v # w => cbFiber[v] # f
      BY <2>1, <2>3, NullAssumption DEF TurnInv, CbFibers
    <3>2. \A v \in Workers : v # w => cbFiber'[v] = cbFiber[v]
      BY <2>1, <2>3
    <3>3. cbFiber'[w] = f
      BY <2>1, <2>3
    <3>. QED BY <2>1, <2>2, <2>3, <2>6, <3>1, <3>2, <3>3 DEF TurnInv, CbFibers
  <2>11. JobsOfFibers'
    <3>1. \A g \in Due : cb[g] # j
      BY <2>8 DEF Holders, TurnInv, DueIsLive, Due
    <3>. QED BY <2>1, <2>3, <2>4, <2>6, <2>8, <3>1, NullAssumption DEF TurnInv, JobsOfFibers, Due
  <2>12. JobCounts'
    <3>1. \A i \in Jobs \ {j} : Holders(i)' \subseteq Holders(i)
      BY <2>1, <2>3 DEF Holders
    <3>2. \A g \in begun : cb'[g] = cb[g]
      BY <2>1, <2>3, <2>4
    <3>. QED BY <2>1, <2>8, <3>1, <3>2 DEF TurnInv, JobCounts, TypeOK
  <2>. QED BY <2>5, <2>7, <2>9, <2>10, <2>11, <2>12 DEF TurnInv
<1>. QED BY <1>1, <1>2

LEMMA SwapInTurn ==
    ASSUME TurnInv, NEW w \in Workers, SwapIn(w)
    PROVE  TurnInv'
<1>. DEFINE f == on[w]
<1>0. /\ pc[w] = "in" /\ f \in Fibers /\ f \in Due
      /\ state \in [Fibers -> States \cup {"none"}] /\ saved \in [Fibers -> BOOLEAN]
      /\ runs \in [Jobs -> Nat]
  BY DEF SwapIn, TurnInv, Dealing, TypeOK, Due, HasTurn
<1>1. state[f] \notin {"none", "TERM", "EXCEPT"}
  BY <1>0 DEF TurnInv, DueIsLive
<1>2. CASE Fail("swapIn: EXEC")
  BY <1>2, FailTurn DEF Aborts
<1>3. CASE Fail("swapIn: stack in use")
  BY <1>3, FailTurn DEF Aborts
<1>4. CASE ~Fail("swapIn: EXEC") /\ ~Fail("swapIn: stack in use")
  <2>1. /\ runs' = IF f \in begun THEN runs ELSE [runs EXCEPT ![cb[f]] = runs[cb[f]] + 1]
        /\ begun' = begun \cup {f}
        /\ state' = [state EXCEPT ![f] = "EXEC"]
        /\ saved' = [saved EXCEPT ![f] = FALSE]
        /\ pc' = [pc EXCEPT ![w] = "body"]
        /\ UNCHANGED <<cb, armed, readyFibers, readyCbs, cbFiber, on, yields, ends, abort>>
    BY <1>1, <1>4 DEF SwapIn, queue
  <2>2. /\ pc' \in [Workers -> Pcs] /\ pc'[w] = "body"
        /\ \A v \in Workers : v # w => pc'[v] = pc[v]
    BY <2>1, PcStep DEF Pcs
  <2>3. \A v \in Workers, g \in Fibers : HasTurn(v, g)' <=> HasTurn(v, g)
    BY <1>0, <2>1, <2>2 DEF HasTurn
  <2>4. Due' = Due
    BY <2>1, <2>3 DEF Due
  <2>5. TypeOK'
    <3>1. runs' \in [Jobs -> Nat]
      <4>1. cb[f] \in Jobs
        BY <1>0 DEF TurnInv, JobsOfFibers
      <4>. QED BY <1>0, <2>1, <4>1
    <3>. QED BY <1>0, <2>1, <2>2, <3>1 DEF TurnInv, TypeOK, States
  <2>6. Dealing' /\ OneTurn'
    <3>1. armed \cup readyFibers \subseteq Fibers
      BY DEF TurnInv, TypeOK
    <3>2. Dealing'
      BY <1>0, <2>1, <2>2 DEF TurnInv, Dealing
    <3>3. OneTurn'
      BY <2>1, <2>3, <3>1 DEF TurnInv, OneTurn
    <3>. QED BY <3>2, <3>3
  <2>7. DueIsLive' /\ CbFibers'
    BY <1>0, <2>1, <2>4 DEF TurnInv, DueIsLive, CbFibers, TypeOK
  <2>8. cb[f] \in Jobs /\ runs'[cb[f]] = 1 /\ ends[cb[f]] = 0 /\ \A j \in Jobs : j # cb[f] => runs'[j] = runs[j]
    BY <1>0, <2>1 DEF TurnInv, JobsOfFibers
  <2>9. JobsOfFibers'
    <3>1. \A g \in Due : g # f => cb[g] # cb[f] /\ cb[g] \in Jobs
      BY <1>0 DEF TurnInv, JobsOfFibers
    <3>2. \A g \in Fibers \ Due : state[g] # "none" /\ cb[g] # NoJob => cb[g] # cb[f] /\ cb[g] \in Jobs
      BY <2>8 DEF TurnInv, JobsOfFibers, TypeOK
    <3>3. \A g \in Fibers \ Due : state'[g] = state[g]
      BY <1>0, <2>1
    <3>. QED BY <1>0, <2>1, <2>4, <2>8, <3>1, <3>2, <3>3 DEF TurnInv, JobsOfFibers
  <2>10. JobCounts'
    <3>1. \A j \in Jobs : Holders(j)' = Holders(j)
      BY <1>0, <1>1, <2>1 DEF Holders
    <3>2. cb[f] \notin readyCbs
      BY <1>0, <1>1 DEF Holders, TurnInv, JobCounts, TypeOK
    <3>3. \A j \in Jobs : runs'[j] = 1 /\ ends[j] = 0 => \E g \in begun' : cb[g] = j
      BY <2>1, <2>8 DEF TurnInv, JobCounts
    <3>. QED BY <2>1, <2>8, <3>1, <3>2, <3>3 DEF TurnInv, JobCounts, TypeOK
  <2>. QED BY <2>5, <2>6, <2>7, <2>9, <2>10 DEF TurnInv
<1>. QED BY <1>2, <1>3, <1>4

LEMMA ArmTurn ==
    ASSUME TurnInv, NEW w \in Workers, NEW event \in BOOLEAN, Arm(w, event)
    PROVE  TurnInv'
<1>. DEFINE f == on[w]
<1>0. /\ pc[w] = "body" /\ f \in Fibers /\ HasTurn(w, f) /\ f \in Due
      /\ yields \in [Jobs -> 0..MaxYields] /\ cb[f] \in Jobs
  BY DEF Arm, TurnInv, Dealing, TypeOK, Due, HasTurn, JobsOfFibers
<1>1. CASE Fail("addEvent: not EXEC")
  BY <1>1, FailTurn DEF Aborts
<1>2. CASE ~Fail("addEvent: not EXEC")
  <2>1. /\ armed' = armed \cup {f}
        /\ yields' = [yields EXCEPT ![cb[f]] = yields[cb[f]] + 1] /\ yields[cb[f]] < MaxYields
        /\ pc' = [pc EXCEPT ![w] = "wait"]
        /\ UNCHANGED <<state, cb, saved, begun, readyFibers, readyCbs, cbFiber, on, runs, ends, abort>>
    BY <1>2 DEF Arm, queue
  <2>2. /\ pc' \in [Workers -> Pcs] /\ pc'[w] = "wait"
        /\ \A v \in Workers : v # w => pc'[v] = pc[v]
    BY <2>1, PcStep DEF Pcs
  <2>3. Due' = Due
    BY <1>0, <2>1, <2>2 DEF Due, HasTurn
  <2>4. TypeOK'
    <3>1. yields' \in [Jobs -> 0..MaxYields]
      BY <1>0, <2>1, BoundAssumption
    <3>. QED BY <1>0, <2>1, <2>2, <3>1 DEF TurnInv, TypeOK
  <2>5. Dealing'
    BY <1>0, <2>1, <2>2 DEF TurnInv, Dealing
  <2>6. OneTurn'
    BY <1>0, <2>1, <2>2 DEF TurnInv, OneTurn, HasTurn
  <2>7. DueIsLive' /\ CbFibers' /\ JobsOfFibers' /\ JobCounts'
    BY <2>1, <2>3 DEF TurnInv, DueIsLive, CbFibers, JobsOfFibers, JobCounts, Holders
  <2>. QED BY <2>4, <2>5, <2>6, <2>7 DEF TurnInv
<1>. QED BY <1>1, <1>2

LEMMA YieldTurn ==
    ASSUME TurnInv, NEW w \in Workers, yieldToHold(w)
    PROVE  TurnInv'
<1>. DEFINE f == on[w]
<1>0. /\ pc[w] = "wait" /\ f \in Fibers /\ state \in [Fibers -> States \cup {"none"}]
  BY DEF yieldToHold, TurnInv, Dealing, TypeOK
<1>1. CASE Fail("yieldToHold: not EXEC")
  BY <1>1, FailTurn DEF Aborts
<1>2. CASE ~Fail("yieldToHold: not EXEC")
  <2>1. /\ state[f] = "EXEC" /\ state' = [state EXCEPT ![f] = "HOLD"]
        /\ pc' = [pc EXCEPT ![w] = "switch"]
        /\ UNCHANGED <<cb, saved, begun, armed, readyFibers, readyCbs, cbFiber, on, yields, runs, ends, abort>>
    BY <1>2 DEF yieldToHold, Hold, queue, jobs
  <2>2. /\ pc' \in [Workers -> Pcs] /\ pc'[w] = "switch"
        /\ \A v \in Workers : v # w => pc'[v] = pc[v] /\ on'[v] = on[v]
    BY <2>1, PcStep DEF Pcs
  <2>3. UNCHANGED Due /\ OneTurn'
    BY <1>0, <2>1, <2>2, SameTurns
  <2>4. TypeOK' /\ Dealing'
    BY <1>0, <2>1, <2>2 DEF TurnInv, TypeOK, States, Dealing
  <2>5. \A v \in Workers : cbFiber[v] # NoFiber /\ cbFiber[v] \in Due => on'[v] = cbFiber[v]
    BY <2>1 DEF TurnInv, CbFibers
  <2>6. DueIsLive' /\ CbFibers' /\ JobsOfFibers' /\ JobCounts'
    <3>1. "HOLD" \in States \cup {"none"}
      BY DEF States
    <3>. HIDE DEF f
    <3>. QED BY <1>0, <2>1, <2>3, <2>5, <3>1, StateOnly
  <2>. QED BY <2>3, <2>4, <2>6 DEF TurnInv
<1>. QED BY <1>1, <1>2

LEMMA SwapOutTurn ==
    ASSUME TurnInv, NEW w \in Workers, SwapOut(w)
    PROVE  TurnInv'
<1>1. /\ pc[w] = "switch" /\ on[w] \in Fibers /\ pc' = [pc EXCEPT ![w] = "after"]
      /\ saved' = [saved EXCEPT ![on[w]] = TRUE]
      /\ UNCHANGED <<state, cb, begun, armed, readyFibers, readyCbs, cbFiber, on, yields, runs, ends, abort>>
  BY DEF SwapOut, TurnInv, Dealing, queue, jobs
<1>2. /\ pc' \in [Workers -> Pcs] /\ pc'[w] = "after"
      /\ \A v \in Workers : v # w => pc'[v] = pc[v] /\ on'[v] = on[v]
  BY <1>1, PcStep DEF Pcs
<1>3. UNCHANGED Due /\ OneTurn'
  BY <1>1, <1>2, SameTurns
<1>4. TypeOK' /\ Dealing'
  BY <1>1, <1>2 DEF TurnInv, TypeOK, Dealing
<1>5. DueIsLive' /\ CbFibers' /\ JobsOfFibers' /\ JobCounts'
  BY <1>1, <1>3 DEF TurnInv, DueIsLive, CbFibers, JobsOfFibers, JobCounts, Holders
<1>. QED BY <1>3, <1>4, <1>5 DEF TurnInv

LEMMA MainFuncEndTurn ==
    ASSUME TurnInv, NEW w \in Workers, NEW throws \in BOOLEAN, MainFuncEnd(w, throws)
    PROVE  TurnInv'
<1>. DEFINE f == on[w]
<1>0. /\ pc[w] = "body" /\ f \in Fibers /\ HasTurn(w, f) /\ f \in Due
      /\ cb[f] \in Jobs /\ state[f] # "none"
      /\ state \in [Fibers -> States \cup {"none"}] /\ cb \in [Fibers -> Jobs \cup {NoJob}]
      /\ ends \in [Jobs -> Nat]
  BY DEF MainFuncEnd, TurnInv, Dealing, TypeOK, Due, HasTurn, JobsOfFibers, DueIsLive
<1>1. /\ state' = [state EXCEPT ![f] = EndState(throws)] /\ EndState(throws) \in {"TERM", "EXCEPT"}
      /\ cb' = IF throws THEN cb ELSE [cb EXCEPT ![f] = NoJob]
      /\ begun' = begun \ {f}
      /\ ends' = [ends EXCEPT ![cb[f]] = ends[cb[f]] + 1]
      /\ pc' = [pc EXCEPT ![w] = "switch"]
      /\ UNCHANGED <<saved, armed, readyFibers, readyCbs, cbFiber, on, yields, runs, abort>>
  BY DEF MainFuncEnd, EndState, queue
<1>2. /\ pc' \in [Workers -> Pcs] /\ pc'[w] = "switch"
      /\ \A v \in Workers : v # w => pc'[v] = pc[v]
  BY <1>1, PcStep DEF Pcs
<1>3. Due' = Due \ {f}
  BY <1>0, <1>1, <1>2 DEF Due, HasTurn, TurnInv, OneTurn
<1>4. TypeOK' /\ Dealing'
  <2>1. TypeOK'
    BY <1>0, <1>1, <1>2 DEF TurnInv, TypeOK, States
  <2>2. \A v \in Workers : v # w /\ pc[v] = "body" => on[v] # f
    BY <1>0 DEF TurnInv, OneTurn, HasTurn
  <2>. QED BY <1>0, <1>1, <1>2, <2>1, <2>2 DEF TurnInv, Dealing
<1>5. OneTurn'
  BY <1>0, <1>1, <1>2 DEF TurnInv, OneTurn, HasTurn
<1>6. DueIsLive'
  BY <1>0, <1>1, <1>3 DEF TurnInv, DueIsLive
<1>7. CbFibers'
  BY <1>0, <1>1, <1>3 DEF TurnInv, CbFibers, TypeOK
<1>8. /\ f \in begun /\ runs[cb[f]] = 1 /\ ends[cb[f]] = 0 /\ ends'[cb[f]] = 1
      /\ \A j \in Jobs : j # cb[f] => ends'[j] = ends[j]
  BY <1>0, <1>1 DEF TurnInv, Dealing, JobsOfFibers
<1>9. \A g \in Fibers : g # f => cb'[g] = cb[g] /\ state'[g] = state[g]
  BY <1>0, <1>1
<1>10. cb'[f] \in {cb[f], NoJob}
  BY <1>0, <1>1
<1>11. JobsOfFibers'
  <2>1. \A g \in Due : g # f => cb[g] # cb[f] /\ cb[g] \in Jobs
    BY <1>0 DEF TurnInv, JobsOfFibers
  <2>2. \A g \in Fibers \ Due : state[g] # "none" /\ cb[g] # NoJob =>
          cb[g] \in Jobs /\ runs[cb[g]] = 1 /\ ends'[cb[g]] = 1
    <3>1. \A g \in Fibers \ Due : state[g] # "none" /\ cb[g] # NoJob =>
            cb[g] \in Jobs /\ runs[cb[g]] = 1 /\ ends[cb[g]] = 1
      BY <1>0 DEF TurnInv, JobsOfFibers
    <3>. QED BY <1>8, <3>1
  <2>3. \A g \in Due' : /\ g \in Fibers /\ cb'[g] \in Jobs /\ ends'[cb'[g]] = 0
                         /\ runs'[cb'[g]] = IF g \in begun' THEN 1 ELSE 0
    <3>1. \A g \in Due : /\ g \in Fibers /\ cb[g] \in Jobs /\ ends[cb[g]] = 0
                         /\ runs[cb[g]] = IF g \in begun THEN 1 ELSE 0
      BY DEF TurnInv, JobsOfFibers, Due
    <3>. QED BY <1>1, <1>3, <1>8, <1>9, <2>1, <3>1
  <2>4. \A g, h \in Due' : cb'[g] = cb'[h] => g = h
    BY <1>3, <1>9, <2>3 DEF TurnInv, JobsOfFibers
  <2>5. \A g \in Fibers \ Due' : state'[g] # "none" /\ cb'[g] # NoJob => runs'[cb'[g]] = 1 /\ ends'[cb'[g]] = 1
    BY <1>1, <1>3, <1>8, <1>9, <1>10, <2>2
  <2>. QED BY <2>3, <2>4, <2>5 DEF JobsOfFibers
<1>12. JobCounts'
  <2>1. \A j \in Jobs : Holders(j)' \subseteq Holders(j)
    BY <1>0, <1>9, <1>10, NullAssumption DEF Holders
  <2>2. \A j \in Jobs : ends'[j] <= runs[j]
    BY <1>8 DEF TurnInv, JobCounts
  <2>3. \A j \in Jobs : runs[j] = 1 /\ ends'[j] = 0 => \E g \in begun' : cb'[g] = j
    <3>. SUFFICES ASSUME NEW j \in Jobs, runs[j] = 1, ends'[j] = 0 PROVE \E g \in begun' : cb'[g] = j
      OBVIOUS
    <3>1. j # cb[f] /\ ends[j] = 0
      BY <1>8
    <3>2. PICK g \in begun : cb[g] = j
      BY <3>1 DEF TurnInv, JobCounts
    <3>3. g \in Fibers /\ g # f
      BY <3>1, <3>2 DEF TurnInv, TypeOK
    <3>. QED BY <1>1, <1>9, <3>2, <3>3
  <2>. QED BY <1>1, <2>1, <2>2, <2>3 DEF TurnInv, JobCounts
<1>. QED BY <1>4, <1>5, <1>6, <1>7, <1>11, <1>12 DEF TurnInv

LEMMA AfterSwapInTurn ==
    ASSUME TurnInv, NEW w \in Workers, AfterSwapIn(w)
    PROVE  TurnInv'
<1>. DEFINE f == on[w]
<1>0. /\ pc[w] = "after" /\ f \in Fibers /\ state \in [Fibers -> States \cup {"none"}]
      /\ cb \in [Fibers -> Jobs \cup {NoJob}]
  BY DEF AfterSwapIn, TurnInv, Dealing, TypeOK
<1>1. CASE state[f] \notin {"TERM", "EXCEPT"}
  <2>1. /\ pc' = [pc EXCEPT ![w] = "hold"]
        /\ UNCHANGED <<state, cb, saved, begun, armed, readyFibers, readyCbs, cbFiber, on, yields, runs, ends, abort>>
    BY <1>1 DEF AfterSwapIn, queue, jobs
  <2>2. /\ pc' \in [Workers -> Pcs] /\ pc'[w] = "hold"
        /\ \A v \in Workers : v # w => pc'[v] = pc[v] /\ on'[v] = on[v]
    BY <2>1, PcStep DEF Pcs
  <2>3. UNCHANGED Due /\ OneTurn'
    BY <1>0, <2>1, <2>2, SameTurns
  <2>4. TypeOK' /\ Dealing'
    BY <1>0, <2>1, <2>2 DEF TurnInv, TypeOK, Dealing
  <2>5. DueIsLive' /\ CbFibers' /\ JobsOfFibers' /\ JobCounts'
    BY <2>1, <2>3 DEF TurnInv, DueIsLive, CbFibers, JobsOfFibers, JobCounts, Holders
  <2>. QED BY <2>3, <2>4, <2>5 DEF TurnInv
<1>2. CASE state[f] \in {"TERM", "EXCEPT"} /\ ~OnCbFiber(w)
  BY <1>0, <1>2, ForgetTurn DEF AfterSwapIn
<1>3. CASE state[f] \in {"TERM", "EXCEPT"} /\ OnCbFiber(w)
  <2>1. /\ state' = [state EXCEPT ![f] = "INIT"] /\ cb' = [cb EXCEPT ![f] = NoJob]
        /\ pc' = [pc EXCEPT ![w] = "scan"] /\ on' = [on EXCEPT ![w] = NoFiber]
        /\ UNCHANGED <<saved, begun, armed, readyFibers, readyCbs, cbFiber, yields, runs, ends, abort>>
    BY <1>3 DEF AfterSwapIn, queue, jobs
  <2>2. /\ pc' \in [Workers -> Pcs] /\ pc'[w] = "scan" /\ on'[w] = NoFiber
        /\ on' \in [Workers -> Fibers \cup {NoFiber}]
        /\ \A v \in Workers : v # w => pc'[v] = pc[v] /\ on'[v] = on[v]
    BY <2>1, PcStep, OnStep DEF Pcs
  <2>3. UNCHANGED Due /\ OneTurn'
    BY <1>0, <2>1, <2>2, SameTurns
  <2>4. TypeOK' /\ Dealing'
    BY <1>0, <2>1, <2>2 DEF TurnInv, TypeOK, States, Dealing
  <2>5. f \notin Due /\ f \notin begun
    BY <1>3 DEF TurnInv, DueIsLive
  <2>6. \A g \in Fibers : g # f => cb'[g] = cb[g] /\ state'[g] = state[g]
    BY <1>0, <2>1
  <2>7. cb'[f] = NoJob /\ state'[f] = "INIT"
    BY <1>0, <2>1
  <2>8. begun \subseteq Fibers /\ Due \subseteq Fibers /\ cbFiber \in [Workers -> Fibers \cup {NoFiber}]
    BY DEF TurnInv, TypeOK, Due
  <2>9. DueIsLive'
    BY <2>1, <2>3, <2>5, <2>6, <2>8 DEF TurnInv, DueIsLive
  <2>10. CbFibers'
    <3>1. \A v \in Workers : cbFiber[v] # NoFiber => state'[cbFiber[v]] # "none"
      BY <2>6, <2>7, <2>8 DEF TurnInv, CbFibers
    <3>2. \A v \in Workers : cbFiber[v] # NoFiber /\ cbFiber[v] \in Due => on'[v] = cbFiber[v]
      BY <2>2, <2>5 DEF TurnInv, CbFibers
    <3>. QED BY <2>1, <2>3, <3>1, <3>2 DEF TurnInv, CbFibers
  <2>11. JobsOfFibers'
    BY <2>1, <2>3, <2>5, <2>6, <2>7, <2>8 DEF TurnInv, JobsOfFibers
  <2>12. JobCounts'
    <3>1. \A j \in Jobs : Holders(j)' \subseteq Holders(j)
      BY <2>6, <2>7, NullAssumption DEF Holders
    <3>2. \A g \in begun : cb'[g] = cb[g]
      BY <2>5, <2>6, <2>8
    <3>. QED BY <2>1, <3>1, <3>2 DEF TurnInv, JobCounts
  <2>. QED BY <2>3, <2>4, <2>9, <2>10, <2>11, <2>12 DEF TurnInv
<1>. QED BY <1>1, <1>2, <1>3

LEMMA SetHoldTurn ==
    ASSUME TurnInv, NEW w \in Workers, SetHold(w)
    PROVE  TurnInv'
<1>. DEFINE f == on[w]
<1>0. /\ pc[w] = "hold" /\ f \in Fibers /\ state \in [Fibers -> States \cup {"none"}]
      /\ cbFiber \in [Workers -> Fibers \cup {NoFiber}]
  BY DEF SetHold, TurnInv, Dealing, TypeOK
<1>1. CASE Fail("~Fiber: state")
  BY <1>1, FailTurn DEF Aborts
<1>2. CASE ~Fail("~Fiber: state")
  <2>1. /\ Referenced(f, w)
        /\ state' = [state EXCEPT ![f] = "HOLD"]
        /\ cbFiber' = [cbFiber EXCEPT ![w] = IF OnCbFiber(w) THEN NoFiber ELSE cbFiber[w]]
        /\ pc' = [pc EXCEPT ![w] = "scan"] /\ on' = [on EXCEPT ![w] = NoFiber]
        /\ UNCHANGED <<cb, saved, begun, armed, readyFibers, readyCbs, yields, runs, ends, abort>>
    BY <1>2 DEF SetHold, CbFiberLeft, queue, jobs
  <2>2. /\ pc' \in [Workers -> Pcs] /\ pc'[w] = "scan" /\ on'[w] = NoFiber
        /\ on' \in [Workers -> Fibers \cup {NoFiber}]
        /\ \A v \in Workers : v # w => pc'[v] = pc[v] /\ on'[v] = on[v]
    BY <2>1, PcStep, OnStep DEF Pcs
  <2>3. UNCHANGED Due /\ OneTurn'
    BY <1>0, <2>1, <2>2, SameTurns
  <2>4. TypeOK' /\ Dealing'
    BY <1>0, <2>1, <2>2 DEF TurnInv, TypeOK, States, Dealing
  <2>5. \A g \in Fibers : g # f => state'[g] = state[g]
    BY <1>0, <2>1
  <2>6. state'[f] = "HOLD"
    BY <1>0, <2>1
  <2>7. DueIsLive'
    BY <2>1, <2>3, <2>5, <2>6 DEF TurnInv, DueIsLive, Due
  <2>8. CbFibers'
    <3>1. \A v \in Workers : cbFiber'[v] # NoFiber =>
            cbFiber'[v] = cbFiber[v] /\ cbFiber[v] \in Fibers /\ (v = w => cbFiber[v] # f)
      BY <1>0, <2>1 DEF OnCbFiber
    <3>2. \A v \in Workers : cbFiber'[v] # NoFiber => state'[cbFiber'[v]] # "none"
      BY <2>5, <2>6, <3>1 DEF TurnInv, CbFibers
    <3>3. \A v \in Workers : cbFiber'[v] # NoFiber /\ cbFiber'[v] \in Due => on'[v] = cbFiber'[v]
      BY <2>2, <3>1 DEF TurnInv, CbFibers
    <3>4. \A v, u \in Workers : v # u /\ cbFiber'[v] = cbFiber'[u] => cbFiber'[v] = NoFiber
      BY <3>1 DEF TurnInv, CbFibers
    <3>. QED BY <2>3, <3>2, <3>3, <3>4 DEF CbFibers
  <2>9. state[f] # "none"
    BY <1>0 DEF TurnInv, Dealing
  <2>10. JobsOfFibers'
    BY <2>1, <2>3, <2>5, <2>6, <2>9 DEF TurnInv, JobsOfFibers, Due
  <2>11. JobCounts'
    <3>1. \A j \in Jobs : Holders(j)' = Holders(j)
      BY <1>0, <2>1, <2>5, <2>6, <2>9 DEF Holders
    <3>. QED BY <2>1, <3>1 DEF TurnInv, JobCounts
  <2>. QED BY <2>3, <2>4, <2>7, <2>8, <2>10, <2>11 DEF TurnInv
<1>. QED BY <1>1, <1>2

LEMMA StutterTurn ==
    ASSUME TurnInv, UNCHANGED vars
    PROVE  TurnInv'
<1>1. UNCHANGED <<state, cb, saved, begun, armed, readyFibers, readyCbs, cbFiber, pc, on, yields, runs, ends, abort>>
  BY DEF vars
<1>2. TypeOK'
  BY <1>1 DEF TurnInv, TypeOK
<1>3. Due' = Due
  BY <1>1 DEF Due, HasTurn
<1>4. Dealing' /\ OneTurn'
  BY <1>1 DEF TurnInv, Dealing, OneTurn, HasTurn
<1>5. DueIsLive' /\ CbFibers' /\ JobsOfFibers' /\ JobCounts'
  BY <1>1, <1>3 DEF TurnInv, DueIsLive, CbFibers, JobsOfFibers, JobCounts, Holders
<1>. QED BY <1>2, <1>4, <1>5 DEF TurnInv

LEMMA NextTurn == TurnInv /\ [Next]_vars => TurnInv'
<1>. SUFFICES ASSUME TurnInv, [Next]_vars PROVE TurnInv'
  OBVIOUS
<1>1. ASSUME NEW j \in Jobs, Schedule(j) PROVE TurnInv'
  BY <1>1, ScheduleTurn
<1>2. ASSUME NEW j \in Jobs, NEW f \in Fibers, ScheduleFiber(j, f) PROVE TurnInv'
  BY <1>2, ScheduleFiberTurn
<1>3. ASSUME NEW f \in Fibers, Fire(f) PROVE TurnInv'
  BY <1>3, FireTurn
<1>4. ASSUME NEW w \in Workers, WorkerStep(w) PROVE TurnInv'
  BY <1>4, TakeFiberTurn, TakeCbTurn, SwapInTurn, ArmTurn, YieldTurn, MainFuncEndTurn,
     SwapOutTurn, AfterSwapInTurn, SetHoldTurn DEF WorkerStep
<1>5. ASSUME NEW w \in Workers, Idle(w) PROVE TurnInv'
  BY <1>5, StutterTurn DEF Idle
<1>6. CASE UNCHANGED vars
  BY <1>6, StutterTurn
<1>. QED BY <1>1, <1>2, <1>3, <1>4, <1>5, <1>6 DEF Next

LEMMA AlwaysTurn == Spec => []TurnInv
  BY InitTurn, NextTurn, PTL DEF Spec

\* Scheduler::run() and the fibers it switches to keep to their types: in particular
\* nobody runs NoFiber, and m_state never holds READY.
THEOREM TypeCorrect == Spec => []TypeOK
<1>1. TurnInv => TypeOK
  BY DEF TurnInv
<1>. QED BY <1>1, AlwaysTurn, PTL

\* Scheduler::run() and MainFunc run no task twice and forget none half-way, for any
\* number of workers and whatever order the unsynchronised stores to m_state take
\* effect in: a body that has begun is the callback of one fiber, which a worker, the
\* list, a timer or an FdContext has.
THEOREM EveryJobHeld == Spec => []JobHeld
<1>1. TurnInv => JobHeld
  <2>. SUFFICES ASSUME TurnInv PROVE JobHeld
    OBVIOUS
  <2>1. \A f \in begun : f \in armed \cup readyFibers \/ \E w \in Workers : on[w] = f
    BY DEF TurnInv, DueIsLive, Due, HasTurn
  <2>2. ASSUME NEW j \in Jobs, runs[j] > ends[j] PROVE \E f \in begun : Holders(j) = {f}
    <3>1. runs[j] = 1 /\ ends[j] = 0
      BY <2>2 DEF TurnInv, TypeOK, JobCounts
    <3>2. PICK f \in begun : cb[f] = j
      BY <3>1 DEF TurnInv, JobCounts
    <3>3. f \in Due /\ f \in Fibers /\ state[f] # "none"
      BY DEF TurnInv, DueIsLive, Due
    <3>4. \A g \in Fibers : state[g] # "none" /\ cb[g] = j => g = f
      BY <3>1, <3>2, <3>3, NullAssumption DEF TurnInv, JobsOfFibers
    <3>. QED BY <3>2, <3>3, <3>4 DEF Holders
  <2>. QED BY <2>1, <2>2 DEF TurnInv, JobCounts, JobHeld
<1>. QED BY <1>1, AlwaysTurn, PTL

-----------------------------------------------------------------------------
(* As long as nobody yields                                                  *)

Quiet == \A j \in Jobs : yields[j] = 0

\* A worker has its fiber to itself; the fiber is INIT and its context saved until
\* it is swapped in, EXEC until its body ends, TERM or EXCEPT after that.
Calm ==
    /\ armed = {}
    /\ \A w \in Workers : pc[w] \notin {"wait", "hold"}
    /\ \A v, w \in Workers : v # w /\ on[v] = on[w] => on[v] = NoFiber
    /\ \A f \in Fibers : state[f] = "EXEC" <=> \E w \in Workers : on[w] = f /\ pc[w] = "body"
    /\ \A w \in Workers : pc[w] = "in" => state[on[w]] = "INIT" /\ saved[on[w]]
    /\ \A w \in Workers : pc[w] \in {"switch", "after"} => state[on[w]] \in {"TERM", "EXCEPT"}
    /\ \A f \in readyFibers : state[f] = "INIT" /\ saved[f] /\ \A w \in Workers : on[w] # f
    /\ \A w \in Workers : cbFiber[w] # NoFiber =>
         /\ \A v \in Workers : v # w => on[v] # cbFiber[w]
         /\ on[w] # cbFiber[w] => state[cbFiber[w]] = "INIT"

CalmInv == Quiet => Calm /\ abort \in {"no", "~Fiber: state"}

LEMMA InitCalm == Init => CalmInv
  BY DEF Init, CalmInv, Calm

\* What the invariants say of a worker that has a fiber.
LEMMA TypesOfTurn ==
    ASSUME TurnInv
    PROVE  /\ state \in [Fibers -> States \cup {"none"}] /\ saved \in [Fibers -> BOOLEAN]
           /\ pc \in [Workers -> Pcs] /\ on \in [Workers -> Fibers \cup {NoFiber}]
           /\ cbFiber \in [Workers -> Fibers \cup {NoFiber}] /\ readyFibers \subseteq Fibers
           /\ \A w \in Workers : IF pc[w] = "scan" THEN on[w] = NoFiber
                                 ELSE on[w] \in Fibers /\ on[w] # NoFiber /\ state[on[w]] # "none"
           /\ \A w \in Workers : cbFiber[w] # NoFiber => state[cbFiber[w]] # "none"
  BY NullAssumption DEF TurnInv, TypeOK, Dealing, CbFibers

LEMMA ScheduleFiberCalm ==
    ASSUME TurnInv, Calm, NEW j \in Jobs, NEW f \in Fibers, ScheduleFiber(j, f)
    PROVE  Calm'
<1>1. /\ state[f] = "none" /\ state' = [state EXCEPT ![f] = "INIT"] /\ saved' = [saved EXCEPT ![f] = TRUE]
      /\ readyFibers' = readyFibers \cup {f} /\ UNCHANGED <<armed, cbFiber, pc, on>>
  BY DEF ScheduleFiber
<1>2. \A w \in Workers : on[w] # f /\ cbFiber[w] # f
  BY <1>1, TypesOfTurn, NullAssumption
<1>. QED BY <1>1, <1>2, TypesOfTurn DEF Calm

LEMMA TakeFiberCalm ==
    ASSUME TurnInv, Calm, NEW w \in Workers, NEW f \in Fibers, TakeFiber(w, f)
    PROVE  Calm'
<1>1. /\ pc[w] = "scan" /\ f \in readyFibers /\ readyFibers' = readyFibers \ {f}
      /\ pc' = [pc EXCEPT ![w] = "in"] /\ on' = [on EXCEPT ![w] = f]
      /\ UNCHANGED <<armed, state, saved, cbFiber>>
  BY DEF TakeFiber
<1>2. /\ pc'[w] = "in" /\ on'[w] = f /\ on[w] = NoFiber
      /\ \A v \in Workers : v # w => pc'[v] = pc[v] /\ on'[v] = on[v]
  BY <1>1, TypesOfTurn
<1>3. \A v \in Workers : on[v] # f /\ cbFiber[v] # f
  BY <1>1, NullAssumption DEF Calm, TurnInv, CbFibers, Due
<1>. QED BY <1>1, <1>2, <1>3, TypesOfTurn DEF Calm

LEMMA TakeCbCalm ==
    ASSUME TurnInv, Calm, NEW w \in Workers, NEW j \in Jobs, NEW f \in Fibers, TakeCb(w, j, f)
    PROVE  Calm' /\ UNCHANGED abort
<1>1. /\ pc[w] = "scan" /\ on[w] = NoFiber
      /\ IF cbFiber[w] = NoFiber THEN state[f] = "none" ELSE f = cbFiber[w]
  BY TypesOfTurn DEF TakeCb
<1>2. state[f] \in {"none", "INIT"}
  BY <1>1 DEF Calm
<1>3. /\ state' = [state EXCEPT ![f] = "INIT"] /\ saved' = [saved EXCEPT ![f] = TRUE]
      /\ cbFiber' = [cbFiber EXCEPT ![w] = f] /\ pc' = [pc EXCEPT ![w] = "in"]
      /\ on' = [on EXCEPT ![w] = f] /\ UNCHANGED <<armed, readyFibers, abort>>
  BY <1>2 DEF TakeCb
<1>4. /\ pc'[w] = "in" /\ on'[w] = f /\ cbFiber'[w] = f
      /\ \A v \in Workers : v # w => pc'[v] = pc[v] /\ on'[v] = on[v] /\ cbFiber'[v] = cbFiber[v]
  BY <1>3, TypesOfTurn
<1>5. f \notin readyFibers /\ \A v \in Workers : on[v] # f /\ (v # w => cbFiber[v] # f)
  <2>1. CASE state[f] = "none"
    BY <2>1, TypesOfTurn, NullAssumption DEF Calm
  <2>2. CASE f = cbFiber[w] /\ f # NoFiber
    <3>1. f \notin Due
      BY <1>1, <2>2 DEF TurnInv, CbFibers
    <3>. QED BY <1>1, <2>2, <3>1 DEF Calm, TurnInv, CbFibers, Due
  <2>. QED BY <1>1, <2>1, <2>2
<1>. QED BY <1>1, <1>3, <1>4, <1>5, TypesOfTurn DEF Calm

LEMMA SwapInCalm ==
    ASSUME TurnInv, Calm, NEW w \in Workers, SwapIn(w)
    PROVE  Calm' /\ UNCHANGED abort
<1>1. PICK f \in Fibers : f = on[w]
  BY TypesOfTurn DEF SwapIn
<1>2. pc[w] = "in" /\ state[f] = "INIT" /\ saved[f]
  BY <1>1 DEF SwapIn, Calm
<1>3. /\ state' = [state EXCEPT ![f] = "EXEC"] /\ saved' = [saved EXCEPT ![f] = FALSE]
      /\ pc' = [pc EXCEPT ![w] = "body"] /\ UNCHANGED <<armed, readyFibers, cbFiber, on, abort>>
  BY <1>1, <1>2 DEF SwapIn, queue
<1>4. pc'[w] = "body" /\ \A v \in Workers : v # w => pc'[v] = pc[v]
  BY <1>3, TypesOfTurn
<1>5. f \notin readyFibers /\ \A v \in Workers : v # w => on[v] # f /\ cbFiber[v] # f
  BY <1>1, NullAssumption DEF Calm
<1>. QED BY <1>1, <1>2, <1>3, <1>4, <1>5, TypesOfTurn DEF Calm

LEMMA MainFuncEndCalm ==
    ASSUME TurnInv, Calm, NEW w \in Workers, NEW throws \in BOOLEAN, MainFuncEnd(w, throws)
    PROVE  Calm'
<1>1. PICK f \in Fibers : f = on[w]
  BY TypesOfTurn DEF MainFuncEnd
<1>2. PICK s \in {"TERM", "EXCEPT"} : s = EndState(throws)
  BY DEF EndState
<1>3. /\ pc[w] = "body" /\ state' = [state EXCEPT ![f] = s]
      /\ pc' = [pc EXCEPT ![w] = "switch"] /\ UNCHANGED <<armed, readyFibers, cbFiber, on, saved>>
  BY <1>1, <1>2 DEF MainFuncEnd, queue
<1>4. pc'[w] = "switch" /\ \A v \in Workers : v # w => pc'[v] = pc[v]
  BY <1>3, TypesOfTurn
<1>5. f \notin readyFibers /\ \A v \in Workers : v # w => on[v] # f /\ cbFiber[v] # f
  BY <1>1, NullAssumption DEF Calm
<1>. QED BY <1>1, <1>3, <1>4, <1>5, TypesOfTurn DEF Calm

LEMMA SwapOutCalm ==
    ASSUME TurnInv, Calm, NEW w \in Workers, SwapOut(w)
    PROVE  Calm'
<1>1. PICK f \in Fibers : f = on[w]
  BY TypesOfTurn DEF SwapOut
<1>2. /\ pc[w] = "switch" /\ saved' = [saved EXCEPT ![f] = TRUE]
      /\ pc' = [pc EXCEPT ![w] = "after"] /\ UNCHANGED <<armed, readyFibers, cbFiber, on, state>>
  BY <1>1 DEF SwapOut, queue
<1>3. pc'[w] = "after" /\ \A v \in Workers : v # w => pc'[v] = pc[v]
  BY <1>2, TypesOfTurn
<1>. QED BY <1>1, <1>2, <1>3, TypesOfTurn DEF Calm

LEMMA SameCalm ==
    ASSUME Calm, UNCHANGED <<state, saved, armed, readyFibers, cbFiber, pc, on>>
    PROVE  Calm'
  BY DEF Calm

LEMMA FailCalm ==
    ASSUME Calm, NEW name, Fail(name)
    PROVE  Calm' /\ abort' = name
  BY DEF Fail, Calm, queue

LEMMA AfterSwapInCalm ==
    ASSUME TurnInv, Calm, NEW w \in Workers, AfterSwapIn(w)
    PROVE  Calm' /\ abort' \in {abort, "~Fiber: state"}
<1>1. PICK f \in Fibers : f = on[w]
  BY TypesOfTurn DEF AfterSwapIn
<1>2. pc[w] = "after" /\ state[f] \in {"TERM", "EXCEPT"}
  BY <1>1 DEF AfterSwapIn, Calm
<1>3. f \notin readyFibers /\ \A v \in Workers : v # w => on[v] # f /\ cbFiber[v] # f
  BY <1>1, NullAssumption DEF Calm
<1>4. ASSUME NEW s \in {"TERM", "EXCEPT", "none", "INIT"}, state' = [state EXCEPT ![f] = s],
             cbFiber[w] = f => s = "INIT",
             pc' = [pc EXCEPT ![w] = "scan"], on' = [on EXCEPT ![w] = NoFiber],
             UNCHANGED <<saved, armed, readyFibers, cbFiber>>
      PROVE  Calm'
  <2>1. /\ pc'[w] = "scan" /\ on'[w] = NoFiber
        /\ \A v \in Workers : v # w => pc'[v] = pc[v] /\ on'[v] = on[v]
    BY <1>4, TypesOfTurn
  <2>2. state'[f] = s /\ \A g \in Fibers : g # f => state'[g] = state[g]
    BY <1>4, TypesOfTurn
  <2>3. \A g \in Fibers : state'[g] = "EXEC" <=> \E v \in Workers : on'[v] = g /\ pc'[v] = "body"
    BY <1>1, <1>2, <1>3, <2>1, <2>2, NullAssumption DEF Calm
  <2>4. \A v \in Workers : pc'[v] # "scan" => v # w /\ state'[on[v]] = state[on[v]]
    BY <1>3, <2>1, <2>2, TypesOfTurn
  <2>5. \A v \in Workers : cbFiber[v] # NoFiber =>
          /\ \A u \in Workers : u # v => on'[u] # cbFiber[v]
          /\ on'[v] # cbFiber[v] => state'[cbFiber[v]] = "INIT"
    BY <1>1, <1>3, <1>4, <2>1, <2>2, TypesOfTurn DEF Calm
  <2>6. \A v \in Workers : /\ pc'[v] \notin {"wait", "hold"}
                           /\ pc'[v] = "in" => state'[on'[v]] = "INIT" /\ saved[on'[v]]
                           /\ pc'[v] \in {"switch", "after"} => state'[on'[v]] \in {"TERM", "EXCEPT"}
    <3>1. /\ \A v \in Workers : pc[v] \notin {"wait", "hold"}
          /\ \A v \in Workers : pc[v] = "in" => state[on[v]] = "INIT" /\ saved[on[v]]
          /\ \A v \in Workers : pc[v] \in {"switch", "after"} => state[on[v]] \in {"TERM", "EXCEPT"}
      BY DEF Calm
    <3>. QED BY <2>1, <2>4, <3>1
  <2>7. \A u, v \in Workers : u # v /\ on'[u] = on'[v] => on'[u] = NoFiber
    BY <2>1 DEF Calm
  <2>8. \A g \in readyFibers : state'[g] = "INIT" /\ saved[g] /\ \A v \in Workers : on'[v] # g
    <3>1. \A g \in readyFibers : state[g] = "INIT" /\ saved[g] /\ \A v \in Workers : on[v] # g
      BY DEF Calm
    <3>. QED BY <1>3, <2>1, <2>2, <3>1, TypesOfTurn, NullAssumption
  <2>. QED BY <1>4, <2>3, <2>5, <2>6, <2>7, <2>8 DEF Calm
<1>5. CASE OnCbFiber(w)
  BY <1>1, <1>2, <1>4, <1>5 DEF AfterSwapIn, queue
<1>6. CASE ~OnCbFiber(w)
  <2>1. Forget(w, state[f])
    BY <1>1, <1>2, <1>6 DEF AfterSwapIn
  <2>2. CASE Fail("~Fiber: state")
    BY <2>2, FailCalm
  <2>3. CASE ~Fail("~Fiber: state")
    <3>1. PICK s \in {"TERM", "EXCEPT", "none"} : s = IF Referenced(f, w) THEN state[f] ELSE "none"
      BY <1>2
    <3>2. /\ state' = [state EXCEPT ![f] = s]
          /\ pc' = [pc EXCEPT ![w] = "scan"] /\ on' = [on EXCEPT ![w] = NoFiber]
          /\ UNCHANGED <<saved, armed, readyFibers, cbFiber, abort>>
      BY <1>1, <2>1, <2>3, <3>1 DEF Forget, queue
    <3>3. cbFiber[w] # f
      BY <1>1, <1>6 DEF OnCbFiber
    <3>. QED BY <1>4, <3>2, <3>3
  <2>. QED BY <2>2, <2>3
<1>. QED BY <1>5, <1>6

LEMMA NextCalm == TurnInv /\ CalmInv /\ [Next]_vars => CalmInv'
<1>. SUFFICES ASSUME TurnInv, CalmInv, [Next]_vars, Quiet'
              PROVE  Calm' /\ abort' \in {"no", "~Fiber: state"}
  BY DEF CalmInv
<1>0. CASE UNCHANGED vars
  <2>1. UNCHANGED <<state, saved, armed, readyFibers, cbFiber, pc, on, yields, abort>>
    BY <1>0 DEF vars
  <2>2. Quiet
    BY <2>1 DEF Quiet
  <2>3. Calm /\ abort \in {"no", "~Fiber: state"}
    BY <2>2 DEF CalmInv
  <2>4. Calm'
    BY <2>1, <2>3, SameCalm
  <2>. QED BY <2>1, <2>3, <2>4
<1>. SUFFICES ASSUME Next PROVE Calm' /\ abort' \in {"no", "~Fiber: state"}
  BY <1>0
<1>1. abort = "no"
  BY DEF Next
<1>2. ASSUME NEW w \in Workers, NEW event \in BOOLEAN, Arm(w, event)
      PROVE  Quiet /\ (Fail("addEvent: not EXEC") /\ event /\ state[on[w]] # "EXEC")
  <2>1. on[w] \in Fibers /\ cb[on[w]] \in Jobs /\ yields \in [Jobs -> 0..MaxYields]
    BY <1>2 DEF Arm, TurnInv, Dealing, Due, HasTurn, JobsOfFibers, TypeOK
  <2>2. CASE event /\ state[on[w]] # "EXEC"
    BY <1>2, <2>2 DEF Arm, Fail, jobs, Quiet
  <2>3. CASE ~(event /\ state[on[w]] # "EXEC")
    <3>1. PICK j \in Jobs : j = cb[on[w]]
      BY <2>1
    <3>2. yields' = [yields EXCEPT ![j] = yields[j] + 1]
      BY <1>2, <2>3, <3>1 DEF Arm
    <3>3. yields[j] \in Nat
      BY <2>1, BoundAssumption
    <3>4. yields'[j] = 0
      BY DEF Quiet
    <3>5. yields'[j] = yields[j] + 1
      BY <2>1, <3>2
    <3>6. FALSE
      BY <3>3, <3>4, <3>5
    <3>. QED BY <3>6
  <2>. QED BY <2>2, <2>3
<1>3. Quiet
  <2>1. (\E w \in Workers, event \in BOOLEAN : Arm(w, event)) \/ UNCHANGED yields
    BY DEF Next, Schedule, ScheduleFiber, Fire, WorkerStep, TakeFiber, TakeCb, SwapIn, yieldToHold,
           MainFuncEnd, SwapOut, AfterSwapIn, SetHold, Idle, Forget, Fail, jobs, vars
  <2>. QED BY <1>2, <2>1 DEF Quiet
<1>4. Calm
  BY <1>3 DEF CalmInv
<1>5. ASSUME NEW j \in Jobs, Schedule(j) PROVE Calm' /\ abort' = abort
  BY <1>4, <1>5 DEF Schedule, Calm
<1>6. ASSUME NEW j \in Jobs, NEW f \in Fibers, ScheduleFiber(j, f) PROVE Calm' /\ abort' = abort
  BY <1>4, <1>6, ScheduleFiberCalm DEF ScheduleFiber
<1>7. ASSUME NEW f \in Fibers, Fire(f) PROVE FALSE
  BY <1>4, <1>7 DEF Fire, Calm
<1>8. ASSUME NEW w \in Workers, WorkerStep(w) PROVE Calm' /\ abort' \in {abort, "~Fiber: state"}
  <2>1. ASSUME NEW f \in Fibers, TakeFiber(w, f) PROVE Calm' /\ abort' = abort
    BY <1>4, <2>1, TakeFiberCalm DEF TakeFiber
  <2>2. ASSUME NEW j \in Jobs, NEW f \in Fibers, TakeCb(w, j, f) PROVE Calm' /\ abort' = abort
    BY <1>4, <2>2, TakeCbCalm
  <2>3. CASE SwapIn(w)
    BY <1>4, <2>3, SwapInCalm
  <2>4. ASSUME NEW event \in BOOLEAN, Arm(w, event) PROVE FALSE
    <3>1. pc[w] = "body" /\ on[w] \in Fibers
      BY <2>4, TypesOfTurn DEF Arm
    <3>2. state[on[w]] = "EXEC"
      BY <1>4, <3>1 DEF Calm
    <3>. QED BY <1>2, <2>4, <3>2
  <2>5. ASSUME NEW throws \in BOOLEAN, MainFuncEnd(w, throws) PROVE Calm' /\ abort' = abort
    BY <1>4, <2>5, MainFuncEndCalm DEF MainFuncEnd
  <2>6. CASE SwapOut(w)
    BY <1>4, <2>6, SwapOutCalm DEF SwapOut
  <2>7. CASE AfterSwapIn(w)
    BY <1>4, <2>7, AfterSwapInCalm
  <2>8. ~yieldToHold(w) /\ ~SetHold(w)
    BY <1>4 DEF Calm, yieldToHold, SetHold
  <2>. QED BY <1>8, <2>1, <2>2, <2>3, <2>4, <2>5, <2>6, <2>7, <2>8 DEF WorkerStep
<1>9. ASSUME NEW w \in Workers, Idle(w) PROVE Calm' /\ abort' = abort
  BY <1>4, <1>9 DEF Idle, vars, Calm
<1>. QED BY <1>1, <1>5, <1>6, <1>7, <1>8, <1>9 DEF Next

\* Several workers need no lock around m_state while bodies run to their end: swapIn,
\* reset and addEvent find the state they Assert, and run()'s scan, which leaves an
\* EXEC fiber in the list, is told the truth.
THEOREM RacesNeedYields == Spec => []RaceNeedsYield
<1>1. CalmInv => RaceNeedsYield
  <2>. SUFFICES ASSUME Calm, abort \in {"no", "~Fiber: state"} PROVE abort \in {"no", "~Fiber: state"} /\ ExecIsRunning
    BY DEF CalmInv, Quiet, RaceNeedsYield
  <2>1. \A w \in Workers : pc[w] # "wait"
    BY DEF Calm
  <2>2. \A f \in Fibers :
          state[f] = "EXEC" <=> \E w \in Workers : on[w] = f /\ pc[w] \in {"body", "wait"}
    <3>1. \A f \in Fibers : state[f] = "EXEC" <=> \E w \in Workers : on[w] = f /\ pc[w] = "body"
      BY DEF Calm
    <3>2. \A w \in Workers : pc[w] \in {"body", "wait"} <=> pc[w] = "body"
      BY <2>1
    <3>. QED BY <3>1, <3>2
  <2>3. \A v, w \in Workers : v # w /\ on[v] = on[w] => on[v] = NoFiber
    BY DEF Calm
  <2>. QED BY <2>2, <2>3 DEF ExecIsRunning
<1>. QED BY <1>1, AlwaysTurn, InitCalm, NextCalm, PTL DEF Spec

-----------------------------------------------------------------------------
(* One worker, which also runs the callbacks of timers and events            *)

\* Between its steps a lone worker finds every fiber as yieldToHold, MainFunc or
\* run() left it: the context saved, the state HOLD only of a body that has begun,
\* and EXCEPT only of its cb_fiber, which run() resets.
Alone ==
    /\ \A f \in Fibers : state[f] = "EXEC" <=> \E w \in Workers : on[w] = f /\ pc[w] \in {"body", "wait"}
    /\ \A f \in Fibers : saved[f] \/ \E w \in Workers : on[w] = f /\ pc[w] \in {"body", "wait", "switch"}
    /\ \A w \in Workers : pc[w] = "wait" => on[w] \in begun
    /\ \A w \in Workers : pc[w] \in {"switch", "after"} =>
         \/ state[on[w]] = "HOLD" /\ on[w] \in begun
         \/ state[on[w]] = "TERM"
         \/ state[on[w]] = "EXCEPT" /\ OnCbFiber(w)
    /\ \A w \in Workers : pc[w] = "hold" => state[on[w]] = "HOLD" /\ on[w] \in begun
    /\ \A w \in Workers : cbFiber[w] # NoFiber /\ on[w] # cbFiber[w] => state[cbFiber[w]] = "INIT"

AloneInv == Alone /\ abort = "no"

OneWorker == \A v, w \in Workers : v = w

LEMMA InitAlone == Init => AloneInv
  BY DEF Init, AloneInv, Alone

LEMMA ScheduleAlone ==
    ASSUME TurnInv, AloneInv,
           \/ \E j \in Jobs : Schedule(j)
           \/ \E f \in Fibers : Fire(f)
           \/ \E w \in Workers : Idle(w)
           \/ UNCHANGED vars
    PROVE  AloneInv'
<1>1. UNCHANGED <<state, saved, begun, cbFiber, pc, on, abort>>
  BY DEF Schedule, Fire, Idle, vars
<1>. QED BY <1>1 DEF AloneInv, Alone, OnCbFiber

LEMMA ScheduleFiberAlone ==
    ASSUME TurnInv, AloneInv, NEW j \in Jobs, NEW f \in Fibers, ScheduleFiber(j, f)
    PROVE  AloneInv'
<1>1. /\ state[f] = "none" /\ state' = [state EXCEPT ![f] = "INIT"] /\ saved' = [saved EXCEPT ![f] = TRUE]
      /\ UNCHANGED <<begun, cbFiber, pc, on, abort>>
  BY DEF ScheduleFiber
<1>2. \A w \in Workers : on[w] # f /\ cbFiber[w] # f
  BY <1>1, TypesOfTurn, NullAssumption
<1>. QED BY <1>1, <1>2, TypesOfTurn DEF AloneInv, Alone, OnCbFiber

LEMMA TakeFiberAlone ==
    ASSUME TurnInv, AloneInv, OneWorker, NEW w \in Workers, NEW f \in Fibers, TakeFiber(w, f)
    PROVE  AloneInv'
<1>1. /\ pc[w] = "scan" /\ state[f] # "EXEC"
      /\ pc' = [pc EXCEPT ![w] = "in"] /\ on' = [on EXCEPT ![w] = f]
      /\ UNCHANGED <<begun, state, saved, cbFiber, abort>>
  BY DEF TakeFiber
<1>2. pc'[w] = "in" /\ on'[w] = f /\ on[w] = NoFiber /\ \A v \in Workers : v = w
  BY <1>1, TypesOfTurn DEF OneWorker
<1>. QED BY <1>1, <1>2, TypesOfTurn DEF AloneInv, Alone, OnCbFiber

LEMMA TakeCbAlone ==
    ASSUME TurnInv, AloneInv, OneWorker, NEW w \in Workers, NEW j \in Jobs, NEW f \in Fibers, TakeCb(w, j, f)
    PROVE  AloneInv'
<1>1. /\ pc[w] = "scan" /\ on[w] = NoFiber /\ \A v \in Workers : v = w
      /\ IF cbFiber[w] = NoFiber THEN state[f] = "none" ELSE f = cbFiber[w]
  BY TypesOfTurn DEF TakeCb, OneWorker
<1>2. state[f] \in {"none", "INIT"}
  BY <1>1 DEF AloneInv, Alone
<1>3. /\ state' = [state EXCEPT ![f] = "INIT"] /\ saved' = [saved EXCEPT ![f] = TRUE]
      /\ cbFiber' = [cbFiber EXCEPT ![w] = f] /\ pc' = [pc EXCEPT ![w] = "in"]
      /\ on' = [on EXCEPT ![w] = f] /\ UNCHANGED <<begun, abort>>
  BY <1>2 DEF TakeCb
<1>4. pc'[w] = "in" /\ on'[w] = f /\ cbFiber'[w] = f
  BY <1>3, TypesOfTurn
<1>. QED BY <1>1, <1>2, <1>3, <1>4, TypesOfTurn DEF AloneInv, Alone, OnCbFiber

LEMMA SwapInAlone ==
    ASSUME TurnInv, AloneInv, OneWorker, NEW w \in Workers, SwapIn(w)
    PROVE  AloneInv'
<1>1. PICK f \in Fibers : f = on[w]
  BY TypesOfTurn DEF SwapIn
<1>2. pc[w] = "in" /\ \A v \in Workers : v = w
  BY DEF SwapIn, OneWorker
<1>3. state[f] \notin {"TERM", "EXCEPT"}
  BY <1>1, <1>2 DEF TurnInv, DueIsLive, Due, HasTurn
<1>4. state[f] # "EXEC" /\ saved[f]
  BY <1>1, <1>2 DEF AloneInv, Alone
<1>5. /\ state' = [state EXCEPT ![f] = "EXEC"] /\ saved' = [saved EXCEPT ![f] = FALSE]
      /\ begun' = begun \cup {f}
      /\ pc' = [pc EXCEPT ![w] = "body"] /\ UNCHANGED <<cbFiber, on, abort>>
  BY <1>1, <1>3, <1>4 DEF SwapIn, queue
<1>6. pc'[w] = "body"
  BY <1>5, TypesOfTurn
<1>. QED BY <1>1, <1>2, <1>4, <1>5, <1>6, TypesOfTurn DEF AloneInv, Alone, OnCbFiber

LEMMA ArmAlone ==
    ASSUME TurnInv, AloneInv, OneWorker, NEW w \in Workers, NEW event \in BOOLEAN, Arm(w, event)
    PROVE  AloneInv'
<1>1. pc[w] = "body" /\ on[w] \in Fibers /\ on[w] \in begun /\ \A v \in Workers : v = w
  BY DEF Arm, OneWorker, TurnInv, Dealing
<1>2. state[on[w]] = "EXEC"
  BY <1>1 DEF AloneInv, Alone
<1>3. pc' = [pc EXCEPT ![w] = "wait"] /\ UNCHANGED <<state, saved, begun, cbFiber, on, abort>>
  BY <1>2 DEF Arm
<1>4. pc'[w] = "wait"
  BY <1>3, TypesOfTurn
<1>. QED BY <1>1, <1>3, <1>4, TypesOfTurn DEF AloneInv, Alone, OnCbFiber

LEMMA YieldAlone ==
    ASSUME TurnInv, AloneInv, OneWorker, NEW w \in Workers, yieldToHold(w)
    PROVE  AloneInv'
<1>1. PICK f \in Fibers : f = on[w]
  BY TypesOfTurn DEF yieldToHold
<1>2. pc[w] = "wait" /\ f \in begun /\ \A v \in Workers : v = w
  BY <1>1 DEF yieldToHold, OneWorker, AloneInv, Alone
<1>3. state[f] = "EXEC"
  BY <1>1, <1>2 DEF AloneInv, Alone
<1>4. /\ state' = [state EXCEPT ![f] = "HOLD"] /\ pc' = [pc EXCEPT ![w] = "switch"]
      /\ UNCHANGED <<saved, begun, cbFiber, on, abort>>
  BY <1>1, <1>3 DEF yieldToHold, Hold
<1>5. pc'[w] = "switch"
  BY <1>4, TypesOfTurn
<1>. QED BY <1>1, <1>2, <1>4, <1>5, TypesOfTurn DEF AloneInv, Alone, OnCbFiber

LEMMA MainFuncEndAlone ==
    ASSUME TurnInv, AloneInv, OneWorker, ~LateThrows,
           NEW w \in Workers, NEW throws \in BOOLEAN, MainFuncEnd(w, throws)
    PROVE  AloneInv'
<1>1. PICK f \in Fibers : f = on[w]
  BY TypesOfTurn DEF MainFuncEnd
<1>2. PICK s \in {"TERM", "EXCEPT"} : s = EndState(throws)
  BY DEF EndState
<1>3. s = "EXCEPT" => cbFiber[w] = f
  BY <1>1, <1>2 DEF MainFuncEnd, EndState, OnCbFiber
<1>4. /\ pc[w] = "body" /\ state' = [state EXCEPT ![f] = s] /\ begun' = begun \ {f}
      /\ pc' = [pc EXCEPT ![w] = "switch"] /\ UNCHANGED <<saved, cbFiber, on, abort>>
  BY <1>1, <1>2 DEF MainFuncEnd
<1>5. pc'[w] = "switch" /\ \A v \in Workers : v = w
  BY <1>4, TypesOfTurn DEF OneWorker
<1>. QED BY <1>1, <1>3, <1>4, <1>5, TypesOfTurn DEF AloneInv, Alone, OnCbFiber

LEMMA SwapOutAlone ==
    ASSUME TurnInv, AloneInv, OneWorker, NEW w \in Workers, SwapOut(w)
    PROVE  AloneInv'
<1>1. PICK f \in Fibers : f = on[w]
  BY TypesOfTurn DEF SwapOut
<1>2. /\ pc[w] = "switch" /\ saved' = [saved EXCEPT ![f] = TRUE]
      /\ pc' = [pc EXCEPT ![w] = "after"] /\ UNCHANGED <<state, begun, cbFiber, on, abort>>
  BY <1>1 DEF SwapOut
<1>3. pc'[w] = "after" /\ \A v \in Workers : v = w
  BY <1>2, TypesOfTurn DEF OneWorker
<1>. QED BY <1>1, <1>2, <1>3, TypesOfTurn DEF AloneInv, Alone, OnCbFiber

LEMMA AfterSwapInAlone ==
    ASSUME TurnInv, AloneInv, OneWorker, NEW w \in Workers, AfterSwapIn(w)
    PROVE  AloneInv'
<1>1. PICK f \in Fibers : f = on[w]
  BY TypesOfTurn DEF AfterSwapIn
<1>2. pc[w] = "after" /\ \A v \in Workers : v = w
  BY DEF AfterSwapIn, OneWorker
<1>3. CASE state[f] \notin {"TERM", "EXCEPT"}
  <2>1. state[f] = "HOLD" /\ f \in begun
    BY <1>1, <1>2, <1>3 DEF AloneInv, Alone
  <2>2. pc' = [pc EXCEPT ![w] = "hold"] /\ UNCHANGED <<state, saved, begun, cbFiber, on, abort>>
    BY <1>1, <1>3 DEF AfterSwapIn
  <2>3. pc'[w] = "hold"
    BY <2>2, TypesOfTurn
  <2>. QED BY <1>1, <1>2, <2>1, <2>2, <2>3, TypesOfTurn DEF AloneInv, Alone, OnCbFiber
<1>4. ASSUME NEW s \in {"TERM", "none", "INIT"}, state' = [state EXCEPT ![f] = s],
             cbFiber[w] = f => s = "INIT", state[f] \in {"TERM", "EXCEPT"},
             pc' = [pc EXCEPT ![w] = "scan"], on' = [on EXCEPT ![w] = NoFiber],
             UNCHANGED <<saved, begun, cbFiber, abort>>
      PROVE  AloneInv'
  <2>1. pc'[w] = "scan" /\ on'[w] = NoFiber
    BY <1>4, TypesOfTurn
  <2>2. state'[f] = s /\ \A g \in Fibers : g # f => state'[g] = state[g]
    BY <1>4, TypesOfTurn
  <2>3. \A g \in Fibers : state'[g] # "EXEC"
    BY <1>1, <1>2, <2>2 DEF AloneInv, Alone
  <2>4. \A g \in Fibers : saved[g]
    BY <1>2 DEF AloneInv, Alone
  <2>5. cbFiber[w] # NoFiber => state'[cbFiber[w]] = "INIT"
    BY <1>1, <1>4, <2>2, TypesOfTurn DEF AloneInv, Alone
  <2>. QED BY <1>2, <1>4, <2>1, <2>3, <2>4, <2>5, NullAssumption DEF AloneInv, Alone, OnCbFiber
<1>5. CASE state[f] \in {"TERM", "EXCEPT"} /\ OnCbFiber(w)
  BY <1>1, <1>4, <1>5 DEF AfterSwapIn
<1>6. CASE state[f] \in {"TERM", "EXCEPT"} /\ ~OnCbFiber(w)
  <2>1. state[f] = "TERM" /\ Forget(w, "TERM") /\ cbFiber[w] # f
    BY <1>1, <1>2, <1>6 DEF AfterSwapIn, AloneInv, Alone, OnCbFiber
  <2>2. PICK s \in {"TERM", "none"} : s = IF Referenced(f, w) THEN "TERM" ELSE "none"
    OBVIOUS
  <2>3. /\ state' = [state EXCEPT ![f] = s]
        /\ pc' = [pc EXCEPT ![w] = "scan"] /\ on' = [on EXCEPT ![w] = NoFiber]
        /\ UNCHANGED <<saved, begun, cbFiber, abort>>
    BY <1>1, <2>1, <2>2 DEF Forget
  <2>. QED BY <1>4, <2>1, <2>3
<1>. QED BY <1>3, <1>5, <1>6

LEMMA SetHoldAlone ==
    ASSUME TurnInv, AloneInv, OneWorker, NEW w \in Workers, SetHold(w)
    PROVE  AloneInv'
<1>1. PICK f \in Fibers : f = on[w]
  BY TypesOfTurn DEF SetHold
<1>2. pc[w] = "hold" /\ f \in begun /\ \A v \in Workers : v = w
  BY <1>1 DEF SetHold, OneWorker, AloneInv, Alone
<1>3. /\ state' = [state EXCEPT ![f] = "HOLD"]
      /\ cbFiber' = [cbFiber EXCEPT ![w] = IF OnCbFiber(w) THEN NoFiber ELSE cbFiber[w]]
      /\ pc' = [pc EXCEPT ![w] = "scan"] /\ on' = [on EXCEPT ![w] = NoFiber]
      /\ UNCHANGED <<saved, begun, abort>>
  BY <1>1, <1>2 DEF SetHold, CbFiberLeft, Referenced
<1>4. pc'[w] = "scan" /\ on'[w] = NoFiber
  BY <1>3, TypesOfTurn
<1>5. cbFiber'[w] # NoFiber => cbFiber'[w] = cbFiber[w] /\ cbFiber[w] # f /\ cbFiber[w] \in Fibers
  BY <1>1, <1>3, TypesOfTurn DEF OnCbFiber
<1>6. state'[f] = "HOLD" /\ \A g \in Fibers : g # f => state'[g] = state[g]
  BY <1>3, TypesOfTurn
<1>7. \A g \in Fibers : state'[g] # "EXEC"
  BY <1>1, <1>2, <1>6 DEF AloneInv, Alone
<1>8. \A g \in Fibers : saved[g]
  BY <1>2 DEF AloneInv, Alone
<1>9. cbFiber'[w] # NoFiber => state'[cbFiber'[w]] = "INIT"
  BY <1>1, <1>5, <1>6 DEF AloneInv, Alone
<1>. QED BY <1>2, <1>3, <1>4, <1>7, <1>8, <1>9, NullAssumption DEF AloneInv, Alone, OnCbFiber

LEMMA NextAlone ==
    ASSUME OneWorker, ~LateThrows
    PROVE  TurnInv /\ AloneInv /\ [Next]_vars => AloneInv'
<1>. SUFFICES ASSUME TurnInv, AloneInv, [Next]_vars PROVE AloneInv'
  OBVIOUS
<1>1. ASSUME NEW j \in Jobs, NEW f \in Fibers, ScheduleFiber(j, f) PROVE AloneInv'
  BY <1>1, ScheduleFiberAlone
<1>2. ASSUME NEW w \in Workers, WorkerStep(w) PROVE AloneInv'
  BY <1>2, TakeFiberAlone, TakeCbAlone, SwapInAlone, ArmAlone, YieldAlone, MainFuncEndAlone,
     SwapOutAlone, AfterSwapInAlone, SetHoldAlone DEF WorkerStep
<1>. QED BY <1>1, <1>2, ScheduleAlone DEF Next

\* With one worker no Assert of fiber.cpp fails and swapcontext never enters a stack in
\* use, as long as no body throws on a fiber that run() will not reset.
THEOREM AssertsOfOneWorker ==
    ASSUME OneWorker, ~LateThrows
    PROVE  Spec => []AssertsHold
<1>1. AloneInv => AssertsHold
  BY DEF AloneInv, AssertsHold
<1>. QED BY <1>1, AlwaysTurn, InitAlone, NextAlone, PTL DEF Spec

\* With one worker m_state tells run()'s scan the truth, however often bodies yield
\* and whenever their wake-ups come.
THEOREM StateOfOneWorker ==
    ASSUME OneWorker, ~LateThrows
    PROVE  Spec => []ExecIsRunning
<1>1. AloneInv => ExecIsRunning
  BY DEF AloneInv, Alone, ExecIsRunning, OneWorker
<1>. QED BY <1>1, AlwaysTurn, InitAlone, NextAlone, PTL DEF Spec
=============================================================================
