---------------------------- MODULE Timer_proofs ----------------------------
(***************************************************************************)
(* TimerManager for any number of timers, callers and pollers, any delays  *)
(* and any length of run.                                                  *)
(***************************************************************************)
EXTENDS Timer, FiniteSetTheorems, TLAPS

-----------------------------------------------------------------------------
(* Numbers                                                                   *)

LEMMA MinOfNats ==
    ASSUME NEW S, S \subseteq Nat, S # {}
    PROVE  Min(S) \in S /\ \A n \in S : Min(S) <= n
<1>1. PICK x \in S : \A y \in S : ~(<<y, x>> \in OpToRel(<, Nat))
  BY NatLessThanWellFounded, WFMin
<1>2. \A y \in S : x <= y
  <2>. SUFFICES ASSUME NEW y \in S, ~(x <= y) PROVE FALSE
    OBVIOUS
  <2>1. x \in Nat /\ y \in Nat /\ y < x
    OBVIOUS
  <2>2. <<y, x>> \in {ss \in Nat \X Nat : ss[1] < ss[2]}
    BY <2>1
  <2>. QED BY <1>1, <2>2 DEF OpToRel
<1>. QED BY <1>2 DEF Min

LEMMA MaxOfFinite ==
    ASSUME NEW S, S \subseteq Nat, S # {}, IsFiniteSet(S)
    PROVE  Max(S) \in S /\ \A n \in S : n <= Max(S)
<1>. DEFINE HasMax(T) == \E m \in T : \A n \in T : n <= m
            Bad == {k \in Nat : \E T \in SUBSET S : T # {} /\ Cardinality(T) = k /\ ~HasMax(T)}
<1>1. Bad = {}
  <2>. SUFFICES ASSUME Bad # {} PROVE FALSE
    OBVIOUS
  <2>1. Min(Bad) \in Bad /\ \A k \in Bad : Min(Bad) <= k
    BY MinOfNats
  <2>2. PICK T \in SUBSET S : T # {} /\ Cardinality(T) = Min(Bad) /\ ~HasMax(T)
    BY <2>1
  <2>3. PICK x \in T : TRUE
    BY <2>2
  <2>4. IsFiniteSet(T) /\ x \in Nat
    BY FS_Subset
  <2>5. Cardinality(T \ {x}) = Cardinality(T) - 1 /\ IsFiniteSet(T \ {x})
    BY <2>4, FS_RemoveElement
  <2>6. Cardinality(T \ {x}) \in Nat
    BY <2>5, FS_CardinalityType
  <2>7. T \ {x} # {}
    <3>. SUFFICES ASSUME T \ {x} = {} PROVE HasMax(T)
      BY <2>2
    <3>1. T = {x}
      OBVIOUS
    <3>. QED BY <2>4, <3>1
  <2>8. HasMax(T \ {x})
    <3>. SUFFICES ASSUME ~HasMax(T \ {x}) PROVE FALSE
      OBVIOUS
    <3>1. Cardinality(T \ {x}) \in Bad
      BY <2>6, <2>7
    <3>2. Min(Bad) <= Cardinality(T \ {x})
      BY <2>1, <3>1
    <3>3. Min(Bad) \in Nat /\ Cardinality(T \ {x}) = Min(Bad) - 1
      BY <2>1, <2>2, <2>5
    <3>. HIDE DEF Bad
    <3>. QED BY <3>2, <3>3
  <2>9. PICK m \in T \ {x} : \A n \in T \ {x} : n <= m
    BY <2>8
  <2>10. HasMax(T)
    <3>1. CASE x <= m
      <4>1. \A n \in T : n <= m
        BY <2>9, <3>1
      <4>. QED BY <4>1
    <3>2. CASE ~(x <= m)
      <4>1. m \in Nat /\ \A n \in T : n \in Nat
        OBVIOUS
      <4>2. \A n \in T : n <= x
        BY <2>4, <2>9, <3>2, <4>1
      <4>. QED BY <4>2
    <3>. QED BY <3>1, <3>2
  <2>. QED BY <2>2, <2>10
<1>2. HasMax(S)
  <2>1. Cardinality(S) \in Nat
    BY FS_CardinalityType
  <2>. QED BY <1>1, <2>1
<1>3. PICK m \in S : \A n \in S : m >= n
  BY <1>2
<1>. QED BY <1>3 DEF Max

\* Every instant that addTimer, reset or idle() computes is one of the model's.
LEMMA InstantsReach ==
    /\ Instants \subseteq Nat /\ 0 \in Instants
    /\ \A n \in 0 .. Horizon, d \in Delays \cup ResetDelays \cup {0} : n + d \in Instants
    /\ \A n \in 0 .. Horizon, d \in 0 .. MaxTimeout : n + d \in Instants
<1>. DEFINE S == Delays \cup ResetDelays \cup {MaxTimeout}
<1>1. S \subseteq Nat /\ S # {}
  BY DelaysAssumption
<1>2. IsFiniteSet(S)
  BY DelaysAssumption, FS_AddElement
<1>3. PICK D \in Nat : D = Max(S) /\ \A d \in S : d <= D
  <2>1. Max(S) \in S /\ \A n \in S : n <= Max(S)
    <3>. HIDE DEF S
    <3>. QED BY <1>1, <1>2, MaxOfFinite
  <2>. QED BY <1>1, <2>1
<1>4. Instants = 0 .. (Horizon + D)
  BY <1>3 DEF Instants
<1>5. Instants \subseteq Nat /\ 0 \in Instants
  BY <1>3, <1>4, DelaysAssumption
<1>6. \A n \in 0 .. Horizon, d \in 0 .. D : n + d \in Instants
  BY <1>3, <1>4, DelaysAssumption
<1>7. \A d \in Delays \cup ResetDelays \cup {0} : d \in 0 .. D
  BY <1>1, <1>3
<1>8. \A d \in 0 .. MaxTimeout : d \in 0 .. D
  <2>1. MaxTimeout <= D
    BY <1>3
  <2>. QED BY <1>3, <2>1, DelaysAssumption
<1>. QED BY <1>5, <1>6, <1>7, <1>8

-----------------------------------------------------------------------------
(* The inductive invariant                                                   *)

\* A timer in the set has its callback; one being inserted is its inserter's alone;
\* refresh() is called on a timer that addTimer has returned, and if it fails nothing
\* happens any more.
Stages ==
    /\ \A t \in m_timers : timer[t].stage = "shared" /\ timer[t].cb
    /\ \A c \in Callers : call[c].pc = "insert" =>
         timer[call[c].t].stage = "adding" /\ timer[call[c].t].cb
    /\ \A c, d \in Callers : call[c].pc = "insert" /\ call[d].pc = "insert" /\ call[c].t = call[d].t => c = d
    /\ \A c \in Callers : call[c].pc \in {"refresh", "stuck"} => timer[call[c].t].stage = "shared"
    /\ \A c \in Callers : call[c].pc = "stuck" => undefined

\* The instant that a timer counts from, which reset(ms, false) computes back.
Starts == \A t \in Timers : timer[t].next - timer[t].ms \in 0 .. Horizon

\* A one-shot timer whose callback was taken has lost it, and one poller took it.
HandedOut ==
    /\ \A t \in Timers \ Recurring :
         fired[t] > 0 \/ Collected(t) \/ t \in cancelled => timer[t].stage = "shared" /\ ~timer[t].cb
    /\ \A t \in Timers \ Recurring, p, q \in Pollers :
         t \in poller[p].cbs /\ t \in poller[q].cbs => p = q
    /\ \A p \in Pollers : poller[p].pc # "drain" => poller[p].cbs = {}

Inv == TimerInv /\ Stages /\ Starts /\ HandedOut /\ OneShot

\* The records of the type invariant.
TimerType == [stage : {"unused", "adding", "shared"}, ms : Delays \cup ResetDelays \cup {0},
              next : Instants, cb : BOOLEAN]
CallType == [pc : {"free", "insert", "flush", "refresh", "stuck"}, t : Timers, seen : SUBSET Timers]
PollerType == [pc : {"arm", "wait", "check", "list", "drain"}, deadline : Instants, blind : BOOLEAN,
               byTickle : BOOLEAN, cur : 0 .. Horizon, cbs : SUBSET Timers]

LEMMA TypeIs ==
    TypeOK <=> /\ now \in 0 .. Horizon /\ m_timers \subseteq Timers
               /\ timer \in [Timers -> TimerType] /\ call \in [Callers -> CallType]
               /\ poller \in [Pollers -> PollerType]
               /\ tickled \in BOOLEAN /\ undefined \in BOOLEAN /\ fired \in [Timers -> 0 .. 2]
               /\ cancelled \subseteq Timers /\ wasReset \subseteq Timers /\ lost \subseteq Timers
  BY DEF TypeOK, TimerType, CallType, PollerType

\* What a step does that changes nothing but the clock, the pollers other than what they
\* have collected, and the pipe.
LEMMA PollerOnly ==
    ASSUME Inv, now' \in 0 .. Horizon, poller' \in [Pollers -> PollerType], tickled' \in BOOLEAN,
           \A p \in Pollers : poller'[p].cbs = poller[p].cbs,
           \A p \in Pollers : poller'[p].pc # "drain" => poller'[p].cbs = {},
           UNCHANGED <<m_timers, timer, call, undefined, history>>
    PROVE  Inv'
<1>1. TypeOK'
  BY DEF Inv, TimerInv, TypeOK, PollerType, history
<1>2. \A t \in Timers : Collected(t)' <=> Collected(t)
  BY DEF Collected
<1>3. OnlyResetOrRaceForgets' /\ UndefinedNeedsGap' /\ Stages' /\ Starts'
  BY DEF Inv, TimerInv, OnlyResetOrRaceForgets, UndefinedNeedsGap, Stages, Starts, history
<1>4. HandedOut'
  BY <1>2 DEF Inv, HandedOut, history
<1>5. OneShot'
  BY <1>2 DEF Inv, OneShot, history
<1>. QED BY <1>1, <1>3, <1>4, <1>5 DEF Inv, TimerInv

\* What the pollers' collections mean stays the same while the pollers do.
LEMMA SameCollected ==
    ASSUME UNCHANGED poller
    PROVE  \A t \in Timers : Collected(t)' <=> Collected(t)
  BY DEF Collected

LEMMA NewInv ==
    ASSUME Inv, ~undefined, NEW c \in Callers, NEW t \in Timers, NEW ms \in Delays, New(c, t, ms)
    PROVE  Inv'
<1>. DEFINE r == [stage |-> "adding", ms |-> ms, next |-> now + ms, cb |-> TRUE]
            k == [pc |-> "insert", t |-> t, seen |-> m_timers]
<1>1. /\ timer[t].stage = "unused" /\ timer' = [timer EXCEPT ![t] = r]
      /\ call' = [call EXCEPT ![c] = k]
      /\ UNCHANGED <<now, m_timers, poller, tickled, undefined, fired, cancelled, wasReset, lost>>
  BY DEF New, history
<1>2. /\ timer \in [Timers -> TimerType] /\ call \in [Callers -> CallType] /\ now \in 0 .. Horizon
      /\ m_timers \subseteq Timers
  BY TypeIs DEF Inv, TimerInv
<1>3. r \in TimerType /\ k \in CallType /\ r.next - r.ms \in 0 .. Horizon
  BY <1>2, InstantsReach, DelaysAssumption DEF TimerType, CallType
<1>4. /\ timer'[t] = r /\ \A s \in Timers : s # t => timer'[s] = timer[s]
      /\ call'[c] = k /\ \A d \in Callers : d # c => call'[d] = call[d]
      /\ timer' \in [Timers -> TimerType] /\ call' \in [Callers -> CallType]
  BY <1>1, <1>2, <1>3
<1>5. TypeOK'
  BY <1>1, <1>4 DEF Inv, TimerInv, TypeOK, TimerType, CallType
<1>6. t \notin m_timers /\ \A d \in Callers : call[d].pc \in {"insert", "refresh", "stuck"} => call[d].t # t
  BY <1>1 DEF Inv, Stages
<1>7. \A d \in Callers : call[d].t \in Timers
  BY <1>2 DEF CallType
<1>8. OnlyResetOrRaceForgets' /\ Starts'
  BY <1>1, <1>3, <1>4 DEF Inv, TimerInv, OnlyResetOrRaceForgets, Starts
<1>9. UndefinedNeedsGap' /\ Stages'
  <2>1. UndefinedNeedsGap'
    BY <1>1 DEF UndefinedNeedsGap
  <2>2. \A s \in m_timers : timer'[s].stage = "shared" /\ timer'[s].cb
    BY <1>2, <1>4, <1>6 DEF Inv, Stages
  <2>3. \A d \in Callers : call'[d].pc = "insert" => timer'[call'[d].t].stage = "adding" /\ timer'[call'[d].t].cb
    BY <1>4, <1>6, <1>7 DEF Inv, Stages
  <2>4. \A d, e \in Callers : call'[d].pc = "insert" /\ call'[e].pc = "insert" /\ call'[d].t = call'[e].t => d = e
    BY <1>4, <1>6 DEF Inv, Stages
  <2>5. \A d \in Callers : call'[d].pc \in {"refresh", "stuck"} => timer'[call'[d].t].stage = "shared"
    BY <1>4, <1>6, <1>7 DEF Inv, Stages
  <2>6. \A d \in Callers : call'[d].pc = "stuck" => undefined
    BY <1>4 DEF Inv, Stages
  <2>. QED BY <1>1, <2>1, <2>2, <2>3, <2>4, <2>5, <2>6 DEF Stages
<1>10. HandedOut' /\ OneShot'
  <2>1. \A s \in Timers : Collected(s)' <=> Collected(s)
    BY <1>1, SameCollected
  <2>. QED BY <1>1, <1>4, <2>1 DEF Inv, HandedOut, OneShot
<1>. QED BY <1>5, <1>8, <1>9, <1>10 DEF Inv, TimerInv

LEMMA FreeType == Free \in CallType /\ Free.pc = "free"
<1>1. Min(Timers) \in Timers
  BY MinOfNats, TimersAssumption
<1>. QED BY <1>1 DEF Free, CallType

LEMMA CallOnly ==
    ASSUME Inv, ~undefined, NEW c \in Callers, NEW k \in CallType, call' = [call EXCEPT ![c] = k],
           k.pc \in {"free", "flush"} \/ (k.pc = "refresh" /\ timer[k.t].stage = "shared"),
           tickled' \in BOOLEAN,
           UNCHANGED <<now, m_timers, timer, poller, undefined, fired, cancelled, wasReset, lost>>
    PROVE  Inv'
<1>1. call \in [Callers -> CallType]
  BY TypeIs DEF Inv, TimerInv
<1>2. /\ call'[c] = k /\ \A d \in Callers : d # c => call'[d] = call[d]
      /\ call' \in [Callers -> CallType]
  BY <1>1
<1>3. TypeOK'
  BY <1>2 DEF Inv, TimerInv, TypeOK, CallType
<1>4. OnlyResetOrRaceForgets' /\ UndefinedNeedsGap' /\ Starts'
  BY DEF Inv, TimerInv, OnlyResetOrRaceForgets, UndefinedNeedsGap, Starts
<1>5. Stages'
  BY <1>2 DEF Inv, Stages
<1>6. HandedOut' /\ OneShot'
  <2>1. \A t \in Timers : Collected(t)' <=> Collected(t)
    BY SameCollected
  <2>. QED BY <2>1 DEF Inv, HandedOut, OneShot
<1>. QED BY <1>3, <1>4, <1>5, <1>6 DEF Inv, TimerInv

\* What Insert does: the set may lack timers that were inserted meanwhile, never this one.
LEMMA InsertStep ==
    ASSUME Inv, NEW c \in Callers, Insert(c)
    PROVE  \E t \in Timers, set \in SUBSET Timers, k \in CallType :
             /\ call[c].pc = "insert" /\ call[c].t = t
             /\ set \subseteq m_timers \cup {t} /\ t \in set
             /\ m_timers' = set /\ lost' = lost \cup (m_timers \ set)
             /\ k.pc = IF AtFront(t, set) THEN "flush" ELSE "free"
             /\ call' = [call EXCEPT ![c] = k]
             /\ timer' = [timer EXCEPT ![t].stage = "shared"]
             /\ UNCHANGED <<now, poller, tickled, undefined, fired, cancelled, wasReset>>
<1>1. call \in [Callers -> CallType] /\ m_timers \subseteq Timers
  BY TypeIs DEF Inv, TimerInv
<1>2. PICK t \in Timers : t = call[c].t
  BY <1>1 DEF CallType
<1>3. PICK set \in Inserted(c) :
        /\ m_timers' = set /\ lost' = lost \cup (m_timers \ set)
        /\ call' = IF AtFront(t, set) THEN [call EXCEPT ![c].pc = "flush", ![c].seen = {}]
                   ELSE [call EXCEPT ![c] = Free]
  BY <1>2 DEF Insert
<1>4. set \subseteq m_timers \cup {t} /\ t \in set
  BY <1>2, <1>3 DEF Inserted
<1>5. set \in SUBSET Timers
  BY <1>1, <1>4
<1>6. PICK k \in CallType :
        k.pc = (IF AtFront(t, set) THEN "flush" ELSE "free") /\ call' = [call EXCEPT ![c] = k]
  <2>1. CASE AtFront(t, set)
    <3>. DEFINE k == [call[c] EXCEPT !.pc = "flush", !.seen = {}]
    <3>1. k \in CallType /\ k.pc = "flush"
      BY <1>1 DEF CallType
    <3>2. call' = [call EXCEPT ![c] = k]
      BY <1>1, <1>3, <2>1
    <3>. QED BY <2>1, <3>1, <3>2
  <2>2. CASE ~AtFront(t, set)
    BY <1>3, <2>2, FreeType
  <2>. QED BY <2>1, <2>2
<1>7. /\ call[c].pc = "insert" /\ timer' = [timer EXCEPT ![t].stage = "shared"]
      /\ UNCHANGED <<now, poller, tickled, undefined, fired, cancelled, wasReset>>
  BY <1>2 DEF Insert
<1>8. WITNESS t \in Timers, set \in SUBSET Timers, k \in CallType
<1>. QED BY <1>2, <1>3, <1>4, <1>5, <1>6, <1>7

LEMMA InsertInv ==
    ASSUME Inv, ~undefined, NEW c \in Callers, Insert(c)
    PROVE  Inv'
<1>1. PICK t \in Timers, set \in SUBSET Timers, k \in CallType :
             /\ call[c].pc = "insert" /\ call[c].t = t
             /\ set \subseteq m_timers \cup {t} /\ t \in set
             /\ m_timers' = set /\ lost' = lost \cup (m_timers \ set)
             /\ k.pc = IF AtFront(t, set) THEN "flush" ELSE "free"
             /\ call' = [call EXCEPT ![c] = k]
             /\ timer' = [timer EXCEPT ![t].stage = "shared"]
             /\ UNCHANGED <<now, poller, tickled, undefined, fired, cancelled, wasReset>>
  BY InsertStep
<1>2. timer \in [Timers -> TimerType] /\ call \in [Callers -> CallType] /\ m_timers \subseteq Timers
  BY TypeIs DEF Inv, TimerInv
<1>3. /\ timer' \in [Timers -> TimerType] /\ timer'[t].stage = "shared"
      /\ timer'[t].cb = timer[t].cb /\ timer'[t].ms = timer[t].ms /\ timer'[t].next = timer[t].next
      /\ \A s \in Timers : s # t => timer'[s] = timer[s]
  BY <1>1, <1>2 DEF TimerType
<1>4. /\ call'[c] = k /\ \A d \in Callers : d # c => call'[d] = call[d]
      /\ call' \in [Callers -> CallType] /\ k.pc \in {"flush", "free"}
  BY <1>1, <1>2
<1>5. TypeOK'
  BY <1>1, <1>3, <1>4 DEF Inv, TimerInv, TypeOK, TimerType, CallType
<1>6. timer[t].stage = "adding" /\ timer[t].cb /\ \A d \in Callers : d # c /\ call[d].pc = "insert" => call[d].t # t
  BY <1>1 DEF Inv, Stages
<1>7. OnlyResetOrRaceForgets'
  BY <1>1, <1>3 DEF Inv, TimerInv, OnlyResetOrRaceForgets
<1>8. UndefinedNeedsGap' /\ Starts'
  BY <1>1, <1>3 DEF Inv, UndefinedNeedsGap, Starts
<1>9. Stages'
  <2>1. \A d \in Callers : call[d].t \in Timers
    BY <1>2 DEF CallType
  <2>2. \A s \in set : timer'[s].stage = "shared" /\ timer'[s].cb
    BY <1>1, <1>3, <1>6 DEF Inv, Stages
  <2>3. \A d \in Callers : call'[d].pc = "insert" =>
          d # c /\ timer'[call'[d].t].stage = "adding" /\ timer'[call'[d].t].cb
    BY <1>3, <1>4, <1>6, <2>1 DEF Inv, Stages
  <2>4. \A d \in Callers : call'[d].pc \in {"refresh", "stuck"} => timer'[call'[d].t].stage = "shared"
    BY <1>3, <1>4, <2>1 DEF Inv, Stages
  <2>5. \A d \in Callers : call'[d].pc = "stuck" => undefined
    BY <1>4 DEF Inv, Stages
  <2>6. \A d, e \in Callers : call'[d].pc = "insert" /\ call'[e].pc = "insert" /\ call'[d].t = call'[e].t => d = e
    BY <1>4, <2>3 DEF Inv, Stages
  <2>. QED BY <1>1, <2>2, <2>3, <2>4, <2>5, <2>6 DEF Stages
<1>10. HandedOut' /\ OneShot'
  <2>1. \A s \in Timers : Collected(s)' <=> Collected(s)
    BY <1>1, SameCollected
  <2>. QED BY <1>1, <1>3, <1>6, <2>1 DEF Inv, HandedOut, OneShot
<1>. QED BY <1>5, <1>7, <1>8, <1>9, <1>10 DEF Inv, TimerInv

LEMMA CancelInv ==
    ASSUME Inv, ~undefined, NEW c \in Callers, NEW t \in Timers, Cancel(c, t)
    PROVE  Inv'
<1>1. /\ Exclusive /\ timer[t].cb /\ timer[t].stage = "shared"
      /\ timer' = [timer EXCEPT ![t].cb = FALSE] /\ m_timers' = m_timers \ {t}
      /\ cancelled' = cancelled \cup {t}
      /\ UNCHANGED <<now, call, poller, tickled, undefined, fired, wasReset, lost>>
  BY DEF Cancel, Usable
<1>2. timer \in [Timers -> TimerType] /\ call \in [Callers -> CallType] /\ m_timers \subseteq Timers
  BY TypeIs DEF Inv, TimerInv
<1>3. /\ timer' \in [Timers -> TimerType] /\ timer'[t].cb = FALSE
      /\ \A s \in Timers : s # t => timer'[s] = timer[s]
      /\ \A s \in Timers : /\ timer'[s].stage = timer[s].stage
                           /\ timer'[s].ms = timer[s].ms /\ timer'[s].next = timer[s].next
  BY <1>1, <1>2 DEF TimerType
<1>5. TypeOK'
  BY <1>1, <1>3 DEF Inv, TimerInv, TypeOK, TimerType
<1>7. OnlyResetOrRaceForgets'
  BY <1>1, <1>3 DEF Inv, TimerInv, OnlyResetOrRaceForgets
<1>8. UndefinedNeedsGap' /\ Starts'
  BY <1>1, <1>3 DEF Inv, UndefinedNeedsGap, Starts
<1>9. Stages'
  <2>1. \A d \in Callers : call[d].t \in Timers /\ call[d].pc # "insert"
    BY <1>1, <1>2 DEF CallType, Exclusive
  <2>. QED BY <1>1, <1>2, <1>3, <2>1 DEF Inv, Stages
<1>10. HandedOut' /\ OneShot'
  <2>1. \A s \in Timers : Collected(s)' <=> Collected(s)
    BY <1>1, SameCollected
  <2>2. t \notin Recurring => ~(fired[t] > 0) /\ ~Collected(t)
    BY <1>1 DEF Inv, HandedOut
  <2>3. fired[t] \in Nat
    BY DEF Inv, TimerInv, TypeOK
  <2>4. HandedOut'
    BY <1>1, <1>3, <2>1, <2>2 DEF Inv, HandedOut
  <2>5. OneShot'
    BY <1>1, <1>3, <2>1, <2>2, <2>3 DEF Inv, OneShot
  <2>. QED BY <2>4, <2>5
<1>. QED BY <1>5, <1>7, <1>8, <1>9, <1>10 DEF Inv, TimerInv

LEMMA RefreshCheckInv ==
    ASSUME Inv, ~undefined, NEW c \in Callers, NEW t \in Timers, RefreshCheck(c, t)
    PROVE  Inv'
<1>. DEFINE k == [pc |-> "refresh", t |-> t, seen |-> {}]
<1>1. k \in CallType /\ k.pc = "refresh" /\ k.t = t /\ tickled \in BOOLEAN
  BY TypeIs DEF CallType, Inv, TimerInv
<1>2. /\ call' = [call EXCEPT ![c] = k] /\ timer[t].stage = "shared"
      /\ UNCHANGED <<now, m_timers, timer, poller, tickled, undefined, fired, cancelled, wasReset, lost>>
  BY DEF RefreshCheck, Usable, history
<1>. HIDE DEF k
<1>. QED BY <1>1, <1>2, CallOnly

LEMMA FlushTimerInv ==
    ASSUME Inv, ~undefined, NEW c \in Callers, FlushTimer(c)
    PROVE  Inv'
<1>1. /\ call' = [call EXCEPT ![c] = Free] /\ tickled' \in BOOLEAN
      /\ UNCHANGED <<now, m_timers, timer, poller, undefined, fired, cancelled, wasReset, lost>>
  BY DEF FlushTimer, history
<1>. QED BY <1>1, FreeType, CallOnly

LEMMA RefreshInv ==
    ASSUME Inv, ~undefined, NEW c \in Callers, Refresh(c)
    PROVE  Inv'
<1>1. call \in [Callers -> CallType] /\ undefined = FALSE /\ tickled \in BOOLEAN
  BY TypeIs DEF Inv, TimerInv
<1>2. PICK t \in Timers : t = call[c].t
  BY <1>1 DEF CallType
<1>3. /\ call[c].pc = "refresh" /\ undefined' = (t \notin m_timers)
      /\ call' = [call EXCEPT ![c].pc = IF undefined' THEN "stuck" ELSE "free",
                              ![c].t = IF undefined' THEN t ELSE Free.t]
      /\ UNCHANGED <<now, m_timers, timer, poller, tickled, fired, cancelled, wasReset, lost>>
  BY <1>1, <1>2 DEF Refresh, history
<1>4. CASE t \in m_timers
  <2>. DEFINE k == [call[c] EXCEPT !.pc = "free", !.t = Free.t]
  <2>1. Free.t \in Timers
    BY FreeType DEF CallType
  <2>2. k \in CallType /\ k.pc = "free"
    BY <1>1, <2>1 DEF CallType
  <2>3. call' = [call EXCEPT ![c] = k] /\ UNCHANGED undefined
    BY <1>1, <1>3, <1>4
  <2>. HIDE DEF k
  <2>. QED BY <1>1, <1>3, <2>2, <2>3, CallOnly
<1>5. CASE t \notin m_timers
  <2>1. /\ undefined' = TRUE
        /\ call' \in [Callers -> CallType] /\ call'[c].pc = "stuck" /\ call'[c].t = t
        /\ \A d \in Callers : d # c => call'[d] = call[d]
    BY <1>1, <1>3, <1>5 DEF CallType
  <2>2. TypeOK'
    BY <1>3, <2>1 DEF Inv, TimerInv, TypeOK, CallType
  <2>3. OnlyResetOrRaceForgets' /\ Starts'
    BY <1>3 DEF Inv, TimerInv, OnlyResetOrRaceForgets, Starts
  <2>4. timer[t].stage = "shared"
    BY <1>2, <1>3 DEF Inv, Stages
  <2>5. \A d \in Callers : call[d].pc # "stuck"
    BY DEF Inv, Stages
  <2>6. ~timer[t].cb \/ t \in wasReset \cup lost
    BY <1>5, <2>4 DEF Inv, TimerInv, OnlyResetOrRaceForgets
  <2>7. UndefinedNeedsGap'
    BY <1>3, <2>1, <2>5, <2>6 DEF UndefinedNeedsGap
  <2>8. Stages'
    BY <1>3, <2>1, <2>4 DEF Inv, Stages
  <2>9. HandedOut' /\ OneShot'
    <3>1. \A s \in Timers : Collected(s)' <=> Collected(s)
      BY <1>3, SameCollected
    <3>. QED BY <1>3, <3>1 DEF Inv, HandedOut, OneShot
  <2>. QED BY <2>2, <2>3, <2>7, <2>8, <2>9 DEF Inv, TimerInv
<1>. QED BY <1>4, <1>5

LEMMA ResetInv ==
    ASSUME Inv, ~undefined, NEW c \in Callers, NEW t \in Timers, NEW ms \in ResetDelays,
           NEW fromNow \in BOOLEAN, Reset(c, t, ms, fromNow)
    PROVE  Inv'
<1>1. /\ timer \in [Timers -> TimerType] /\ call \in [Callers -> CallType] /\ m_timers \subseteq Timers
      /\ now \in 0 .. Horizon
  BY TypeIs DEF Inv, TimerInv
<1>2. PICK start \in 0 .. Horizon : start = IF fromNow THEN now ELSE timer[t].next - timer[t].ms
  BY <1>1 DEF Inv, Starts
<1>3. PICK next \in Instants : next = start + ms /\ next - ms = start
  BY InstantsReach, DelaysAssumption
<1>4. /\ timer[t].cb /\ timer[t].stage = "shared" /\ t \in m_timers /\ m_timers' = m_timers \ {t}
      /\ timer' = [timer EXCEPT ![t].ms = ms, ![t].next = next]
      /\ wasReset' = wasReset \cup {t}
      /\ UNCHANGED <<now, call, poller, tickled, undefined, fired, cancelled, lost>>
  BY <1>2, <1>3 DEF Reset, Usable
<1>5. /\ timer' \in [Timers -> TimerType] /\ timer'[t].ms = ms /\ timer'[t].next = next
      /\ \A s \in Timers : s # t => timer'[s] = timer[s]
      /\ \A s \in Timers : timer'[s].stage = timer[s].stage /\ timer'[s].cb = timer[s].cb
  BY <1>1, <1>4 DEF TimerType
<1>6. TypeOK'
  BY <1>4, <1>5 DEF Inv, TimerInv, TypeOK, TimerType
<1>7. OnlyResetOrRaceForgets'
  BY <1>4, <1>5 DEF Inv, TimerInv, OnlyResetOrRaceForgets
<1>8. UndefinedNeedsGap' /\ Starts'
  BY <1>3, <1>4, <1>5 DEF Inv, UndefinedNeedsGap, Starts
<1>9. Stages'
  <2>1. \A d \in Callers : call[d].t \in Timers
    BY <1>1 DEF CallType
  <2>. QED BY <1>1, <1>4, <1>5, <2>1 DEF Inv, Stages
<1>10. HandedOut' /\ OneShot'
  <2>1. \A s \in Timers : Collected(s)' <=> Collected(s)
    BY <1>4, SameCollected
  <2>. QED BY <1>4, <1>5, <2>1 DEF Inv, HandedOut, OneShot
<1>. QED BY <1>6, <1>7, <1>8, <1>9, <1>10 DEF Inv, TimerInv

\* getNextTimer(): if it is not 0, no timer in the set is due before that.
LEMMA NextTimer ==
    ASSUME Inv
    PROVE  /\ GetNextTimer \in Nat
           /\ GetNextTimer > 0 => \A t \in m_timers : now + GetNextTimer <= timer[t].next
<1>. DEFINE S == {timer[t].next : t \in m_timers}
<1>1. /\ timer \in [Timers -> TimerType] /\ m_timers \subseteq Timers /\ now \in Nat
  BY TypeIs, DelaysAssumption DEF Inv, TimerInv
<1>2. S \subseteq Nat
  BY <1>1, InstantsReach DEF TimerType
<1>3. CASE m_timers = {}
  BY <1>3 DEF GetNextTimer
<1>4. CASE m_timers # {}
  <2>1. Min(S) \in S /\ \A n \in S : Min(S) <= n
    <3>1. S # {}
      BY <1>4
    <3>. HIDE DEF S
    <3>. QED BY <1>2, <3>1, MinOfNats
  <2>2. PICK n \in Nat : n = Min(S) /\ \A t \in m_timers : n <= timer[t].next
    BY <1>2, <2>1
  <2>3. GetNextTimer = IF n >= now THEN n - now ELSE 0
    BY <1>4, <2>2 DEF GetNextTimer
  <2>4. \A t \in m_timers : timer[t].next \in Nat
    BY <1>2
  <2>5. GetNextTimer \in Nat /\ (GetNextTimer > 0 => now + GetNextTimer = n)
    BY <1>1, <2>3
  <2>. QED BY <2>2, <2>5
<1>. QED BY <1>3, <1>4

\* idle() sleeps until the first timer at the latest, unless one is due already.
LEMMA ArmStep ==
    ASSUME Inv, NEW p \in Pollers, Arm(p)
    PROVE  \E r \in PollerType :
             /\ poller' = [poller EXCEPT ![p] = r]
             /\ poller[p].pc = "arm" /\ r.pc = "wait" /\ r.cbs = {}
             /\ \A t \in m_timers : r.blind \/ r.deadline <= timer[t].next
<1>. DEFINE n == GetNextTimer
            wait == IF n = 0 \/ n > MaxTimeout THEN MaxTimeout ELSE n
            r == [Looping EXCEPT !.pc = "wait", !.deadline = now + wait, !.blind = n = 0 /\ m_timers # {}]
<1>1. now \in 0 .. Horizon /\ timer \in [Timers -> TimerType] /\ m_timers \subseteq Timers
  BY TypeIs DEF Inv, TimerInv
<1>2. n \in Nat /\ (n > 0 => \A t \in m_timers : now + n <= timer[t].next)
  BY NextTimer
<1>3. wait \in 0 .. MaxTimeout /\ (n > 0 => wait <= n)
  BY <1>2, DelaysAssumption
<1>4. now + wait \in Instants
  BY <1>1, <1>3, InstantsReach
<1>5. /\ r \in PollerType /\ r.pc = "wait" /\ r.cbs = {} /\ r.deadline = now + wait
      /\ r.blind = (n = 0 /\ m_timers # {})
  <2>1. 0 \in Instants /\ 0 \in 0 .. Horizon
    BY InstantsReach, DelaysAssumption
  <2>. HIDE DEF n, wait
  <2>. QED BY <1>4, <2>1 DEF Looping, PollerType
<1>6. \A t \in m_timers : r.blind \/ r.deadline <= timer[t].next
  <2>1. \A t \in m_timers : timer[t].next \in Nat
    BY <1>1, InstantsReach DEF TimerType
  <2>2. now + wait <= now + n \/ n = 0
    BY <1>1, <1>2, <1>3
  <2>3. now \in Nat /\ wait \in Nat
    BY <1>1, <1>3, DelaysAssumption
  <2>. SUFFICES ASSUME NEW t \in m_timers PROVE r.blind \/ r.deadline <= timer[t].next
    OBVIOUS
  <2>. HIDE DEF n, wait, r
  <2>4. CASE n = 0
    BY <1>5, <2>4
  <2>5. CASE n # 0
    <3>1. now + n <= timer[t].next /\ now + wait <= now + n
      BY <1>2, <2>2, <2>5
    <3>. QED BY <1>2, <1>5, <2>1, <2>3, <3>1
  <2>. QED BY <2>4, <2>5
<1>7. poller' = [poller EXCEPT ![p] = r] /\ poller[p].pc = "arm"
  BY DEF Arm
<1>. HIDE DEF r
<1>. QED BY <1>5, <1>6, <1>7

LEMMA ArmInv ==
    ASSUME Inv, NEW p \in Pollers, Arm(p)
    PROVE  Inv'
<1>1. PICK r \in PollerType :
             /\ poller' = [poller EXCEPT ![p] = r]
             /\ poller[p].pc = "arm" /\ r.pc = "wait" /\ r.cbs = {}
             /\ \A t \in m_timers : r.blind \/ r.deadline <= timer[t].next
  BY ArmStep
<1>2. poller \in [Pollers -> PollerType] /\ now \in 0 .. Horizon /\ tickled \in BOOLEAN
  BY TypeIs DEF Inv, TimerInv
<1>3. /\ poller' \in [Pollers -> PollerType] /\ poller'[p] = r
      /\ \A q \in Pollers : q # p => poller'[q] = poller[q]
  BY <1>1, <1>2
<1>4. poller[p].cbs = {}
  BY <1>1 DEF Inv, HandedOut
<1>5. UNCHANGED <<now, m_timers, timer, call, tickled, undefined, history>>
  BY DEF Arm
<1>6. \A q \in Pollers : poller[q].pc # "drain" => poller[q].cbs = {}
  BY DEF Inv, HandedOut
<1>. QED BY <1>1, <1>2, <1>3, <1>4, <1>5, <1>6, PollerOnly

LEMMA WakeInv ==
    ASSUME Inv, NEW p \in Pollers, NEW cause \in {"tickle", "timeout", "fd"}, Wake(p, cause)
    PROVE  Inv'
<1>1. poller \in [Pollers -> PollerType] /\ now \in 0 .. Horizon /\ 0 \in Instants
  BY TypeIs, InstantsReach DEF Inv, TimerInv
<1>2. /\ poller[p].pc = "wait" /\ tickled' \in BOOLEAN
      /\ poller' = [poller EXCEPT ![p].pc = "check", ![p].byTickle = cause = "tickle",
                                  ![p].blind = FALSE, ![p].deadline = 0]
      /\ UNCHANGED <<now, m_timers, timer, call, undefined, history>>
  BY DEF Wake
<1>3. /\ poller' \in [Pollers -> PollerType] /\ poller'[p].pc = "check"
      /\ \A q \in Pollers : (q # p => poller'[q].pc = poller[q].pc) /\ poller'[q].cbs = poller[q].cbs
  <2>1. PICK b \in BOOLEAN : b = (cause = "tickle")
    OBVIOUS
  <2>. DEFINE r == [poller[p] EXCEPT !.pc = "check", !.byTickle = b, !.blind = FALSE, !.deadline = 0]
  <2>2. r \in PollerType /\ r.pc = "check" /\ r.cbs = poller[p].cbs
    BY <1>1 DEF PollerType
  <2>3. poller' = [poller EXCEPT ![p] = r]
    BY <1>1, <1>2, <2>1
  <2>. HIDE DEF r
  <2>. QED BY <1>1, <2>2, <2>3
<1>4. \A q \in Pollers : poller[q].pc # "drain" => poller[q].cbs = {}
  BY DEF Inv, HandedOut
<1>. QED BY <1>1, <1>2, <1>3, <1>4, PollerOnly

LEMMA ListCheckInv ==
    ASSUME Inv, NEW p \in Pollers, ListCheck(p)
    PROVE  Inv'
<1>1. poller \in [Pollers -> PollerType] /\ now \in 0 .. Horizon /\ tickled \in BOOLEAN
  BY TypeIs DEF Inv, TimerInv
<1>2. PICK pc \in {"drain", "list"} : pc = IF m_timers = {} THEN "drain" ELSE "list"
  OBVIOUS
<1>3. /\ poller[p].pc = "check" /\ poller' = [poller EXCEPT ![p].pc = pc, ![p].cur = now]
      /\ UNCHANGED <<now, m_timers, timer, call, tickled, undefined, history>>
  BY <1>2 DEF ListCheck
<1>4. /\ poller' \in [Pollers -> PollerType] /\ poller'[p].pc = pc
      /\ \A q \in Pollers : (q # p => poller'[q].pc = poller[q].pc) /\ poller'[q].cbs = poller[q].cbs
  BY <1>1, <1>3 DEF PollerType
<1>5. \A q \in Pollers : poller[q].pc # "drain" => poller[q].cbs = {}
  BY DEF Inv, HandedOut
<1>. QED BY <1>1, <1>3, <1>4, <1>5, PollerOnly

LEMMA TickInv ==
    ASSUME Inv, Tick \/ UNCHANGED vars
    PROVE  Inv'
<1>1. /\ poller \in [Pollers -> PollerType] /\ now \in 0 .. Horizon /\ tickled \in BOOLEAN
  BY TypeIs DEF Inv, TimerInv
<1>2. now' \in 0 .. Horizon /\ UNCHANGED <<m_timers, timer, call, poller, tickled, undefined, history>>
  BY <1>1, DelaysAssumption DEF Tick, vars, history
<1>3. \A q \in Pollers : poller[q].pc # "drain" => poller[q].cbs = {}
  BY DEF Inv, HandedOut
<1>. QED BY <1>1, <1>2, <1>3, PollerOnly

\* What listExpiredCb does to the timers and to what poller p has collected.
LEMMA ListStep ==
    ASSUME Inv, NEW p \in Pollers, ListExpiredCb(p)
    PROVE  \E expired \in SUBSET m_timers :
             /\ \A c \in Callers : call[c].pc # "insert"
             /\ poller[p].pc = "list" /\ poller[p].cbs = {}
             /\ timer' \in [Timers -> TimerType] /\ poller' \in [Pollers -> PollerType]
             /\ \A t \in Timers : /\ timer'[t].stage = timer[t].stage
                                  /\ timer'[t].next - timer'[t].ms \in 0 .. Horizon
             /\ \A t \in Timers : IF t \in expired \ Recurring THEN ~timer'[t].cb
                                  ELSE timer'[t].cb = timer[t].cb
             /\ m_timers' = {t \in m_timers : t \in Recurring \/ t \notin expired}
             /\ poller'[p].pc = "drain" /\ poller'[p].cbs = expired
             /\ \A q \in Pollers : q # p => poller'[q] = poller[q]
             /\ UNCHANGED <<now, call, tickled, undefined, fired, cancelled, wasReset, lost>>
<1>1. /\ timer \in [Timers -> TimerType] /\ poller \in [Pollers -> PollerType] /\ m_timers \subseteq Timers
  BY TypeIs DEF Inv, TimerInv
<1>2. PICK cur \in 0 .. Horizon : cur = poller[p].cur
  BY <1>1 DEF PollerType
<1>3. PICK expired \in SUBSET m_timers : expired = Expired(cur)
  BY DEF Expired
<1>4. /\ timer' = [t \in Timers |->
                     IF t \notin expired THEN timer[t]
                     ELSE IF t \in Recurring THEN [timer[t] EXCEPT !.next = cur + timer[t].ms]
                          ELSE [timer[t] EXCEPT !.cb = FALSE]]
      /\ m_timers' = {t \in m_timers : t \in Recurring \/ t \notin expired}
      /\ poller' = [poller EXCEPT ![p].pc = "drain", ![p].cbs = expired]
      /\ poller[p].pc = "list" /\ Exclusive
      /\ UNCHANGED <<now, call, tickled, undefined, fired, cancelled, wasReset, lost>>
  BY <1>2, <1>3 DEF ListExpiredCb, history
<1>5. ASSUME NEW t \in Timers
      PROVE  /\ timer'[t] \in TimerType /\ timer'[t].stage = timer[t].stage
             /\ timer'[t].next - timer'[t].ms \in 0 .. Horizon
             /\ IF t \in expired \ Recurring THEN ~timer'[t].cb ELSE timer'[t].cb = timer[t].cb
  <2>1. timer[t] \in TimerType /\ timer[t].next - timer[t].ms \in 0 .. Horizon
    BY <1>1 DEF Inv, Starts
  <2>2. CASE t \notin expired
    BY <1>4, <2>1, <2>2
  <2>3. CASE t \in expired /\ t \in Recurring
    <3>1. cur + timer[t].ms \in Instants /\ (cur + timer[t].ms) - timer[t].ms = cur
      BY <2>1, InstantsReach, DelaysAssumption DEF TimerType
    <3>2. timer'[t] = [timer[t] EXCEPT !.next = cur + timer[t].ms]
      BY <1>4, <2>3
    <3>. QED BY <2>1, <2>3, <3>1, <3>2 DEF TimerType
  <2>4. CASE t \in expired /\ t \notin Recurring
    <3>1. timer'[t] = [timer[t] EXCEPT !.cb = FALSE]
      BY <1>4, <2>4
    <3>. QED BY <2>1, <2>4, <3>1 DEF TimerType
  <2>. QED BY <2>2, <2>3, <2>4
<1>6. timer' \in [Timers -> TimerType]
  BY <1>4, <1>5
<1>7. /\ poller' \in [Pollers -> PollerType] /\ poller'[p].pc = "drain" /\ poller'[p].cbs = expired
      /\ \A q \in Pollers : q # p => poller'[q] = poller[q]
  BY <1>1, <1>4 DEF PollerType
<1>8. poller[p].cbs = {} /\ \A c \in Callers : call[c].pc # "insert"
  BY <1>4 DEF Inv, HandedOut, Exclusive
<1>9. WITNESS expired \in SUBSET m_timers
<1>. QED BY <1>4, <1>5, <1>6, <1>7, <1>8

LEMMA ListExpiredCbInv ==
    ASSUME Inv, ~undefined, NEW p \in Pollers, ListExpiredCb(p)
    PROVE  Inv'
<1>1. PICK expired \in SUBSET m_timers :
             /\ \A c \in Callers : call[c].pc # "insert"
             /\ poller[p].pc = "list" /\ poller[p].cbs = {}
             /\ timer' \in [Timers -> TimerType] /\ poller' \in [Pollers -> PollerType]
             /\ \A t \in Timers : /\ timer'[t].stage = timer[t].stage
                                  /\ timer'[t].next - timer'[t].ms \in 0 .. Horizon
             /\ \A t \in Timers : IF t \in expired \ Recurring THEN ~timer'[t].cb
                                  ELSE timer'[t].cb = timer[t].cb
             /\ m_timers' = {t \in m_timers : t \in Recurring \/ t \notin expired}
             /\ poller'[p].pc = "drain" /\ poller'[p].cbs = expired
             /\ \A q \in Pollers : q # p => poller'[q] = poller[q]
             /\ UNCHANGED <<now, call, tickled, undefined, fired, cancelled, wasReset, lost>>
  BY ListStep
<1>2. m_timers \subseteq Timers /\ call \in [Callers -> CallType] /\ fired \in [Timers -> 0 .. 2]
  BY TypeIs DEF Inv, TimerInv
<1>3. TypeOK'
  BY <1>1, <1>2 DEF Inv, TimerInv, TypeOK, TimerType, PollerType
<1>4. OnlyResetOrRaceForgets' /\ UndefinedNeedsGap' /\ Starts'
  <2>1. OnlyResetOrRaceForgets'
    BY <1>1, <1>2 DEF Inv, TimerInv, OnlyResetOrRaceForgets
  <2>2. UndefinedNeedsGap' /\ Starts'
    BY <1>1 DEF UndefinedNeedsGap, Starts
  <2>. QED BY <2>1, <2>2
<1>5. Stages'
  <2>1. \A d \in Callers : call[d].t \in Timers
    BY <1>2 DEF CallType
  <2>. QED BY <1>1, <1>2, <2>1 DEF Inv, Stages
<1>6. \A t \in Timers : Collected(t)' <=> t \in expired \/ Collected(t)
  BY <1>1 DEF Collected
<1>7. \A t \in expired : /\ t \in Timers /\ timer[t].stage = "shared" /\ timer[t].cb
                         /\ t \notin Recurring => fired[t] = 0 /\ ~Collected(t) /\ t \notin cancelled
  BY <1>2 DEF Inv, Stages, HandedOut
<1>8. HandedOut'
  <2>1. \A t \in Timers \ Recurring : fired[t] > 0 \/ Collected(t)' \/ t \in cancelled =>
          timer'[t].stage = "shared" /\ ~timer'[t].cb
    <3>. SUFFICES ASSUME NEW t \in Timers \ Recurring, fired[t] > 0 \/ Collected(t)' \/ t \in cancelled
                  PROVE  timer'[t].stage = "shared" /\ ~timer'[t].cb
      OBVIOUS
    <3>1. CASE t \in expired
      BY <1>1, <1>7, <3>1
    <3>2. CASE t \notin expired
      <4>1. fired[t] > 0 \/ Collected(t) \/ t \in cancelled
        BY <1>6, <3>2
      <4>2. timer[t].stage = "shared" /\ ~timer[t].cb
        BY <4>1 DEF Inv, HandedOut
      <4>. QED BY <1>1, <3>2, <4>2
    <3>. QED BY <3>1, <3>2
  <2>2. \A t \in Timers \ Recurring, q, r \in Pollers :
          t \in poller'[q].cbs /\ t \in poller'[r].cbs => q = r
    <3>1. \A t \in expired \ Recurring, q \in Pollers : t \notin poller[q].cbs
      <4>. SUFFICES ASSUME NEW t \in expired \ Recurring, NEW q \in Pollers PROVE t \notin poller[q].cbs
        OBVIOUS
      <4>1. ~Collected(t)
        BY <1>7
      <4>. QED BY <4>1 DEF Collected
    <3>. QED BY <1>1, <3>1 DEF Inv, HandedOut
  <2>3. \A q \in Pollers : poller'[q].pc # "drain" => poller'[q].cbs = {}
    BY <1>1 DEF Inv, HandedOut
  <2>. QED BY <1>1, <2>1, <2>2, <2>3 DEF HandedOut
<1>9. OneShot'
  <2>. SUFFICES ASSUME NEW t \in Timers \ Recurring
                PROVE  /\ fired[t] + (IF Collected(t)' THEN 1 ELSE 0) <= 1
                       /\ t \in cancelled => fired[t] = 0 /\ ~Collected(t)'
    BY <1>1 DEF OneShot
  <2>1. CASE t \in expired
    BY <1>7, <2>1
  <2>2. CASE t \notin expired
    BY <1>6, <2>2 DEF Inv, OneShot
  <2>. QED BY <2>1, <2>2
<1>. QED BY <1>3, <1>4, <1>5, <1>8, <1>9 DEF Inv, TimerInv

LEMMA ScheduleExpiredInv ==
    ASSUME Inv, ~undefined, NEW p \in Pollers, ScheduleExpired(p)
    PROVE  Inv'
<1>1. /\ poller[p].pc = "drain"
      /\ fired' = [t \in Timers |-> IF t \in poller[p].cbs \ Recurring THEN Min({2, fired[t] + 1})
                                    ELSE fired[t]]
      /\ tickled' \in BOOLEAN /\ poller' = [poller EXCEPT ![p] = Looping]
      /\ UNCHANGED <<now, m_timers, timer, call, undefined, cancelled, wasReset, lost>>
  BY DEF ScheduleExpired
<1>2. fired \in [Timers -> 0 .. 2] /\ poller \in [Pollers -> PollerType]
  BY TypeIs DEF Inv, TimerInv
<1>3. Looping \in PollerType /\ Looping.cbs = {} /\ Looping.pc = "arm"
  BY InstantsReach, DelaysAssumption DEF Looping, PollerType
<1>4. /\ poller' \in [Pollers -> PollerType] /\ poller'[p] = Looping
      /\ \A q \in Pollers : q # p => poller'[q] = poller[q]
  BY <1>1, <1>2, <1>3
<1>5. \A t \in Timers \ Recurring : t \in poller[p].cbs =>
        fired[t] = 0 /\ fired'[t] = 1 /\ ~Collected(t)' /\ t \notin cancelled
  <2>. SUFFICES ASSUME NEW t \in Timers \ Recurring, t \in poller[p].cbs
                PROVE  fired[t] = 0 /\ fired'[t] = 1 /\ ~Collected(t)' /\ t \notin cancelled
    OBVIOUS
  <2>1. Collected(t)
    BY DEF Collected
  <2>2. fired[t] = 0 /\ t \notin cancelled
    BY <1>2, <2>1 DEF Inv, OneShot
  <2>3. Min({2, 1}) = 1
    BY DEF Min
  <2>4. fired'[t] = 1
    BY <1>1, <2>2, <2>3
  <2>5. \A q \in Pollers : t \in poller[q].cbs => q = p
    BY DEF Inv, HandedOut
  <2>6. ~Collected(t)'
    BY <1>3, <1>4, <2>5 DEF Collected
  <2>. QED BY <2>2, <2>4, <2>6
<1>6. \A t \in Timers : ~(t \in poller[p].cbs \ Recurring) => fired'[t] = fired[t]
  BY <1>1
<1>7. \A t \in Timers : t \notin poller[p].cbs => (Collected(t)' <=> Collected(t))
  BY <1>3, <1>4 DEF Collected
<1>8. fired' \in [Timers -> 0 .. 2]
  <2>1. \A t \in Timers : fired'[t] \in 0 .. 2
    BY <1>2, <1>5, <1>6
  <2>. QED BY <1>1, <2>1
<1>9. TypeOK'
  BY <1>1, <1>4, <1>8 DEF Inv, TimerInv, TypeOK, PollerType
<1>10. OnlyResetOrRaceForgets' /\ UndefinedNeedsGap' /\ Stages' /\ Starts'
  BY <1>1 DEF Inv, TimerInv, OnlyResetOrRaceForgets, UndefinedNeedsGap, Stages, Starts
<1>11. HandedOut'
  <2>1. \A t \in Timers \ Recurring : fired'[t] > 0 \/ Collected(t)' \/ t \in cancelled =>
          timer[t].stage = "shared" /\ ~timer[t].cb
    <3>1. \A t \in Timers \ Recurring : t \in poller[p].cbs => Collected(t)
      BY DEF Collected
    <3>. QED BY <1>6, <1>7, <3>1 DEF Inv, HandedOut
  <2>2. \A t \in Timers \ Recurring, q, r \in Pollers :
          t \in poller'[q].cbs /\ t \in poller'[r].cbs => q = r
    BY <1>3, <1>4 DEF Inv, HandedOut
  <2>3. \A q \in Pollers : poller'[q].pc # "drain" => poller'[q].cbs = {}
    BY <1>3, <1>4 DEF Inv, HandedOut
  <2>. QED BY <1>1, <2>1, <2>2, <2>3 DEF HandedOut
<1>12. OneShot'
  <2>. SUFFICES ASSUME NEW t \in Timers \ Recurring
                PROVE  /\ fired'[t] + (IF Collected(t)' THEN 1 ELSE 0) <= 1
                       /\ t \in cancelled => fired'[t] = 0 /\ ~Collected(t)'
    BY <1>1 DEF OneShot
  <2>1. CASE t \in poller[p].cbs
    BY <1>5, <2>1
  <2>2. CASE t \notin poller[p].cbs
    BY <1>6, <1>7, <2>2 DEF Inv, OneShot
  <2>. QED BY <2>1, <2>2
<1>. QED BY <1>9, <1>10, <1>11, <1>12 DEF Inv, TimerInv

LEMMA InitInv == Init => Inv
<1>. SUFFICES ASSUME Init PROVE Inv
  OBVIOUS
<1>1. Min(Timers) \in Timers
  BY MinOfNats, TimersAssumption
<1>2. TypeOK
  <2>1. 0 \in Instants /\ 0 \in 0 .. Horizon
    BY InstantsReach, DelaysAssumption
  <2>2. Free \in CallType /\ Looping \in PollerType
    BY <1>1, <2>1 DEF Free, Looping, CallType, PollerType
  <2>3. [stage |-> "unused", ms |-> 0, next |-> 0, cb |-> FALSE] \in TimerType
    BY <2>1 DEF TimerType
  <2>4. /\ timer \in [Timers -> TimerType] /\ call \in [Callers -> CallType]
        /\ poller \in [Pollers -> PollerType] /\ fired \in [Timers -> 0 .. 2]
    BY <2>2, <2>3 DEF Init
  <2>5. /\ now \in 0 .. Horizon /\ m_timers \subseteq Timers
        /\ tickled \in BOOLEAN /\ undefined \in BOOLEAN
        /\ cancelled \subseteq Timers /\ wasReset \subseteq Timers /\ lost \subseteq Timers
    BY <2>1 DEF Init
  <2>. QED BY <2>4, <2>5, TypeIs
<1>3. OnlyResetOrRaceForgets /\ UndefinedNeedsGap
  BY DEF Init, OnlyResetOrRaceForgets, UndefinedNeedsGap
<1>4. Stages /\ Starts
  BY DelaysAssumption DEF Init, Stages, Starts, Free
<1>5. HandedOut /\ OneShot
  BY DEF Init, HandedOut, OneShot, Collected, Looping
<1>. QED BY <1>2, <1>3, <1>4, <1>5 DEF Inv, TimerInv

LEMMA NextInv == Inv /\ [Next]_vars => Inv'
<1>. SUFFICES ASSUME Inv, [Next]_vars PROVE Inv'
  OBVIOUS
<1>1. CASE Over \/ UNCHANGED vars
  BY <1>1, TickInv DEF Over
<1>2. CASE Tick
  BY <1>2, TickInv
<1>3. ASSUME ~undefined, NEW c \in Callers, Step(c) PROVE Inv'
  BY <1>3, InsertInv, FlushTimerInv, RefreshInv DEF Step
<1>4. ASSUME ~undefined, NEW c \in Callers, NEW t \in Timers,
             \/ \E ms \in Delays : New(c, t, ms)
             \/ \E ms \in ResetDelays, b \in BOOLEAN : Reset(c, t, ms, b)
             \/ Cancel(c, t)
             \/ RefreshCheck(c, t)
      PROVE  Inv'
  BY <1>4, NewInv, ResetInv, CancelInv, RefreshCheckInv
<1>5. ASSUME ~undefined, NEW p \in Pollers, Idle(p) PROVE Inv'
  BY <1>5, ArmInv, ListCheckInv, ListExpiredCbInv, ScheduleExpiredInv DEF Idle
<1>6. ASSUME NEW p \in Pollers, NEW w \in {"tickle", "timeout", "fd"}, Wake(p, w) PROVE Inv'
  BY <1>6, WakeInv
<1>. QED BY <1>1, <1>2, <1>3, <1>4, <1>5, <1>6 DEF Next

LEMMA AlwaysInv == Spec => []Inv
  BY InitInv, NextInv, PTL DEF Spec

\* addTimer, cancel, refresh and listExpiredCb never lose a timer that may yet fire:
\* only reset(), which does not insert the timer again, and two insertions under
\* addTimer's shared lock do; and refresh() erases end() only for a timer that left
\* the set after its m_cb was looked at, or in one of those two ways.
THEOREM TimersKept == Spec => []TimerInv
<1>1. Inv => TimerInv
  BY DEF Inv
<1>. QED BY <1>1, AlwaysInv, PTL

\* cancel() and listExpiredCb() decide under m_mtx who has a one-shot timer's callback:
\* it is scheduled at most once, and never after cancel() has returned true.
THEOREM FiresOnce == Spec => []OneShot
<1>1. Inv => OneShot
  BY DEF Inv
<1>. QED BY <1>1, AlwaysInv, PTL

-----------------------------------------------------------------------------
(* Sleeping                                                                  *)

LEMMA InitSleep ==
    ASSUME Pollers # {}
    PROVE  Init => SleepsNoLongerThanFirst
  BY DEF Init, SleepsNoLongerThanFirst

\* A poller that is not asleep attends to every timer.
LEMMA AwakeSleep ==
    ASSUME NEW p \in Pollers, poller'[p].pc # "wait"
    PROVE  SleepsNoLongerThanFirst'
  BY DEF SleepsNoLongerThanFirst

LEMMA PollerSleep ==
    ASSUME Inv, SleepsNoLongerThanFirst, NEW p \in Pollers,
           Idle(p) \/ \E w \in {"tickle", "timeout", "fd"} : Wake(p, w)
    PROVE  SleepsNoLongerThanFirst'
<1>1. poller \in [Pollers -> PollerType] /\ timer \in [Timers -> TimerType] /\ m_timers \subseteq Timers
  BY TypeIs DEF Inv, TimerInv
<1>2. CASE Arm(p)
  <2>1. PICK r \in PollerType :
             /\ poller' = [poller EXCEPT ![p] = r]
             /\ poller[p].pc = "arm" /\ r.pc = "wait" /\ r.cbs = {}
             /\ \A t \in m_timers : r.blind \/ r.deadline <= timer[t].next
    BY <1>2, ArmStep
  <2>2. poller'[p] = r
    BY <1>1, <2>1
  <2>3. UNCHANGED <<m_timers, timer>>
    BY <1>2 DEF Arm
  <2>. QED BY <2>1, <2>2, <2>3 DEF SleepsNoLongerThanFirst
<1>3. ASSUME NEW w \in {"tickle", "timeout", "fd"}, Wake(p, w) PROVE SleepsNoLongerThanFirst'
  <2>1. poller'[p].pc = "check"
    BY <1>1, <1>3 DEF Wake, PollerType
  <2>. QED BY <2>1, AwakeSleep
<1>4. CASE ListCheck(p) \/ ListExpiredCb(p) \/ ScheduleExpired(p)
  <2>1. poller'[p].pc # "wait"
    <3>1. CASE ListCheck(p)
      BY <1>1, <3>1 DEF ListCheck, PollerType
    <3>2. CASE ListExpiredCb(p)
      BY <1>1, <3>2 DEF ListExpiredCb, PollerType
    <3>3. CASE ScheduleExpired(p)
      BY <1>1, <3>3 DEF ScheduleExpired, Looping
    <3>. QED BY <1>4, <3>1, <3>2, <3>3
  <2>. QED BY <2>1, AwakeSleep
<1>. QED BY <1>2, <1>3, <1>4 DEF Idle

LEMMA InsertSleep ==
    ASSUME Inv, SleepsNoLongerThanFirst, NEW c \in Callers, Insert(c)
    PROVE  SleepsNoLongerThanFirst'
<1>1. PICK t \in Timers, set \in SUBSET Timers, k \in CallType :
             /\ call[c].pc = "insert" /\ call[c].t = t
             /\ set \subseteq m_timers \cup {t} /\ t \in set
             /\ m_timers' = set /\ lost' = lost \cup (m_timers \ set)
             /\ k.pc = IF AtFront(t, set) THEN "flush" ELSE "free"
             /\ call' = [call EXCEPT ![c] = k]
             /\ timer' = [timer EXCEPT ![t].stage = "shared"]
             /\ UNCHANGED <<now, poller, tickled, undefined, fired, cancelled, wasReset>>
  BY InsertStep
<1>2. /\ call \in [Callers -> CallType] /\ timer \in [Timers -> TimerType] /\ poller \in [Pollers -> PollerType]
      /\ m_timers \subseteq Timers
  BY TypeIs DEF Inv, TimerInv
<1>3. call'[c] = k /\ \A d \in Callers : d # c => call'[d] = call[d]
  BY <1>1, <1>2
<1>4. \A s \in Timers : timer'[s].next = timer[s].next /\ timer[s].next \in Nat
  BY <1>1, <1>2, InstantsReach DEF TimerType
<1>5. CASE AtFront(t, set)
  <2>1. call'[c].pc = "flush"
    BY <1>1, <1>3, <1>5
  <2>. QED BY <2>1 DEF SleepsNoLongerThanFirst
<1>6. CASE ~AtFront(t, set)
  <2>1. PICK s \in set \ {t} : ~Before(t, s)
    BY <1>6 DEF AtFront
  <2>2. s \in m_timers /\ s \in Timers /\ timer[s].next <= timer[t].next
    BY <1>1, <1>4, <2>1 DEF Before
  <2>3. \A u \in set : \E v \in m_timers : v \in Timers /\ timer[v].next <= timer[u].next
    BY <1>1, <1>2, <1>4, <2>2
  <2>4. \A d \in Callers : call[d].pc = "flush" => call'[d].pc = "flush"
    BY <1>1, <1>3
  <2>5. \A p \in Pollers : poller[p].deadline \in Nat
    BY <1>2, InstantsReach DEF PollerType
  <2>. SUFFICES ASSUME NEW u \in set
                PROVE  \/ tickled'
                       \/ \E d \in Callers : call'[d].pc = "flush"
                       \/ \E p \in Pollers : \/ poller'[p].pc # "wait"
                                             \/ poller'[p].deadline <= timer'[u].next
                                             \/ poller'[p].blind
    BY <1>1 DEF SleepsNoLongerThanFirst
  <2>6. PICK v \in m_timers : v \in Timers /\ timer[v].next <= timer[u].next
    BY <2>3
  <2>7. \A p \in Pollers : poller[p].deadline <= timer[v].next => poller[p].deadline <= timer'[u].next
    BY <1>4, <2>5, <2>6
  <2>. QED BY <1>1, <2>4, <2>6, <2>7 DEF SleepsNoLongerThanFirst
<1>. QED BY <1>5, <1>6

LEMMA CallerSleep ==
    ASSUME Inv, SleepsNoLongerThanFirst, NEW c \in Callers, FlushTimer(c) \/ Refresh(c)
    PROVE  SleepsNoLongerThanFirst'
<1>1. CASE FlushTimer(c)
  BY <1>1 DEF FlushTimer, SleepsNoLongerThanFirst
<1>2. CASE Refresh(c)
  <2>1. call \in [Callers -> CallType]
    BY TypeIs DEF Inv, TimerInv
  <2>2. \A d \in Callers : call[d].pc = "flush" => call'[d].pc = "flush"
    BY <1>2, <2>1 DEF Refresh, CallType
  <2>3. UNCHANGED <<m_timers, timer, poller, tickled>>
    BY <1>2 DEF Refresh
  <2>. QED BY <2>2, <2>3 DEF SleepsNoLongerThanFirst
<1>. QED BY <1>1, <1>2

LEMMA UseSleep ==
    ASSUME Inv, SleepsNoLongerThanFirst, NEW c \in Callers, NEW t \in Timers,
           \/ \E ms \in Delays : New(c, t, ms)
           \/ \E ms \in ResetDelays, b \in BOOLEAN : Reset(c, t, ms, b)
           \/ Cancel(c, t)
           \/ RefreshCheck(c, t)
    PROVE  SleepsNoLongerThanFirst'
<1>1. call \in [Callers -> CallType] /\ timer \in [Timers -> TimerType] /\ m_timers \subseteq Timers
  BY TypeIs DEF Inv, TimerInv
<1>2. UNCHANGED <<poller, tickled>> /\ m_timers' \subseteq m_timers
  BY DEF New, Reset, Cancel, RefreshCheck
<1>3. \A d \in Callers : call[d].pc = "flush" => call'[d].pc = "flush"
  <2>1. CASE \E ms \in Delays : New(c, t, ms)
    BY <1>1, <2>1 DEF New
  <2>2. CASE RefreshCheck(c, t)
    BY <1>1, <2>2 DEF RefreshCheck, Usable
  <2>3. CASE UNCHANGED call
    BY <2>3
  <2>. QED BY <2>1, <2>2, <2>3 DEF Reset, Cancel
<1>4. \A s \in m_timers' : timer'[s].next = timer[s].next
  <2>1. ASSUME NEW ms \in Delays, New(c, t, ms) PROVE \A s \in m_timers' : timer'[s].next = timer[s].next
    <3>1. t \notin m_timers /\ m_timers' = m_timers
      BY <2>1 DEF New, Inv, Stages
    <3>. QED BY <1>1, <2>1, <3>1 DEF New
  <2>2. ASSUME NEW ms \in ResetDelays, NEW b \in BOOLEAN, Reset(c, t, ms, b)
        PROVE  \A s \in m_timers' : timer'[s].next = timer[s].next
    <3>1. m_timers' = m_timers \ {t} /\ \A s \in Timers : s # t => timer'[s] = timer[s]
      BY <1>1, <2>2 DEF Reset
    <3>. QED BY <1>1, <3>1
  <2>3. CASE Cancel(c, t)
    BY <1>1, <2>3 DEF Cancel, TimerType
  <2>4. CASE RefreshCheck(c, t)
    BY <2>4 DEF RefreshCheck
  <2>. QED BY <2>1, <2>2, <2>3, <2>4
<1>. QED BY <1>2, <1>3, <1>4 DEF SleepsNoLongerThanFirst

LEMMA NextSleep == Inv /\ SleepsNoLongerThanFirst /\ [Next]_vars => SleepsNoLongerThanFirst'
<1>. SUFFICES ASSUME Inv, SleepsNoLongerThanFirst, [Next]_vars PROVE SleepsNoLongerThanFirst'
  OBVIOUS
<1>1. CASE Tick \/ Over \/ UNCHANGED vars
  BY <1>1 DEF Tick, Over, vars, SleepsNoLongerThanFirst
<1>2. ASSUME NEW c \in Callers, Step(c) PROVE SleepsNoLongerThanFirst'
  BY <1>2, InsertSleep, CallerSleep DEF Step
<1>. QED BY <1>1, <1>2, UseSleep, PollerSleep DEF Next

\* addTimer's at_front, flushTimer() and the time-out that idle() computes fit together
\* for any number of callers and pollers: some poller is awake, wakes in time for the
\* first timer or is about to be tickled, even when insertions race -- unless it went to
\* sleep when a timer was due already, which getNextTimer() reports as none.
THEOREM SleepsInTime ==
    ASSUME Pollers # {}
    PROVE  Spec => []SleepsNoLongerThanFirst
<1>1. Init => SleepsNoLongerThanFirst
  BY InitSleep
<1>. QED BY <1>1, AlwaysInv, NextSleep, PTL DEF Spec
=============================================================================
