--------------------------- MODULE Objects_proofs ---------------------------
(***************************************************************************)
(* Proofs about the objects that threads share with few locks or none: a   *)
(* Thread, a ConcurrentVector, a ConfigVar, a Socket, a Logger, and the    *)
(* life of the Scheduler that owns the threads.                            *)
(***************************************************************************)
EXTENDS Thread, ConcurrentVector, Config, Socket, Logger, Scheduler, FiniteSetTheorems, SequenceTheorems, TLAPS

-----------------------------------------------------------------------------
(* Thread                                                                    *)

\* How far the constructor, the owner and the thread can be apart: the semaphore is up
\* exactly while the thread is set up and the constructor has not noticed.
ThreadStages ==
    /\ owner \in {"new", "assign", "wait", "owns", "join", "gone"}
    /\ body \in {"none", "start", "setup", "notify", "task", "run", "end"}
    /\ object \in [alive : BOOLEAN, assigned : BOOLEAN, running : BOOLEAN, id : BOOLEAN, sem : {0, 1}]
    /\ owner = "new" <=> body = "none"
    /\ owner \in {"owns", "join", "gone"} => body \in {"task", "run", "end"}
    /\ object.sem = 1 <=> owner \in {"assign", "wait"} /\ body \in {"task", "run", "end"}
    /\ object.id <=> body \in {"notify", "task", "run", "end"}

\* What the std::thread is at each of the owner's stages, and m_running beside it.
ThreadHandle ==
    /\ handle \in {"none", "joinable", "joined", "detached"}
    /\ owner \in {"assign", "wait"} => handle = "joinable"
    /\ owner \in {"assign", "wait"} /\ body # "start" => object.running
    /\ owner \in {"owns", "join"} =>
          handle \in {"joinable", "joined"} /\ (object.running <=> handle = "joinable")
    /\ owner = "gone" => handle \in {"joined", "detached"}
    /\ handle = "joined" => body = "end"

\* The thread meets a destroyed object only after detach().
ThreadObject ==
    /\ object.alive <=> owner # "gone"
    /\ dangling \in BOOLEAN
    /\ dangling => owner = "gone" /\ handle = "detached"
    /\ terminated = FALSE

ThreadIInv == ThreadStages /\ ThreadHandle /\ ThreadObject

\* What ThreadStages, ThreadHandle and ThreadObject say is kept by every step of the
\* constructor, the owner and the thread.
LEMMA ThreadStep == ThreadIInv /\ [ThreadNext]_threadVars => ThreadIInv'
<1> SUFFICES ASSUME ThreadIInv, [ThreadNext]_threadVars PROVE ThreadIInv'
  OBVIOUS
<1> USE DEF ThreadIInv, ThreadStages, ThreadHandle, ThreadObject
<1>1. CASE Spawn BY <1>1 DEF Spawn
<1>2. CASE Assign BY <1>2 DEF Assign
<1>3. CASE Constructed BY <1>3 DEF Constructed
<1>4. CASE JoinEnter BY <1>4 DEF JoinEnter
<1>5. CASE Join BY <1>5 DEF Join
<1>6. CASE Destroy BY <1>6 DEF Destroy
<1>7. CASE BodyStart BY <1>7 DEF BodyStart
<1>8. CASE Setup BY <1>8 DEF Setup
<1>9. CASE SemNotify BY <1>9 DEF SemNotify
<1>10. CASE RunTask BY <1>10 DEF RunTask
<1>11. CASE BodyEnd BY <1>11 DEF BodyEnd
<1>12. CASE UNCHANGED threadVars BY <1>12 DEF threadVars
<1> QED
  BY <1>1, <1>2, <1>3, <1>4, <1>5, <1>6, <1>7, <1>8, <1>9, <1>10, <1>11, <1>12 DEF ThreadNext

\* Thread: whoever has the object has its id and finds it running until join(); it can be
\* destroyed at any time, joined once, twice or never, and the thread uses it afterwards
\* only if it was detached.
THEOREM ThreadUsable == ThreadSpec => []ThreadInv
<1>1. ASSUME ThreadInit PROVE ThreadIInv
  <2> USE <1>1 DEF ThreadInit
  <2>1. ThreadStages BY DEF ThreadStages
  <2>2. ThreadHandle BY DEF ThreadHandle
  <2>3. ThreadObject BY DEF ThreadObject
  <2> QED BY <2>1, <2>2, <2>3 DEF ThreadIInv
<1>2. ThreadIInv => ThreadInv
  BY DEF ThreadIInv, ThreadStages, ThreadHandle, ThreadObject, ThreadInv,
         ReadyWhenConstructed, DestroyedSafely
<1> QED
  BY <1>1, <1>2, ThreadStep, PTL DEF ThreadSpec

-----------------------------------------------------------------------------
(* ConcurrentVector                                                          *)

\* The number of elements that push_back has counted and not yet appended
Pushing == {u \in VecUsers : vuser[u].op = "push"}

\* What a thread in the vector has, at each of its places.
VecUsersAt ==
    /\ size \in Nat /\ given \in Nat /\ elems \in Nat /\ vops \in Nat
    /\ locks \in Seq(BOOLEAN) /\ Len(locks) >= MtxSize
    /\ pushOverlap \in BOOLEAN
    /\ vuser \in [VecUsers -> [pc : {"out", "check", "choose", "lock", "access"},
                               op : {"none", "push", "get", "set"}, index : Nat, lock : Nat]]
    /\ \A u \in VecUsers :
          /\ vops = 0 => vuser[u].pc = "out"
          /\ (vuser[u].pc = "out") <=> (vuser[u].op = "none")
          /\ vuser[u].pc \in {"check", "choose"} => vuser[u].op = "push"
          /\ vuser[u].pc \in {"lock", "access"} => vuser[u].lock \in 1 .. Len(locks)
          /\ vuser[u].op \in {"get", "set"} => vuser[u].index < size

\* m_size runs ahead of the elements by what the constructor promised and what is being pushed.
VecCounted == IsFiniteSet(Pushing) /\ elems + given + Cardinality(Pushing) = size

\* A push_back that meets nobody is alone in the vector; until one meets somebody, the lock
\* of an index is the one its user has chosen.
VecAlone ==
    ~pushOverlap =>
        /\ \A u, w \in VecUsers : u # w /\ vuser[u].op = "push" => vuser[w].pc = "out"
        /\ \A u \in VecUsers : vuser[u].op \in {"get", "set"} =>
              vuser[u].lock = 1 + (vuser[u].index % Len(locks))

\* The locks exclude each other, shared ones do not.
VecExclusive ==
    \A u, w \in VecUsers :
        u # w /\ vuser[u].pc = "access" /\ vuser[w].pc = "access" /\ vuser[u].lock = vuser[w].lock =>
            vuser[u].op = "get" /\ vuser[w].op = "get"

\* A vector within the locks it was made with has no pointer without a lock.
VecLocks == given = 0 /\ size <= MtxSize * Granu => \A i \in 1 .. Len(locks) : locks[i]

VecIInv == VecUsersAt /\ VecCounted /\ VecAlone /\ VecExclusive /\ VecLocks

LEMMA MaxOfTwo ==
    ASSUME NEW a \in Nat, NEW b \in Nat
    PROVE  Max({a, b}) \in Nat /\ Max({a, b}) >= b
<1> DEFINE P(x) == x \in {a, b} /\ \A y \in {a, b} : x >= y
<1>1. \E x : P(x)
  <2>1. CASE a >= b
    <3>1. P(a) BY <2>1
    <3> QED BY <3>1
  <2>2. CASE b >= a
    <3>1. P(b) BY <2>2
    <3> QED BY <3>1
  <2> QED BY <2>1, <2>2
<1>2. P(CHOOSE x : P(x))
  <2> HIDE DEF P
  <2> QED BY <1>1
<1>3. Max({a, b}) = CHOOSE x : P(x)
  BY DEF Max
<1> QED
  BY <1>2, <1>3

\* A push_back in: one more is being pushed.
LEMMA PushEnters ==
    ASSUME NEW u \in VecUsers, VecUsersAt, VecCounted, vuser[u].pc = "out",
           vuser'[u].op = "push", \A w \in VecUsers \ {u} : vuser'[w] = vuser[w]
    PROVE  IsFiniteSet(Pushing') /\ Cardinality(Pushing') = Cardinality(Pushing) + 1
<1>1. Pushing' = Pushing \union {u} /\ u \notin Pushing
  BY DEF Pushing, VecUsersAt
<1> QED
  BY <1>1, FS_AddElement DEF VecCounted

\* A push_back out: one less is being pushed.
LEMMA PushLeaves ==
    ASSUME NEW u \in VecUsers, VecUsersAt, VecCounted, vuser[u].op = "push",
           vuser'[u].op = "none", \A w \in VecUsers \ {u} : vuser'[w] = vuser[w]
    PROVE  IsFiniteSet(Pushing') /\ Cardinality(Pushing') = Cardinality(Pushing) - 1
<1>1. Pushing' = Pushing \ {u} /\ u \in Pushing
  BY DEF Pushing, VecUsersAt
<1> QED
  BY <1>1, FS_RemoveElement DEF VecCounted

\* Cardinalities are numbers.
LEMMA PushingIsNat == ASSUME VecCounted PROVE Cardinality(Pushing) \in Nat
  BY FS_CardinalityType DEF VecCounted

LEMMA VecInitially == VectorInit => VecIInv
<1> SUFFICES ASSUME VectorInit PROVE VecIInv
  OBVIOUS
<1> USE VectorAssumption DEF VectorInit
<1>0. locks \in Seq(BOOLEAN) /\ Len(locks) = MtxSize
  OBVIOUS
<1>9. vuser \in [VecUsers -> [pc : {"out", "check", "choose", "lock", "access"},
                              op : {"none", "push", "get", "set"}, index : Nat, lock : Nat]]
  BY DEF Out
<1>10. \A u \in VecUsers : vuser[u].pc = "out" /\ vuser[u].op = "none"
  BY DEF Out
<1>1. VecUsersAt
  <2>1. /\ size \in Nat /\ given \in Nat /\ elems \in Nat /\ vops \in Nat
        /\ Len(locks) >= MtxSize
    BY <1>0
  <2>2. pushOverlap \in BOOLEAN
    OBVIOUS
  <2> HIDE DEF VectorInit
  <2> QED BY <1>0, <1>9, <1>10, <2>1, <2>2 DEF VecUsersAt
<1>2. VecCounted
  <2>1. Pushing = {} BY DEF Pushing, Out
  <2> QED BY <2>1, FS_EmptySet DEF VecCounted
<1>3. VecAlone /\ VecExclusive
  BY DEF VecAlone, VecExclusive, Out
<1>4. VecLocks
  BY DEF VecLocks
<1> QED
  BY <1>1, <1>2, <1>3, <1>4 DEF VecIInv

LEMMA VecConstruct ==
    ASSUME VecIInv, NEW n \in 1 .. MaxStart, Construct(n)
    PROVE  VecIInv'
<1> USE VectorAssumption
<1> DEFINE k == Max({n \div Granu, MtxSize})
<1>1. k \in Nat /\ k >= MtxSize
  <2>1. n \div Granu \in Nat OBVIOUS
  <2> QED BY <2>1, MaxOfTwo
<1>2. locks' = [i \in 1 .. k |-> TRUE] BY DEF Construct
<1> HIDE DEF k
<1>3. locks' \in Seq(BOOLEAN) /\ Len(locks') = k
  BY <1>1, <1>2
<1>0. /\ vops = 0 /\ vops' = 0 /\ size = 0 /\ size' = n /\ given' = n /\ elems' = elems
      /\ vuser' = vuser /\ pushOverlap' = pushOverlap
      /\ \A u \in VecUsers : vuser[u].pc = "out" /\ vuser[u].op = "none"
  BY DEF VecIInv, VecUsersAt, Construct
<1>4. VecUsersAt'
  BY <1>0, <1>1, <1>3 DEF VecIInv, VecUsersAt
<1>5. Pushing = {} /\ Pushing' = {}
  BY DEF Pushing, Construct, VecIInv, VecUsersAt
<1>6. VecCounted'
  <2>1. IsFiniteSet({}) /\ Cardinality({}) = 0 BY FS_EmptySet
  <2>2. given = 0 /\ elems = 0
    <3>1. elems + given + Cardinality(Pushing) = size BY DEF VecIInv, VecCounted
    <3>2. elems \in Nat /\ given \in Nat BY DEF VecIInv, VecUsersAt
    <3>3. elems + given + 0 = 0 BY <1>0, <1>5, <2>1, <3>1
    <3> QED BY <3>2, <3>3
  <2> QED
    BY <1>0, <1>5, <2>1, <2>2 DEF VecCounted
<1>7. VecAlone' /\ VecExclusive'
  BY DEF VecAlone, VecExclusive, VecIInv, VecUsersAt, Construct
<1>8. VecLocks'
  BY <1>2, <1>3 DEF VecLocks
<1> QED
  BY <1>4, <1>6, <1>7, <1>8 DEF VecIInv

LEMMA VecPush ==
    ASSUME VecIInv, NEW u \in VecUsers, Push(u)
    PROVE  VecIInv'
<1> USE VectorAssumption
<1> DEFINE r == [pc |-> "check", op |-> "push", index |-> size, lock |-> 0]
<1>1. /\ vuser[u].pc = "out" /\ vops' = vops + 1 /\ size' = size + 1
      /\ vuser' = [vuser EXCEPT ![u] = r]
      /\ pushOverlap' = (pushOverlap \/ Meets(u, "push"))
      /\ UNCHANGED <<given, elems, locks>>
  BY DEF Push, EnterVec
<1>2. /\ r \in [pc : {"out", "check", "choose", "lock", "access"},
               op : {"none", "push", "get", "set"}, index : Nat, lock : Nat]
      /\ r.pc = "check" /\ r.op = "push"
  BY DEF VecIInv, VecUsersAt
<1> HIDE DEF r
<1>3. vuser'[u] = r /\ \A w \in VecUsers \ {u} : vuser'[w] = vuser[w]
  BY <1>1 DEF VecIInv, VecUsersAt
<1>4. VecUsersAt'
  BY <1>1, <1>2, <1>3 DEF VecIInv, VecUsersAt
<1>5. VecCounted'
  <2>1. VecUsersAt /\ VecCounted BY DEF VecIInv
  <2>2. IsFiniteSet(Pushing') /\ Cardinality(Pushing') = Cardinality(Pushing) + 1
    BY <1>1, <1>2, <1>3, <2>1, PushEnters
  <2>3. Cardinality(Pushing) \in Nat BY <2>1, PushingIsNat
  <2>4. elems \in Nat /\ given \in Nat /\ elems + given + Cardinality(Pushing) = size
    BY <2>1 DEF VecCounted, VecUsersAt
  <2>5. elems' + given' + Cardinality(Pushing') = size'
    BY <1>1, <2>2, <2>3, <2>4
  <2> QED
    BY <2>2, <2>5 DEF VecCounted
<1>6. VecAlone'
  <2> SUFFICES ASSUME ~pushOverlap' PROVE VecAlone' BY DEF VecAlone
  <2>1. ~pushOverlap /\ \A w \in VecUsers \ {u} : vuser[w].pc = "out"
    BY <1>1 DEF Meets, Within, Inside, VecIInv, VecUsersAt
  <2> QED
    <3>1. ASSUME NEW v \in VecUsers, NEW w \in VecUsers, v # w, vuser'[v].op = "push"
          PROVE  vuser'[w].pc = "out"
      <4>1. CASE v = u BY <1>3, <2>1, <3>1, <4>1
      <4>2. CASE v # u BY <1>3, <2>1, <3>1, <4>2 DEF VecIInv, VecUsersAt
      <4> QED BY <4>1, <4>2
    <3>2. ASSUME NEW v \in VecUsers, vuser'[v].op \in {"get", "set"}
          PROVE  FALSE
      BY <1>2, <1>3, <2>1, <3>2 DEF VecIInv, VecUsersAt
    <3> QED BY <3>1, <3>2 DEF VecAlone
<1>7. VecExclusive'
  BY <1>1, <1>2, <1>3 DEF VecIInv, VecExclusive
<1>8. VecLocks'
  BY <1>1 DEF VecIInv, VecLocks, VecUsersAt
<1> QED
  BY <1>4, <1>5, <1>6, <1>7, <1>8 DEF VecIInv

LEMMA VecAccess ==
    ASSUME VecIInv, NEW u \in VecUsers, NEW op \in {"get", "set"}, NEW index \in Nat, Access(u, op, index)
    PROVE  VecIInv'
<1> USE VectorAssumption
<1> DEFINE r == [pc |-> "lock", op |-> op, index |-> index, lock |-> 1 + (index % Len(locks))]
<1>1. /\ vuser[u].pc = "out" /\ vops' = vops + 1 /\ index < size
      /\ vuser' = [vuser EXCEPT ![u] = r]
      /\ pushOverlap' = (pushOverlap \/ Meets(u, op))
      /\ UNCHANGED <<size, given, elems, locks>>
  BY DEF Access
<1>0. 1 + (index % Len(locks)) \in 1 .. Len(locks) /\ Len(locks) \in Nat
  BY DEF VecIInv, VecUsersAt
<1>2. /\ r \in [pc : {"out", "check", "choose", "lock", "access"},
               op : {"none", "push", "get", "set"}, index : Nat, lock : Nat]
      /\ r.pc = "lock" /\ r.op = op /\ r.index = index
      /\ r.lock = 1 + (r.index % Len(locks)) /\ r.lock \in 1 .. Len(locks)
  BY <1>0
<1> HIDE DEF r
<1>3. vuser'[u] = r /\ \A w \in VecUsers \ {u} : vuser'[w] = vuser[w]
  BY <1>1 DEF VecIInv, VecUsersAt
<1>4. VecUsersAt'
  BY <1>1, <1>2, <1>3 DEF VecIInv, VecUsersAt
<1>5. VecCounted'
  <2>1. Pushing' = Pushing
    BY <1>1, <1>2, <1>3 DEF Pushing, VecIInv, VecUsersAt
  <2> QED
    BY <1>1, <2>1 DEF VecIInv, VecCounted
<1>6. VecAlone'
  BY <1>1, <1>2, <1>3 DEF VecIInv, VecAlone, Meets, Within, Inside, VecUsersAt
<1>7. VecExclusive'
  BY <1>1, <1>2, <1>3 DEF VecIInv, VecExclusive
<1>8. VecLocks'
  BY <1>1 DEF VecIInv, VecLocks
<1> QED
  BY <1>4, <1>5, <1>6, <1>7, <1>8 DEF VecIInv

LEMMA VecCheckMtx ==
    ASSUME VecIInv, NEW u \in VecUsers, CheckMtx(u)
    PROVE  VecIInv'
<1> USE VectorAssumption
<1> DEFINE r == [vuser[u] EXCEPT !.pc = "choose"]
<1>1. /\ vuser[u].pc = "check"
      /\ vuser' = [vuser EXCEPT ![u] = r]
      /\ UNCHANGED <<size, given, elems, vops, pushOverlap>>
      /\ \/ size > Len(locks) * Granu /\ locks' = Append(locks, FALSE)
         \/ locks' = locks
  BY DEF CheckMtx
<1>2. /\ r \in [pc : {"out", "check", "choose", "lock", "access"},
               op : {"none", "push", "get", "set"}, index : Nat, lock : Nat]
      /\ r.pc = "choose" /\ r.op = "push" /\ vuser[u].op = "push"
  BY <1>1 DEF VecIInv, VecUsersAt
<1> HIDE DEF r
<1>3. vuser'[u] = r /\ \A w \in VecUsers \ {u} : vuser'[w] = vuser[w]
  BY <1>1 DEF VecIInv, VecUsersAt
<1>4. locks' \in Seq(BOOLEAN) /\ Len(locks') >= Len(locks) /\ Len(locks) \in Nat /\ Len(locks) >= MtxSize
  <2>1. locks \in Seq(BOOLEAN) /\ Len(locks) >= MtxSize BY DEF VecIInv, VecUsersAt
  <2>2. Append(locks, FALSE) \in Seq(BOOLEAN) /\ Len(Append(locks, FALSE)) = Len(locks) + 1
    BY <2>1
  <2>3. Len(locks) \in Nat BY <2>1
  <2>4. CASE locks' = locks BY <2>1, <2>3, <2>4
  <2>5. CASE locks' = Append(locks, FALSE) BY <2>1, <2>2, <2>3, <2>5
  <2> QED BY <1>1, <2>4, <2>5
<1>5. VecUsersAt'
  <2>1. vuser' \in [VecUsers -> [pc : {"out", "check", "choose", "lock", "access"},
                                op : {"none", "push", "get", "set"}, index : Nat, lock : Nat]]
    BY <1>1, <1>2 DEF VecIInv, VecUsersAt
  <2>2. vops # 0
    BY <1>1 DEF VecIInv, VecUsersAt
  <2> QED
    BY <1>1, <1>2, <1>3, <1>4, <2>1, <2>2 DEF VecIInv, VecUsersAt
<1>6. VecCounted'
  <2>1. Pushing' = Pushing
    BY <1>1, <1>2, <1>3 DEF Pushing, VecIInv, VecUsersAt
  <2> QED
    BY <1>1, <2>1 DEF VecIInv, VecCounted
<1>7. VecAlone'
  BY <1>1, <1>2, <1>3 DEF VecIInv, VecAlone, VecUsersAt
<1>8. VecExclusive'
  BY <1>1, <1>2, <1>3 DEF VecIInv, VecExclusive
<1>9. VecLocks'
  <2>1. CASE size > Len(locks) * Granu
    <3>1. Len(locks) * Granu >= MtxSize * Granu
      BY <1>4
    <3>2. size > MtxSize * Granu
      BY <1>4, <2>1, <3>1 DEF VecIInv, VecUsersAt
    <3> QED BY <1>1, <3>2 DEF VecLocks, VecIInv, VecUsersAt
  <2>2. CASE locks' = locks BY <1>1, <2>2 DEF VecLocks, VecIInv
  <2> QED BY <1>1, <2>1, <2>2
<1> QED
  BY <1>5, <1>6, <1>7, <1>8, <1>9 DEF VecIInv

LEMMA VecChooseLock ==
    ASSUME VecIInv, NEW u \in VecUsers, ChooseLock(u)
    PROVE  VecIInv'
<1> USE VectorAssumption
<1> DEFINE l == 1 + (size % Len(locks))
<1> DEFINE r == [vuser[u] EXCEPT !.pc = "lock", !.lock = l]
<1>0. l \in 1 .. Len(locks) /\ Len(locks) \in Nat
  BY DEF VecIInv, VecUsersAt
<1>1. /\ vuser[u].pc = "choose"
      /\ vuser' = [vuser EXCEPT ![u] = r]
      /\ UNCHANGED <<size, given, elems, locks, vops, pushOverlap>>
  BY DEF ChooseLock
<1>2. /\ r \in [pc : {"out", "check", "choose", "lock", "access"},
               op : {"none", "push", "get", "set"}, index : Nat, lock : Nat]
      /\ r.pc = "lock" /\ r.op = "push" /\ vuser[u].op = "push" /\ r.lock \in 1 .. Len(locks)
  <2>1. vuser[u] \in [pc : {"out", "check", "choose", "lock", "access"},
                      op : {"none", "push", "get", "set"}, index : Nat, lock : Nat]
    BY DEF VecIInv, VecUsersAt
  <2>2. vuser[u].op = "push"
    BY <1>1 DEF VecIInv, VecUsersAt
  <2> HIDE DEF l
  <2>3. l \in Nat BY <1>0
  <2>4. r \in [pc : {"out", "check", "choose", "lock", "access"},
               op : {"none", "push", "get", "set"}, index : Nat, lock : Nat]
    BY <2>1, <2>3
  <2>5. r.pc = "lock" /\ r.op = "push" /\ r.lock = l
    BY <2>1, <2>2
  <2> QED BY <1>0, <2>2, <2>4, <2>5
<1> HIDE DEF r
<1>3. vuser'[u] = r /\ \A w \in VecUsers \ {u} : vuser'[w] = vuser[w]
  BY <1>1 DEF VecIInv, VecUsersAt
<1>5. VecUsersAt'
  BY <1>1, <1>2, <1>3 DEF VecIInv, VecUsersAt
<1>6. VecCounted'
  <2>1. Pushing' = Pushing
    BY <1>1, <1>2, <1>3 DEF Pushing, VecIInv, VecUsersAt
  <2> QED
    BY <1>1, <2>1 DEF VecIInv, VecCounted
<1>7. VecAlone'
  BY <1>1, <1>2, <1>3 DEF VecIInv, VecAlone, VecUsersAt
<1>8. VecExclusive'
  BY <1>1, <1>2, <1>3 DEF VecIInv, VecExclusive
<1>9. VecLocks'
  BY <1>1 DEF VecLocks, VecIInv
<1> QED
  BY <1>5, <1>6, <1>7, <1>8, <1>9 DEF VecIInv

LEMMA VecLock ==
    ASSUME VecIInv, NEW u \in VecUsers, Lock(u)
    PROVE  VecIInv'
<1> USE VectorAssumption
<1> DEFINE r == [vuser[u] EXCEPT !.pc = "access"]
<1>1. /\ vuser[u].pc = "lock"
      /\ UNCHANGED <<size, given, elems, locks, vops, pushOverlap>>
      /\ \/ vuser' = vuser
         \/ /\ vuser' = [vuser EXCEPT ![u] = r]
            /\ \A w \in VecUsers : vuser[w].pc = "access" /\ vuser[w].lock = vuser[u].lock =>
                  vuser[u].op = "get" /\ vuser[w].op = "get"
  BY DEF Lock
<1>2. CASE vuser' = vuser
  BY <1>1, <1>2 DEF VecIInv, VecUsersAt, VecCounted, Pushing, VecAlone, VecExclusive, VecLocks
<1>3. CASE vuser' = [vuser EXCEPT ![u] = r] /\ vuser' # vuser
  <2>2. /\ r \in [pc : {"out", "check", "choose", "lock", "access"},
                 op : {"none", "push", "get", "set"}, index : Nat, lock : Nat]
        /\ r.pc = "access" /\ r.op = vuser[u].op /\ r.lock = vuser[u].lock /\ r.index = vuser[u].index
    BY <1>1 DEF VecIInv, VecUsersAt
  <2> HIDE DEF r
  <2>3. vuser'[u] = r /\ \A w \in VecUsers \ {u} : vuser'[w] = vuser[w]
    BY <1>3 DEF VecIInv, VecUsersAt
  <2>5. VecUsersAt'
    BY <1>1, <1>3, <2>2, <2>3 DEF VecIInv, VecUsersAt
  <2>6. VecCounted'
    <3>1. Pushing' = Pushing
      BY <2>2, <2>3 DEF Pushing, VecIInv, VecUsersAt
    <3> QED
      BY <1>1, <3>1 DEF VecIInv, VecCounted
  <2>7. VecAlone'
    <3> SUFFICES ASSUME ~pushOverlap' PROVE VecAlone' BY DEF VecAlone
    <3>1. \A w \in VecUsers : /\ vuser'[w].op = vuser[w].op /\ vuser'[w].index = vuser[w].index
                              /\ vuser'[w].lock = vuser[w].lock
                              /\ (vuser'[w].pc = "out") <=> (vuser[w].pc = "out")
      BY <1>1, <2>2, <2>3
    <3>2. ~pushOverlap /\ locks' = locks BY <1>1
    <3>3. /\ \A v, w \in VecUsers : v # w /\ vuser[v].op = "push" => vuser[w].pc = "out"
          /\ \A v \in VecUsers : vuser[v].op \in {"get", "set"} =>
                vuser[v].lock = 1 + (vuser[v].index % Len(locks))
      BY <3>2 DEF VecIInv, VecAlone
    <3>4. \A v, w \in VecUsers : v # w /\ vuser'[v].op = "push" => vuser'[w].pc = "out"
      BY <3>1, <3>3
    <3>5. ASSUME NEW v \in VecUsers, vuser'[v].op \in {"get", "set"}
          PROVE  vuser'[v].lock = 1 + (vuser'[v].index % Len(locks'))
      BY <3>1, <3>2, <3>3, <3>5
    <3> QED BY <3>4, <3>5 DEF VecAlone
  <2>8. VecExclusive'
    BY <1>1, <1>3, <2>2, <2>3 DEF VecIInv, VecExclusive
  <2>9. VecLocks'
    BY <1>1 DEF VecLocks, VecIInv
  <2> QED
    BY <2>5, <2>6, <2>7, <2>8, <2>9 DEF VecIInv
<1> QED
  BY <1>1, <1>2, <1>3

LEMMA VecTouch ==
    ASSUME VecIInv, NEW u \in VecUsers, Touch(u)
    PROVE  VecIInv'
<1> USE VectorAssumption
<1>1. /\ vuser[u].pc = "access"
      /\ vuser' = [vuser EXCEPT ![u] = Out]
      /\ elems' = IF vuser[u].op = "push" THEN elems + 1 ELSE elems
      /\ UNCHANGED <<size, given, locks, vops, pushOverlap>>
  BY DEF Touch
<1>2. /\ Out \in [pc : {"out", "check", "choose", "lock", "access"},
                 op : {"none", "push", "get", "set"}, index : Nat, lock : Nat]
      /\ Out.pc = "out" /\ Out.op = "none"
  BY DEF Out
<1>3. vuser'[u] = Out /\ \A w \in VecUsers \ {u} : vuser'[w] = vuser[w]
  BY <1>1 DEF VecIInv, VecUsersAt
<1>5. VecUsersAt'
  BY <1>1, <1>2, <1>3 DEF VecIInv, VecUsersAt
<1>6. VecCounted'
  <2>0. /\ VecUsersAt /\ VecCounted /\ elems \in Nat /\ given \in Nat
        /\ IsFiniteSet(Pushing) /\ elems + given + Cardinality(Pushing) = size
    BY DEF VecIInv, VecUsersAt, VecCounted
  <2>1. CASE vuser[u].op = "push"
    <3>1. IsFiniteSet(Pushing') /\ Cardinality(Pushing') = Cardinality(Pushing) - 1
      BY <1>2, <1>3, <2>0, <2>1, PushLeaves
    <3>2. Cardinality(Pushing) \in Nat BY <2>0, PushingIsNat
    <3>3. elems' + given' + Cardinality(Pushing') = size'
      BY <1>1, <2>0, <2>1, <3>1, <3>2
    <3> QED BY <3>1, <3>3 DEF VecCounted
  <2>2. CASE vuser[u].op # "push"
    <3>1. Pushing' = Pushing
      BY <1>2, <1>3, <2>2 DEF Pushing
    <3> QED BY <1>1, <2>0, <2>2, <3>1 DEF VecCounted
  <2> QED BY <2>1, <2>2
<1>7. VecAlone'
  BY <1>1, <1>2, <1>3 DEF VecIInv, VecAlone, VecUsersAt
<1>8. VecExclusive'
  BY <1>1, <1>2, <1>3 DEF VecIInv, VecExclusive
<1>9. VecLocks'
  BY <1>1 DEF VecLocks, VecIInv
<1> QED
  BY <1>5, <1>6, <1>7, <1>8, <1>9 DEF VecIInv

\* Nothing is wrong before a step (VectorNext asks for it), and what a step reports needs a
\* push_back that met somebody, a size given to the constructor, or too few locks.
LEMMA VecNewTrouble ==
    ASSUME VecIInv, VecIInv', VectorNext, trouble' # {}
    PROVE  pushOverlap' \/ given' > 0 \/ size' > MtxSize * Granu
<1> USE VectorAssumption
<1>0. trouble = {} BY DEF VectorNext
<1> SUFFICES ASSUME ~pushOverlap', given' = 0, size' <= MtxSize * Granu PROVE FALSE
  BY DEF VecIInv, VecUsersAt
<1>1. ASSUME NEW u \in VecUsers, CheckMtx(u) PROVE FALSE
  <2>1. Inside({"lock"}) # {} BY <1>0, <1>1 DEF CheckMtx
  <2>2. PICK w \in VecUsers : vuser[w].pc = "lock" BY <2>1 DEF Inside
  <2>3. ~pushOverlap /\ vuser[u].pc = "check" BY <1>1 DEF CheckMtx
  <2> QED BY <2>2, <2>3 DEF VecIInv, VecAlone, VecUsersAt
<1>2. ASSUME NEW u \in VecUsers, Lock(u) PROVE FALSE
  <2>1. ~locks[vuser[u].lock] /\ vuser[u].pc = "lock" BY <1>0, <1>2 DEF Lock
  <2>2. given = 0 /\ size <= MtxSize * Granu BY <1>2 DEF Lock
  <2> QED BY <2>1, <2>2 DEF VecIInv, VecLocks, VecUsersAt
<1>3. ASSUME NEW u \in VecUsers, Touch(u) PROVE FALSE
  <2>1. ~pushOverlap /\ given = 0 /\ vuser[u].pc = "access" BY <1>3 DEF Touch
  <2>2. ASSUME NEW w \in VecUsers, w # u, vuser[w].pc = "access"
        PROVE  /\ "push" \notin {vuser[u].op, vuser[w].op}
               /\ vuser[w].index = vuser[u].index => {vuser[u].op, vuser[w].op} = {"get"}
    <3>1. vuser[u].op # "push" /\ vuser[w].op # "push"
      BY <2>1, <2>2 DEF VecIInv, VecAlone, VecUsersAt
    <3>2. vuser[u].op \in {"get", "set"} /\ vuser[w].op \in {"get", "set"}
      BY <2>1, <2>2, <3>1 DEF VecIInv, VecUsersAt
    <3>3. ASSUME vuser[w].index = vuser[u].index PROVE vuser[u].op = "get" /\ vuser[w].op = "get"
      <4>1. vuser[w].lock = vuser[u].lock BY <2>1, <3>2, <3>3 DEF VecIInv, VecAlone
      <4> QED BY <2>1, <2>2, <4>1 DEF VecIInv, VecExclusive
    <3> QED BY <3>1, <3>3
  <2>3. vuser[u].op # "push" => vuser[u].index < elems
    <3> SUFFICES ASSUME vuser[u].op # "push" PROVE vuser[u].index < elems OBVIOUS
    <3>1. vuser[u].op \in {"get", "set"} BY <2>1 DEF VecIInv, VecUsersAt
    <3>2. Pushing = {}
      BY <2>1, <3>1 DEF Pushing, VecIInv, VecAlone, VecUsersAt
    <3>3. Cardinality(Pushing) = 0 BY <3>2, FS_EmptySet
    <3>4. elems = size BY <2>1, <3>3 DEF VecIInv, VecCounted, VecUsersAt
    <3> QED BY <3>1, <3>4 DEF VecIInv, VecUsersAt
  <2>4. vuser[u].index \in Nat /\ elems \in Nat BY DEF VecIInv, VecUsersAt
  <2>5. \A o \in {vuser[w] : w \in Inside({"access"}) \ {u}} :
           ~("push" \in {vuser[u].op, o.op} \/ (o.index = vuser[u].index /\ {vuser[u].op, o.op} # {"get"}))
    BY <2>2 DEF Inside
  <2>6. ~(vuser[u].op # "push" /\ vuser[u].index >= elems) BY <2>3, <2>4
  <2>7. trouble' = {} BY <1>0, <1>3, <2>5, <2>6 DEF Touch
  <2> QED BY <2>7
<1>4. ASSUME NEW n \in 1 .. MaxStart, Construct(n) PROVE FALSE
  BY <1>0, <1>4 DEF Construct
<1>5. ASSUME NEW u \in VecUsers, Push(u) \/ ChooseLock(u) PROVE FALSE
  BY <1>0, <1>5 DEF Push, ChooseLock
<1>6. ASSUME NEW u \in VecUsers, NEW op \in {"get", "set"}, NEW index, Access(u, op, index) PROVE FALSE
  BY <1>0, <1>6 DEF Access
<1> QED
  BY <1>1, <1>2, <1>3, <1>4, <1>5, <1>6 DEF VectorNext

LEMMA VecStep == VecIInv /\ VectorSound /\ [VectorNext]_vecVars => VecIInv' /\ VectorSound'
<1> SUFFICES ASSUME VecIInv, VectorSound, [VectorNext]_vecVars PROVE VecIInv' /\ VectorSound'
  OBVIOUS
<1>1. CASE VectorNext
  <2>1. VecIInv'
    <3>1. 0 .. size \subseteq Nat BY DEF VecIInv, VecUsersAt
    <3> QED
      BY <1>1, <3>1, VecConstruct, VecPush, VecAccess, VecCheckMtx, VecChooseLock, VecLock, VecTouch
      DEF VectorNext
  <2> QED BY <1>1, <2>1, VecNewTrouble DEF VectorSound
<1>2. CASE UNCHANGED vecVars
  BY <1>2 DEF vecVars, VecIInv, VecUsersAt, VecCounted, Pushing, VecAlone, VecExclusive, VecLocks, VectorSound
<1> QED
  BY <1>1, <1>2

\* ConcurrentVector: an operation races, reads past the end or locks through a null pointer
\* only if a push_back met another operation, the constructor was given a size, or the
\* vector outgrew its first locks; and m_size counts the elements whenever nobody is at work.
THEOREM VectorSafe == VectorSpec => []VectorInv
<1>1. VectorInit => VecIInv /\ VectorSound
  BY VecInitially DEF VectorInit, VectorSound
<1>2. ASSUME VecIInv, VectorSound PROVE VectorInv
  <2>1. ASSUME Within = {} PROVE elems + given = size
    <3>1. Pushing = {} BY <1>2, <2>1 DEF Pushing, Within, Inside, VecIInv, VecUsersAt
    <3>2. Cardinality(Pushing) = 0 BY <3>1, FS_EmptySet
    <3> QED BY <1>2, <3>2 DEF VecIInv, VecCounted, VecUsersAt
  <2> QED BY <1>2, <2>1 DEF VectorInv, ElementsCounted
<1> QED
  BY <1>1, <1>2, VecStep, PTL DEF VectorSpec

-----------------------------------------------------------------------------
(* Config                                                                    *)

ConfigPlace == [pc : {"rest", "read", "walk"}, v : ConfigValues \union {Bad}, at : Nat,
                load : BOOLEAN, alone : BOOLEAN]

\* The ids of listeners are those that have been given out; nothing walks, and nobody
\* listens to, a parameter that is not registered.
ConfigTypes ==
    /\ var \in [made : BOOLEAN, val : ConfigValues \union {Bad}]
    /\ lastId \in Nat /\ DOMAIN view \subseteq 1 .. lastId
    /\ setting \in [ConfigUsers -> ConfigPlace]
    /\ file.content \in ConfigValues \union {Bad}
    /\ torn \in BOOLEAN /\ excused \in BOOLEAN
    /\ ~var.made => var.val = Default /\ Walking = {} /\ DOMAIN view = {}

\* A walk that has met no other is the only one; one that has met another has torn things.
AloneInWalk ==
    \A u \in Walking :
        /\ setting[u].alone => Walking = {u}
        /\ ~setting[u].alone => torn

\* A lone walk has told its value to every listener up to its place.
ToldSoFar ==
    ~configRace =>
        \A u \in Walking : setting[u].alone =>
            \A c \in DOMAIN view : c <= setting[u].at => view[c] = setting[u].v

\* If the file would be skipped and nothing is excused, a thread is about to read it, or
\* every walk carries its value and without a walk the parameter has it.
FileApplied ==
    ~excused /\ recorded = file.mtime =>
        \/ \E u \in ConfigUsers : setting[u].pc = "read"
        \/ /\ \A u \in Walking : setting[u].load /\ setting[u].v = file.content
           /\ Walking = {} => var.made /\ var.val = file.content

ConfigIInv == ConfigTypes /\ AloneInWalk /\ ToldSoFar /\ ListenersAgree /\ FileApplied

LEMMA DefaultIsValue == Default \in ConfigValues
  BY ConfigAssumption DEF Default

LEMMA LeastId ==
    ASSUME NEW S, S \subseteq Nat, S # {}
    PROVE  Min(S) \in S /\ \A n \in S : Min(S) <= n
<1>1. PICK x \in S : \A y \in S : ~(<<y, x>> \in OpToRel(<, Nat))
  BY NatLessThanWellFounded, WFMin
<1>2. \A y \in S : x <= y
  <2>. SUFFICES ASSUME NEW y \in S, ~(x <= y) PROVE FALSE
    OBVIOUS
  <2>1. x \in Nat /\ y \in Nat /\ y < x
    OBVIOUS
  <2>2. <<y, x>> \in {ss \in Nat \X Nat : ss[1] < ss[2]}
    BY <2>1
  <2>. QED BY <1>1, <2>2 DEF OpToRel
<1>. QED BY <1>2 DEF Min

LEMMA ConfigInitially == ConfigInit => ConfigIInv
<1> SUFFICES ASSUME ConfigInit PROVE ConfigIInv
  OBVIOUS
<1>1. AtRest \in ConfigPlace /\ AtRest.pc = "rest"
  BY DefaultIsValue DEF AtRest, ConfigPlace
<1>2. \A u \in ConfigUsers : setting[u] = AtRest
  BY DEF ConfigInit
<1>3. Walking = {}
  BY <1>1, <1>2 DEF Walking
<1>4. DOMAIN view = {} /\ recorded # file.mtime
  BY DEF ConfigInit
<1>5. ConfigTypes
  BY <1>1, <1>2, <1>3, <1>4, DefaultIsValue DEF ConfigInit, ConfigTypes
<1>6. AloneInWalk /\ ToldSoFar /\ ListenersAgree /\ FileApplied
  BY <1>3, <1>4 DEF AloneInWalk, ToldSoFar, ListenersAgree, FileApplied
<1> QED
  BY <1>5, <1>6 DEF ConfigIInv

\* Lookup, addListener, delListener and the file's clock leave setValue alone.
LEMMA ConfigCalm ==
    ASSUME ConfigIInv, ~configRace,
           Lookup \/ AddListener \/ Second \/ (\E gone \in SUBSET DOMAIN view : DelListeners(gone))
    PROVE  ConfigIInv'
<1>1. CASE Lookup
  <2>1. /\ ~var.made /\ var' = [made |-> TRUE, val |-> Default] /\ var.val = Default
        /\ UNCHANGED <<view, lastId, setting, file, recorded, configRace, torn, excused>>
        /\ DOMAIN view = {} /\ Walking = {}
    BY <1>1 DEF Lookup, ConfigIInv, ConfigTypes
  <2>2. Walking' = Walking BY <2>1 DEF Walking
  <2>3. ConfigTypes'
    BY <2>1, <2>2, DefaultIsValue DEF ConfigIInv, ConfigTypes
  <2>4. AloneInWalk' /\ ToldSoFar' /\ ListenersAgree'
    BY <2>1, <2>2 DEF AloneInWalk, ToldSoFar, ListenersAgree
  <2>5. FileApplied'
    BY <2>1, <2>2 DEF ConfigIInv, FileApplied
  <2> QED BY <2>3, <2>4, <2>5 DEF ConfigIInv
<1>2. CASE AddListener
  <2>1. /\ var.made /\ lastId' = lastId + 1 /\ configRace' = (Walking # {})
        /\ view' = [c \in DOMAIN view \union {lastId + 1} |-> IF c \in DOMAIN view THEN view[c] ELSE var.val]
        /\ UNCHANGED <<var, setting, file, recorded, torn, excused>>
    BY <1>2 DEF AddListener
  <2>2. Walking' = Walking BY <2>1 DEF Walking
  <2>3. ConfigTypes'
    BY <2>1, <2>2 DEF ConfigIInv, ConfigTypes
  <2>4. AloneInWalk' /\ ToldSoFar' /\ ListenersAgree'
    BY <2>1, <2>2 DEF ConfigIInv, AloneInWalk, ToldSoFar, ListenersAgree
  <2>5. FileApplied'
    BY <2>1, <2>2 DEF ConfigIInv, FileApplied
  <2> QED BY <2>3, <2>4, <2>5 DEF ConfigIInv
<1>3. CASE Second
  <2>1. UNCHANGED <<var, view, lastId, setting, file, recorded, configRace, torn, excused>>
    BY <1>3 DEF Second
  <2> QED BY <2>1 DEF ConfigIInv, ConfigTypes, Walking, AloneInWalk, ToldSoFar, ListenersAgree, FileApplied
<1>4. ASSUME NEW gone \in SUBSET DOMAIN view, DelListeners(gone) PROVE ConfigIInv'
  <2>1. /\ configRace' = (Walking # {})
        /\ view' = [c \in DOMAIN view \ gone |-> view[c]]
        /\ UNCHANGED <<var, lastId, setting, file, recorded, torn, excused>>
    BY <1>4 DEF DelListeners
  <2>2. Walking' = Walking BY <2>1 DEF Walking
  <2>3. ConfigTypes'
    BY <2>1, <2>2 DEF ConfigIInv, ConfigTypes
  <2>4. AloneInWalk' /\ ToldSoFar' /\ ListenersAgree'
    BY <2>1, <2>2 DEF ConfigIInv, AloneInWalk, ToldSoFar, ListenersAgree
  <2>5. FileApplied'
    BY <2>1, <2>2 DEF ConfigIInv, FileApplied
  <2> QED BY <2>3, <2>4, <2>5 DEF ConfigIInv
<1> QED
  BY <1>1, <1>2, <1>3, <1>4

\* setValue up to its loop, of the application or of a load that has read the file.
LEMMA ConfigEnters ==
    ASSUME ConfigIInv, NEW u \in ConfigUsers, NEW v \in ConfigValues, NEW load \in BOOLEAN,
           Enters(u, v, load), var.made, setting[u].pc # "walk", load => v = file.content,
           UNCHANGED <<var, view, lastId, file, recorded, configRace>>
    PROVE  ConfigIInv'
<1>0. AtRest \in ConfigPlace /\ AtRest.pc = "rest"
  BY DefaultIsValue DEF AtRest, ConfigPlace
<1>1. /\ torn' = (torn \/ (v # var.val /\ Walking # {}))
      /\ excused' = IF load /\ v = var.val /\ v = file.content /\ Walking = {} THEN FALSE
                    ELSE excused \/ ~load \/ Walking # {}
  BY DEF Enters
<1>2. ~excused' => load /\ v = file.content /\ Walking = {}
  BY <1>1
<1>3. CASE v = var.val
  <2>1. /\ DOMAIN setting' = ConfigUsers
        /\ setting'[u] = AtRest /\ \A w \in ConfigUsers \ {u} : setting'[w] = setting[w]
        /\ setting' = [w \in ConfigUsers |-> IF w = u THEN AtRest ELSE setting[w]]
    BY <1>3 DEF Enters
  <2>2. Walking' = Walking
    BY <1>0, <2>1 DEF Walking
  <2>3. u \notin Walking BY DEF Walking
  <2>4. ConfigTypes'
    <3>1. setting' \in [ConfigUsers -> ConfigPlace] BY <1>0, <2>1 DEF ConfigIInv, ConfigTypes
    <3>2. torn' \in BOOLEAN /\ excused' \in BOOLEAN BY <1>1 DEF ConfigIInv, ConfigTypes
    <3> QED BY <2>2, <3>1, <3>2 DEF ConfigIInv, ConfigTypes
  <2>5. torn' = torn BY <1>1, <1>3 DEF ConfigIInv, ConfigTypes
  <2>6. \A w \in Walking : w \in ConfigUsers /\ setting'[w] = setting[w]
    BY <2>1, <2>3 DEF Walking
  <2>7. AloneInWalk' BY <2>2, <2>5, <2>6 DEF ConfigIInv, AloneInWalk
  <2>8. ToldSoFar' BY <2>2, <2>6 DEF ConfigIInv, ToldSoFar
  <2>9. ListenersAgree' BY <2>2, <2>5 DEF ConfigIInv, ListenersAgree
  <2>10. FileApplied' BY <1>2, <1>3, <2>2 DEF FileApplied
  <2> QED BY <2>4, <2>7, <2>8, <2>9, <2>10 DEF ConfigIInv
<1>4. CASE v # var.val
  <2> DEFINE r == [pc |-> "walk", v |-> v, at |-> 0, load |-> load, alone |-> Walking = {}]
  <2>1. r \in ConfigPlace /\ r.pc = "walk" /\ r.v = v /\ r.at = 0 /\ r.load = load /\ (r.alone <=> Walking = {})
    BY DEF ConfigPlace
  <2>2. setting' = [w \in ConfigUsers |-> IF w = u THEN r
                                          ELSE [setting[w] EXCEPT !.alone = @ /\ w \notin Walking]]
    BY <1>4 DEF Enters
  <2> HIDE DEF r
  <2>3. ASSUME NEW w \in ConfigUsers, w # u
        PROVE  /\ setting'[w] \in ConfigPlace /\ setting'[w].pc = setting[w].pc
               /\ w \in Walking => ~setting'[w].alone
    <3>1. setting'[w] = [setting[w] EXCEPT !.alone = setting[w].alone /\ w \notin Walking]
      BY <2>2, <2>3
    <3>2. setting[w] \in ConfigPlace BY DEF ConfigIInv, ConfigTypes
    <3>3. (setting[w].alone /\ w \notin Walking) \in BOOLEAN BY <3>2 DEF ConfigPlace
    <3> QED BY <3>1, <3>2, <3>3 DEF ConfigPlace
  <2>4. setting'[u] = r BY <2>2
  <2>5. Walking' = Walking \union {u}
    BY <2>1, <2>3, <2>4 DEF Walking
  <2>6. ConfigTypes'
    <3>1. setting' \in [ConfigUsers -> ConfigPlace] BY <2>1, <2>2, <2>3, <2>4
    <3>2. torn' \in BOOLEAN /\ excused' \in BOOLEAN BY <1>1 DEF ConfigIInv, ConfigTypes
    <3> QED BY <3>1, <3>2 DEF ConfigIInv, ConfigTypes
  <2>7. Walking # {} => torn' BY <1>1, <1>4
  <2>8. \A w \in Walking : w \in ConfigUsers /\ w # u BY DEF Walking
  <2>9. \A w \in Walking : ~setting'[w].alone BY <2>3, <2>8
  <2>10. AloneInWalk'
    <3> SUFFICES ASSUME NEW w \in Walking'
                 PROVE  (setting'[w].alone => Walking' = {w}) /\ (~setting'[w].alone => torn')
      BY DEF AloneInWalk
    <3>1. CASE w = u BY <2>1, <2>4, <2>5, <2>7, <3>1
    <3>2. CASE w \in Walking BY <2>7, <2>9, <3>2
    <3> QED BY <2>5, <3>1, <3>2
  <2>11. ToldSoFar'
    <3> SUFFICES ASSUME NEW w \in Walking', setting'[w].alone, NEW c \in DOMAIN view, c <= setting'[w].at
                 PROVE  FALSE
      BY DEF ToldSoFar
    <3>1. w = u BY <2>5, <2>9
    <3>2. c >= 1 /\ c \in Nat BY DEF ConfigIInv, ConfigTypes
    <3> QED BY <2>1, <2>4, <3>1, <3>2
  <2>12. ListenersAgree' BY <2>5 DEF ListenersAgree
  <2>13. FileApplied' BY <1>2, <2>1, <2>4, <2>5 DEF FileApplied
  <2> QED BY <2>6, <2>10, <2>11, <2>12, <2>13 DEF ConfigIInv
<1> QED
  BY <1>3, <1>4

\* A listener is told, or throws.
LEMMA ConfigNotify ==
    ASSUME ConfigIInv, NEW u \in ConfigUsers, Notify(u)
    PROVE  ConfigIInv'
<1> DEFINE ahead == {c \in DOMAIN view : c > setting[u].at}
<1>0. /\ setting[u].pc = "walk" /\ u \in Walking /\ ahead # {} /\ var.made
      /\ UNCHANGED <<var, lastId, file, recorded, configRace>>
  BY DEF Notify, Walking, ConfigIInv, ConfigTypes
<1>1. CASE /\ setting' = [setting EXCEPT ![u].at = Min(ahead)]
           /\ view' = [view EXCEPT ![Min(ahead)] = setting[u].v]
           /\ UNCHANGED <<torn, excused>>
  <2>0. ahead \subseteq Nat BY DEF ConfigIInv, ConfigTypes
  <2>1. Min(ahead) \in ahead /\ \A c \in ahead : Min(ahead) <= c BY <1>0, <2>0, LeastId
  <2>2. PICK k \in Nat : k = Min(ahead) BY <2>0, <2>1
  <2>3. setting[u] \in ConfigPlace BY DEF ConfigIInv, ConfigTypes
  <2> DEFINE r == [setting[u] EXCEPT !.at = k]
  <2>4. /\ r \in ConfigPlace /\ r.pc = "walk" /\ r.v = setting[u].v /\ r.at = k
        /\ r.load = setting[u].load /\ r.alone = setting[u].alone
    BY <1>0, <2>3 DEF ConfigPlace
  <2>5. setting' = [setting EXCEPT ![u] = r] BY <1>1, <2>2
  <2> HIDE DEF r
  <2>6. setting'[u] = r /\ \A w \in ConfigUsers \ {u} : setting'[w] = setting[w]
    BY <2>5 DEF ConfigIInv, ConfigTypes
  <2>7. Walking' = Walking BY <1>0, <2>4, <2>6 DEF Walking
  <2>8. DOMAIN view' = DOMAIN view /\ view'[k] = setting[u].v /\ k \in DOMAIN view
        /\ \A c \in DOMAIN view : c # k => view'[c] = view[c]
    BY <1>1, <2>1, <2>2
  <2>9. ConfigTypes'
    <3>1. setting' \in [ConfigUsers -> ConfigPlace] BY <2>4, <2>5 DEF ConfigIInv, ConfigTypes
    <3> QED BY <1>0, <1>1, <2>7, <2>8, <3>1 DEF ConfigIInv, ConfigTypes
  <2>10. \A w \in ConfigUsers : /\ setting'[w].alone = setting[w].alone
                                /\ setting'[w].load = setting[w].load
                                /\ setting'[w].v = setting[w].v
                                /\ setting'[w].pc = setting[w].pc
    BY <1>0, <2>4, <2>6
  <2>11. \A w \in Walking : w \in ConfigUsers BY DEF Walking
  <2>12. AloneInWalk' BY <1>1, <2>7, <2>10, <2>11 DEF ConfigIInv, AloneInWalk
  <2>13. ToldSoFar'
    <3> SUFFICES ASSUME ~configRace, NEW w \in Walking, setting[w].alone, NEW c \in DOMAIN view, c <= setting'[w].at
                 PROVE  view'[c] = setting'[w].v
      BY <1>0, <2>7, <2>8, <2>10, <2>11 DEF ToldSoFar
    <3>1. w = u BY <1>0 DEF ConfigIInv, AloneInWalk
    <3>2. c \in Nat /\ setting[u].at \in Nat BY <2>3 DEF ConfigIInv, ConfigTypes, ConfigPlace
    <3>3. CASE c = k BY <2>4, <2>6, <2>8, <3>1, <3>3
    <3>4. CASE c # k
      <4>1. c \notin ahead BY <2>1, <2>2, <2>4, <2>6, <3>1, <3>2, <3>4
      <4>2. c <= setting[u].at BY <3>2, <4>1
      <4> QED BY <1>0, <2>8, <2>10, <3>1, <3>4, <4>2 DEF ConfigIInv, ToldSoFar
    <3> QED BY <3>3, <3>4
  <2>14. ListenersAgree' BY <1>0, <2>7 DEF ListenersAgree
  <2>15. FileApplied' BY <1>0, <1>1, <2>7, <2>10, <2>11 DEF ConfigIInv, FileApplied
  <2> QED BY <2>9, <2>12, <2>13, <2>14, <2>15 DEF ConfigIInv
<1>2. CASE /\ setting' = [setting EXCEPT ![u] = AtRest]
           /\ torn' = TRUE /\ excused' = TRUE
           /\ UNCHANGED view
  <2>0. AtRest \in ConfigPlace /\ AtRest.pc = "rest"
    BY DefaultIsValue DEF AtRest, ConfigPlace
  <2>1. setting'[u] = AtRest /\ \A w \in ConfigUsers \ {u} : setting'[w] = setting[w]
    BY <1>2 DEF ConfigIInv, ConfigTypes
  <2>2. Walking' = Walking \ {u} BY <2>0, <2>1 DEF Walking
  <2>3. setting' \in [ConfigUsers -> ConfigPlace] BY <1>2, <2>0 DEF ConfigIInv, ConfigTypes
  <2>4. ConfigTypes' BY <1>0, <1>2, <2>3 DEF ConfigIInv, ConfigTypes
  <2>5. \A w \in Walking' : w \in Walking /\ w \in ConfigUsers /\ setting'[w] = setting[w]
    BY <2>1, <2>2 DEF Walking
  <2>6. AloneInWalk' /\ ToldSoFar' BY <1>0, <1>2, <2>2, <2>5 DEF ConfigIInv, AloneInWalk, ToldSoFar
  <2>7. ListenersAgree' /\ FileApplied' BY <1>2 DEF ListenersAgree, FileApplied
  <2> QED BY <2>4, <2>6, <2>7 DEF ConfigIInv
<1> QED
  BY <1>1, <1>2 DEF Notify

\* m_val = v
LEMMA ConfigStore ==
    ASSUME ConfigIInv, NEW u \in ConfigUsers, Store(u)
    PROVE  ConfigIInv'
<1>0. /\ setting[u].pc = "walk" /\ u \in Walking /\ \A c \in DOMAIN view : c <= setting[u].at
      /\ setting' = [setting EXCEPT ![u] = AtRest]
      /\ torn' = ~setting[u].alone
      /\ excused' = (excused /\ ~(setting[u].load /\ setting[u].v = file.content /\ setting[u].alone))
      /\ UNCHANGED <<view, lastId, file, recorded, configRace>>
  BY DEF Store, Walking
<1>1. AtRest \in ConfigPlace /\ AtRest.pc = "rest"
  BY DefaultIsValue DEF AtRest, ConfigPlace
<1>2. setting[u] \in ConfigPlace BY DEF ConfigIInv, ConfigTypes
<1>3. var.made /\ var' \in [made : BOOLEAN, val : ConfigValues \union {Bad}]
      /\ var'.made /\ var'.val = setting[u].v
  <2>1. var.made BY <1>0 DEF ConfigIInv, ConfigTypes
  <2>2. setting[u].v \in ConfigValues \union {Bad} BY <1>2 DEF ConfigPlace
  <2>3. var' = [var EXCEPT !.val = setting[u].v] BY DEF Store
  <2> QED BY <2>1, <2>2, <2>3 DEF ConfigIInv, ConfigTypes
<1>4. setting'[u] = AtRest /\ \A w \in ConfigUsers \ {u} : setting'[w] = setting[w]
  BY <1>0 DEF ConfigIInv, ConfigTypes
<1>5. Walking' = Walking \ {u} BY <1>1, <1>4 DEF Walking
<1>6. \A w \in Walking' : w \in Walking /\ w \in ConfigUsers /\ setting'[w] = setting[w] /\ w # u
  BY <1>4, <1>5 DEF Walking
<1>7. ConfigTypes'
  <2>1. setting' \in [ConfigUsers -> ConfigPlace] BY <1>0, <1>1 DEF ConfigIInv, ConfigTypes
  <2>2. torn' \in BOOLEAN /\ excused' \in BOOLEAN BY <1>0
  <2> QED BY <1>0, <1>3, <2>1, <2>2 DEF ConfigIInv, ConfigTypes
<1>8. setting[u].alone => Walking' = {}
  BY <1>0, <1>5 DEF ConfigIInv, AloneInWalk
<1>9. \A w \in Walking' : ~setting[w].alone
  BY <1>0, <1>6 DEF ConfigIInv, AloneInWalk
<1>10. AloneInWalk' BY <1>0, <1>6, <1>8, <1>9 DEF AloneInWalk
<1>11. ToldSoFar' BY <1>6, <1>9 DEF ToldSoFar
<1>12. ListenersAgree'
  BY <1>0, <1>3 DEF ConfigIInv, ListenersAgree, ToldSoFar
<1>13. FileApplied'
  <2> SUFFICES ASSUME ~excused', recorded = file.mtime PROVE FileApplied'
    BY <1>0 DEF FileApplied
  <2>1. CASE ~excused
    <3>1. CASE \E w \in ConfigUsers : setting[w].pc = "read"
      <4>1. PICK w \in ConfigUsers : setting[w].pc = "read" BY <3>1
      <4>2. setting'[w].pc = "read" BY <1>0, <1>4, <4>1
      <4> QED BY <4>2 DEF FileApplied
    <3>2. CASE \A w \in Walking : setting[w].load /\ setting[w].v = file.content
      <4>1. var'.made /\ var'.val = file.content BY <1>0, <1>3, <3>2
      <4> QED BY <1>0, <1>6, <3>2, <4>1 DEF FileApplied
    <3> QED BY <2>1, <3>1, <3>2 DEF ConfigIInv, FileApplied
  <2>2. CASE excused
    <3>1. setting[u].v = file.content /\ setting[u].alone BY <1>0, <2>2
    <3> QED BY <1>0, <1>3, <1>8, <3>1 DEF FileApplied
  <2> QED BY <2>1, <2>2 DEF ConfigIInv, ConfigTypes
<1> QED
  BY <1>7, <1>10, <1>11, <1>12, <1>13 DEF ConfigIInv

\* A thread that rests or reads becomes one that reads or rests.
LEMMA ConfigPcChange ==
    ASSUME ConfigIInv, NEW u \in ConfigUsers, setting[u].pc # "walk", NEW r \in ConfigPlace, r.pc # "walk",
           setting' = [setting EXCEPT ![u] = r], UNCHANGED <<var, view, lastId, file, configRace, torn>>,
           excused' \in BOOLEAN
    PROVE  ConfigTypes' /\ AloneInWalk' /\ ToldSoFar' /\ ListenersAgree' /\ setting'[u] = r
<1>1. setting'[u] = r /\ \A w \in ConfigUsers \ {u} : setting'[w] = setting[w]
  BY DEF ConfigIInv, ConfigTypes
<1>2. Walking' = Walking BY <1>1 DEF Walking
<1>3. \A w \in Walking : w \in ConfigUsers /\ setting'[w] = setting[w] BY <1>1 DEF Walking
<1>4. setting' \in [ConfigUsers -> ConfigPlace] BY DEF ConfigIInv, ConfigTypes
<1>5. ConfigTypes' BY <1>2, <1>4 DEF ConfigIInv, ConfigTypes
<1>6. AloneInWalk' /\ ToldSoFar' /\ ListenersAgree'
  BY <1>2, <1>3 DEF ConfigIInv, AloneInWalk, ToldSoFar, ListenersAgree
<1> QED
  BY <1>1, <1>5, <1>6

LEMMA ConfigLoads ==
    ASSUME ConfigIInv, NEW u \in ConfigUsers, LoadRead(u) \/ (\E force \in BOOLEAN : LoadStat(u, force))
    PROVE  ConfigIInv'
<1>1. CASE LoadRead(u)
  <2>0. setting[u].pc = "read" /\ UNCHANGED <<var, view, lastId, file, recorded, configRace>>
    BY <1>1 DEF LoadRead
  <2>1. CASE file.content = Bad \/ ~var.made
    <3>1. setting' = [setting EXCEPT ![u] = AtRest] /\ excused' = TRUE /\ torn' = torn
      BY <1>1, <2>1 DEF LoadRead
    <3>2. AtRest \in ConfigPlace /\ AtRest.pc = "rest"
      BY DefaultIsValue DEF AtRest, ConfigPlace
    <3>3. ConfigTypes' /\ AloneInWalk' /\ ToldSoFar' /\ ListenersAgree'
      BY <2>0, <3>1, <3>2, ConfigPcChange
    <3>4. FileApplied' BY <3>1 DEF FileApplied
    <3> QED BY <3>3, <3>4 DEF ConfigIInv
  <2>2. CASE ~(file.content = Bad \/ ~var.made)
    <3>1. Enters(u, file.content, TRUE) BY <1>1, <2>2 DEF LoadRead
    <3>2. file.content \in ConfigValues BY <2>2 DEF ConfigIInv, ConfigTypes
    <3> QED BY <2>0, <2>2, <3>1, <3>2, ConfigEnters
  <2> QED BY <2>1, <2>2
<1>2. ASSUME NEW force \in BOOLEAN, LoadStat(u, force) PROVE ConfigIInv'
  <2>0. setting[u].pc = "rest" /\ UNCHANGED <<var, view, lastId, file, configRace, torn, excused>>
    BY <1>2 DEF LoadStat
  <2>1. CASE UNCHANGED <<setting, recorded>>
    BY <2>0, <2>1 DEF ConfigIInv, ConfigTypes, Walking, AloneInWalk, ToldSoFar, ListenersAgree, FileApplied
  <2>2. CASE setting' = [setting EXCEPT ![u].pc = "read"]
    <3> DEFINE r == [setting[u] EXCEPT !.pc = "read"]
    <3>1. r \in ConfigPlace /\ r.pc = "read" BY DEF ConfigIInv, ConfigTypes, ConfigPlace
    <3>2. setting' = [setting EXCEPT ![u] = r] BY <2>2
    <3> HIDE DEF r
    <3>3. excused' \in BOOLEAN BY <2>0 DEF ConfigIInv, ConfigTypes
    <3>4. ConfigTypes' /\ AloneInWalk' /\ ToldSoFar' /\ ListenersAgree' /\ setting'[u] = r
      BY <2>0, <3>1, <3>2, <3>3, ConfigPcChange
    <3>5. FileApplied' BY <3>1, <3>4 DEF FileApplied
    <3> QED BY <3>4, <3>5 DEF ConfigIInv
  <2> QED BY <1>2, <2>1, <2>2 DEF LoadStat
<1> QED
  BY <1>1, <1>2

LEMMA ConfigEdit ==
    ASSUME ConfigIInv, NEW v \in ConfigValues \union {Bad}, Edit(v)
    PROVE  ConfigIInv'
<1>1. /\ file' = [content |-> v, mtime |-> clock]
      /\ excused' = (excused \/ clock = recorded)
      /\ UNCHANGED <<var, view, lastId, setting, recorded, configRace, torn>>
  BY DEF Edit
<1>2. file'.content = v /\ file'.mtime = clock BY <1>1
<1>3. Walking' = Walking BY <1>1 DEF Walking
<1>4. excused' \in BOOLEAN BY <1>1 DEF ConfigIInv, ConfigTypes
<1>5. ConfigTypes' BY <1>1, <1>2, <1>3, <1>4 DEF ConfigIInv, ConfigTypes
<1>6. AloneInWalk' /\ ToldSoFar' /\ ListenersAgree'
  BY <1>1, <1>3 DEF ConfigIInv, AloneInWalk, ToldSoFar, ListenersAgree
<1>7. FileApplied' BY <1>1, <1>2 DEF FileApplied
<1> QED
  BY <1>5, <1>6, <1>7 DEF ConfigIInv

LEMMA ConfigSet ==
    ASSUME ConfigIInv, NEW u \in ConfigUsers, NEW v \in ConfigValues, SetValue(u, v)
    PROVE  ConfigIInv'
<1>1. /\ var.made /\ setting[u].pc = "rest" /\ Enters(u, v, FALSE)
      /\ UNCHANGED <<var, view, lastId, file, recorded, configRace>>
  BY DEF SetValue
<1> QED
  BY <1>1, ConfigEnters

LEMMA ConfigStep == ConfigIInv /\ [ConfigNext]_configVars => ConfigIInv'
<1> SUFFICES ASSUME ConfigIInv, [ConfigNext]_configVars PROVE ConfigIInv'
  OBVIOUS
<1>1. CASE ConfigNext
  BY <1>1, ConfigCalm, ConfigNotify, ConfigStore, ConfigLoads, ConfigEdit, ConfigSet DEF ConfigNext
<1>2. CASE UNCHANGED configVars
  BY <1>2 DEF configVars, ConfigIInv, ConfigTypes, Walking, AloneInWalk, ToldSoFar, ListenersAgree, FileApplied
<1> QED
  BY <1>1, <1>2

LEMMA ConfigAlways == ConfigSpec => []ConfigIInv
  BY ConfigInitially, ConfigStep, PTL DEF ConfigSpec

\* ConfigVar: whenever setValue is not at work, every listener believes what the parameter
\* is, unless a listener threw or two calls met; a call that finishes alone repairs that.
THEOREM ListenersToldTheTruth == ConfigSpec => []ListenersAgree
<1>1. ConfigIInv => ListenersAgree
  BY DEF ConfigIInv
<1> QED
  BY <1>1, ConfigAlways, PTL

\* LoadFromConfDir: a file that the next load would skip has been applied, but for the
\* exceptions that SkippedFileApplied names.
THEOREM FilesAreApplied == ConfigSpec => []SkippedFileApplied
<1>1. ConfigIInv => SkippedFileApplied
  <2> SUFFICES ASSUME ConfigIInv, Resting, recorded = file.mtime, ~excused
               PROVE  var.val = file.content
    BY DEF SkippedFileApplied
  <2>1. Walking = {} /\ ~\E u \in ConfigUsers : setting[u].pc = "read"
    BY DEF Resting, Walking
  <2> QED
    BY <2>1 DEF ConfigIInv, FileApplied
<1> QED
  BY <1>1, ConfigAlways, PTL

-----------------------------------------------------------------------------
(* Socket                                                                    *)

SockNames == Addrs \union {NoAddr, Wild, Foreign, Picked, Lost}
SockFile == [mine : BOOLEAN, name : SockNames, peer : SockNames, up : BOOLEAN]
SockPcs == {"idle", "new", "bind", "connect", "use", "addresses", "close", "failed", "connected",
            "forget", "closed"}
SockUser == [pc : SockPcs, op : {"none", "bind", "connect", "use", "addresses", "close"}, to : SockNames]

\* Before the first socket is opened there is no file, before the first operation no user.
SockTypes ==
    /\ m \in [sock : FdNums \union {NoFd}, connected : BOOLEAN, local : SockNames, remote : SockNames]
    /\ fds \in [FdNums -> SockFile]
    /\ user \in [Users -> SockUser]
    /\ opens \in Nat /\ ops \in Nat
    /\ overlap \in BOOLEAN /\ rebound \in BOOLEAN /\ stolen \in BOOLEAN
    /\ \A d \in FdNums : fds[d].mine => fds[d].up
    /\ opens = 0 => m.sock = NoFd /\ \A d \in FdNums : ~fds[d].up
    /\ ops = 0 => Quiet
    /\ \A u \in Users : user[u].pc = "new" => user[u].op \in {"bind", "connect"}

\* Without an overlap at most one thread is inside.
SockAlone ==
    ~overlap => \A u, v \in Users : u # v /\ user[u].pc # "idle" => user[v].pc = "idle"

\* With a thread at p and no other inside, the object's file is the one that m_sock names,
\* but between the close of it and the assignment of -1.
OwnAt(p) == \A d \in FdNums : fds[d].mine <=> (d = m.sock /\ p # "forget")

SockCurrent ==
    /\ m.sock # NoFd /\ m.remote = fds[m.sock].peer
    /\ rebound \/ Local(m.sock) = fds[m.sock].name

\* The addresses are current while m_Connected says so and when the kernel has just said
\* so, but not after a failed connect; m_Connected is false wherever the file is closed.
NamesAt(p) ==
    /\ (m.connected /\ p # "failed") \/ p = "connected" => SockCurrent
    /\ p \in {"close", "forget", "closed"} => ~m.connected

SockPlaces ==
    ~overlap =>
        /\ Quiet => OwnAt("idle") /\ NamesAt("idle")
        /\ \A u \in Users : user[u].pc # "idle" => OwnAt(user[u].pc) /\ NamesAt(user[u].pc)

SockIInv == SockTypes /\ SockAlone /\ SockPlaces /\ OwnFileOnly

LEMMA SockInitially == SocketInit => SockIInv
<1> SUFFICES ASSUME SocketInit PROVE SockIInv
  OBVIOUS
<1>1. Idle \in SockUser /\ Idle.pc = "idle" /\ Closed \in SockFile /\ ~Closed.mine /\ ~Closed.up
  BY DEF Idle, SockUser, SockPcs, SockNames, Closed, SockFile
<1>2. /\ user \in [Users -> SockUser] /\ Quiet /\ fds \in [FdNums -> SockFile]
      /\ \A u \in Users : user[u].pc = "idle"
      /\ \A d \in FdNums : ~fds[d].mine /\ ~fds[d].up
  BY <1>1 DEF SocketInit, Quiet
<1>3. /\ m \in [sock : FdNums \union {NoFd}, connected : BOOLEAN, local : SockNames, remote : SockNames]
      /\ m.sock = NoFd /\ ~m.connected
  BY DEF SocketInit, SockNames
<1>4. opens = 0 /\ ops = 0 /\ overlap = FALSE /\ rebound = FALSE /\ stolen = FALSE
  BY DEF SocketInit
<1>5. SockTypes
  BY <1>2, <1>3, <1>4 DEF SockTypes
<1>6. SockAlone /\ OwnFileOnly
  BY <1>2, <1>4 DEF SockAlone, OwnFileOnly
<1>7. SockPlaces
  BY <1>2, <1>3, SocketAssumption DEF SockPlaces, OwnAt, NamesAt, NoFd
<1> QED
  BY <1>5, <1>6, <1>7 DEF SockIInv

\* What a thread inside knows: alone, it finds the object as its place says.
LEMMA SockInside ==
    ASSUME SockIInv, NEW u \in Users, user[u].pc # "idle", ~overlap
    PROVE  OwnAt(user[u].pc) /\ NamesAt(user[u].pc) /\ \A v \in Users \ {u} : user[v].pc = "idle"
  BY DEF SockIInv, SockPlaces, SockAlone

\* A step of the thread u that goes from its place to p or out.
LEMMA SockMove ==
    ASSUME SockIInv, NEW u \in Users, user[u].pc # "idle", NEW p \in SockPcs, p # "new",
           (Go(u, p) /\ p # "idle") \/ (Done(u) /\ p = "idle"),
           m' \in [sock : FdNums \union {NoFd}, connected : BOOLEAN, local : SockNames, remote : SockNames],
           fds' \in [FdNums -> SockFile], \A d \in FdNums : fds'[d].mine => fds'[d].up,
           opens' \in Nat, opens' = 0 => opens = 0 /\ m'.sock = m.sock /\ \A d \in FdNums : fds'[d].up => fds[d].up,
           ops' = ops, overlap' = overlap, rebound' \in BOOLEAN, stolen' \in BOOLEAN,
           ~overlap => OwnAt(p)' /\ NamesAt(p)' /\ ~stolen'
    PROVE  SockIInv'
<1>1. SockTypes BY DEF SockIInv
<1>2. user' \in [Users -> SockUser] /\ user'[u].pc = p /\ \A v \in Users \ {u} : user'[v] = user[v]
  <2>1. CASE Go(u, p)
    <3> DEFINE r == [user[u] EXCEPT !.pc = p]
    <3>1. r \in SockUser /\ r.pc = p BY <1>1 DEF SockTypes, SockUser
    <3>2. user' = [user EXCEPT ![u] = r] BY <2>1 DEF Go
    <3> HIDE DEF r
    <3> QED BY <1>1, <3>1, <3>2 DEF SockTypes
  <2>2. CASE Done(u) /\ p = "idle"
    <3>1. Idle \in SockUser /\ Idle.pc = "idle" BY DEF Idle, SockUser, SockPcs, SockNames
    <3>2. user' = [user EXCEPT ![u] = Idle] BY <2>2 DEF Done
    <3> HIDE DEF Idle
    <3> QED BY <1>1, <2>2, <3>1, <3>2 DEF SockTypes
  <2> QED BY <2>1, <2>2
<1>3. ops # 0 BY <1>1 DEF SockTypes, Quiet
<1>4. SockTypes'
  <2>1. \A v \in Users : user'[v].pc = "new" => user'[v].op \in {"bind", "connect"}
    BY <1>1, <1>2 DEF SockTypes
  <2>2. opens' = 0 => m'.sock = NoFd /\ \A d \in FdNums : ~fds'[d].up
    BY <1>1 DEF SockTypes
  <2>3. ops' \in Nat /\ ops' # 0 /\ overlap' \in BOOLEAN
    BY <1>1, <1>3 DEF SockTypes
  <2> QED BY <1>2, <2>1, <2>2, <2>3 DEF SockTypes
<1>5. CASE overlap
  BY <1>4, <1>5 DEF SockIInv, SockAlone, SockPlaces, OwnFileOnly
<1>6. CASE ~overlap
  <2>1. \A v \in Users \ {u} : user'[v].pc = "idle" BY <1>2, <1>6, SockInside
  <2>2. SockAlone' /\ OwnFileOnly' BY <1>6, <2>1 DEF SockAlone, OwnFileOnly
  <2>3. SockPlaces'
    <3>1. CASE p = "idle"
      <4>1. \A v \in Users : user'[v].pc = "idle" BY <1>2, <2>1, <3>1
      <4> QED BY <1>6, <3>1, <4>1 DEF SockPlaces
    <3>2. CASE p # "idle"
      <4>1. ~Quiet' BY <1>2, <3>2 DEF Quiet
      <4>2. \A v \in Users : user'[v].pc # "idle" => user'[v].pc = p BY <1>2, <2>1
      <4> QED BY <1>6, <4>1, <4>2 DEF SockPlaces
    <3> QED BY <3>1, <3>2
  <2> QED BY <1>4, <2>2, <2>3 DEF SockIInv
<1> QED
  BY <1>5, <1>6, <1>1 DEF SockTypes

\* A thread that is alone and has not closed m_sock reaches its own file.
LEMMA SockReaches ==
    ASSUME SockIInv, NEW u \in Users, user[u].pc \notin {"idle", "forget"}, Reaches(m.sock)
    PROVE  stolen' \in BOOLEAN /\ (~overlap => ~stolen')
<1>1. stolen' = (stolen \/ (m.sock # NoFd /\ fds[m.sock].up /\ ~fds[m.sock].mine)) BY DEF Reaches
<1>2. ASSUME ~overlap PROVE ~stolen'
  <2>1. OwnAt(user[u].pc) /\ ~stolen BY <1>2, SockInside DEF SockIInv, OwnFileOnly
  <2>2. m.sock # NoFd => fds[m.sock].mine BY <2>1 DEF OwnAt, SockIInv, SockTypes
  <2> QED BY <1>1, <2>1, <2>2
<1> QED
  BY <1>1, <1>2 DEF SockIInv, SockTypes

\* newSock() takes the lowest free number.
LEMMA FreeNumber ==
    ASSUME SockTypes, Open # FdNums
    PROVE  Min(FdNums \ Open) \in FdNums /\ ~fds[Min(FdNums \ Open)].up
<1>1. FdNums \ Open # {} /\ FdNums \ Open \subseteq Nat BY SocketAssumption DEF Open
<1>2. Min(FdNums \ Open) \in FdNums \ Open BY <1>1, LeastId
<1> QED
  BY <1>2 DEF Open

LEMMA SockNewSock ==
    ASSUME SockIInv, NEW u \in Users, NewSock(u)
    PROVE  SockIInv'
<1>0. /\ SockTypes /\ user[u].pc = "new" /\ user[u].op \in {"bind", "connect"}
      /\ UNCHANGED <<ops, overlap, stolen>>
  BY DEF SockIInv, SockTypes, NewSock, At
<1>1. stolen' \in BOOLEAN /\ (~overlap => ~stolen')
  BY <1>0 DEF SockIInv, SockTypes, OwnFileOnly
<1>2. CASE UNCHANGED <<m, fds, opens, rebound>>
  <2>1. ~overlap => (OwnAt("new") /\ NamesAt("new"))
    BY <1>0, SockInside
  <2>2. PICK p \in {"bind", "connect", "idle"} : (Go(u, p) /\ p # "idle") \/ (Done(u) /\ p = "idle")
    BY <1>0, <1>2 DEF NewSock
  <2>3. ~overlap => OwnAt(p)' /\ NamesAt(p)'
    BY <1>2, <2>1, <2>2 DEF OwnAt, NamesAt, SockCurrent, Local
  <2> QED BY <1>0, <1>1, <1>2, <2>2, <2>3, SockMove DEF SockPcs, SockTypes
<1>3. CASE /\ m.sock = NoFd /\ Open # FdNums
           /\ fds' = [fds EXCEPT ![Min(FdNums \ Open)] = [Closed EXCEPT !.up = TRUE, !.mine = TRUE, !.name = Wild]]
           /\ m' = [m EXCEPT !.sock = Min(FdNums \ Open)]
           /\ opens' = opens + 1
           /\ rebound' = (m.local # NoAddr)
           /\ Go(u, user[u].op)
  <2>1. PICK d \in FdNums : d = Min(FdNums \ Open) /\ ~fds[d].up BY <1>0, <1>3, FreeNumber
  <2> DEFINE f == [Closed EXCEPT !.up = TRUE, !.mine = TRUE, !.name = Wild]
  <2>2. f \in SockFile /\ f.mine /\ f.up BY DEF Closed, SockFile, SockNames
  <2>3. fds' = [fds EXCEPT ![d] = f] BY <1>3, <2>1
  <2> HIDE DEF f
  <2>4. /\ fds' \in [FdNums -> SockFile] /\ fds'[d] = f
        /\ \A e \in FdNums : e # d => fds'[e] = fds[e]
    BY <1>0, <2>2, <2>3 DEF SockTypes
  <2>5. /\ m' \in [sock : FdNums \union {NoFd}, connected : BOOLEAN, local : SockNames, remote : SockNames]
        /\ m'.sock = d /\ m'.connected = m.connected
    BY <1>0, <1>3, <2>1 DEF SockTypes
  <2>6. \A e \in FdNums : fds'[e].mine => fds'[e].up BY <1>0, <2>2, <2>4 DEF SockTypes
  <2>7. opens' \in Nat /\ opens' # 0 /\ rebound' \in BOOLEAN BY <1>0, <1>3 DEF SockTypes
  <2>8. PICK p \in {"bind", "connect"} : Go(u, p) BY <1>0, <1>3
  <2>9. ASSUME ~overlap PROVE OwnAt(p)' /\ NamesAt(p)'
    <3>1. OwnAt("new") /\ NamesAt("new") BY <1>0, <2>9, SockInside
    <3>2. \A e \in FdNums : ~fds[e].mine
      BY <1>3, <3>1, SocketAssumption DEF OwnAt, NoFd
    <3>3. ~m.connected BY <1>3, <3>1 DEF NamesAt, SockCurrent
    <3> QED BY <2>2, <2>4, <2>5, <2>8, <3>2, <3>3 DEF OwnAt, NamesAt
  <2> QED BY <1>0, <1>1, <2>4, <2>5, <2>6, <2>7, <2>8, <2>9, SockMove DEF SockPcs
<1> QED
  BY <1>2, <1>3 DEF NewSock

\* What getLocalAddress() and getRemoteAddress() return is an address.
LEMMA SockAsked ==
    ASSUME SockTypes
    PROVE  Local(m.sock) \in SockNames /\ Remote(m.sock) \in SockNames
  BY DEF SockTypes, Local, Remote, SockFile, SockNames

\* Asking for the addresses leaves current ones current.
LEMMA SockAskedCurrent ==
    ASSUME SockTypes, SockCurrent, m'.sock = m.sock, m'.local = Local(m.sock), m'.remote = Remote(m.sock),
           UNCHANGED <<fds, rebound>>
    PROVE  SockCurrent'
  BY DEF SockCurrent, Local, Remote

LEMMA SockAddresses ==
    ASSUME SockIInv, NEW u \in Users, Addresses(u) \/ Connected(u)
    PROVE  SockIInv'
<1>0. /\ SockTypes /\ UNCHANGED <<fds, opens, ops, overlap, rebound>> /\ Done(u)
      /\ user[u].pc \in {"addresses", "connected"}
  BY DEF SockIInv, Addresses, Connected, At
<1>1. /\ m' \in [sock : FdNums \union {NoFd}, connected : BOOLEAN, local : SockNames, remote : SockNames]
      /\ m'.sock = m.sock /\ m'.local = Local(m.sock) /\ m'.remote = Remote(m.sock)
      /\ m'.connected = m.connected \/ user[u].pc = "connected"
  BY <1>0, SockAsked DEF SockTypes, Addresses, Connected, At
<1>2. stolen' \in BOOLEAN /\ (~overlap => ~stolen')
  <2>1. CASE Addresses(u) BY <1>0, <2>1, SockReaches DEF Addresses
  <2>2. CASE Connected(u) BY <1>0, <2>2 DEF Connected, SockIInv, SockTypes, OwnFileOnly
  <2> QED BY <2>1, <2>2
<1>3. ASSUME ~overlap PROVE OwnAt("idle")' /\ NamesAt("idle")'
  <2>1. OwnAt(user[u].pc) /\ NamesAt(user[u].pc) BY <1>0, <1>3, SockInside
  <2>2. OwnAt("idle")' BY <1>0, <1>1, <2>1 DEF OwnAt
  <2>3. ASSUME m'.connected PROVE SockCurrent'
    <3>1. SockCurrent BY <1>0, <1>1, <2>1, <2>3 DEF NamesAt
    <3> QED BY <1>0, <1>1, <3>1, SockAskedCurrent
  <2> QED BY <2>2, <2>3 DEF NamesAt
<1> QED
  BY <1>0, <1>1, <1>2, <1>3, SockMove DEF SockPcs, SockTypes

LEMMA SockBind ==
    ASSUME SockIInv, NEW u \in Users, Bind(u)
    PROVE  SockIInv'
<1>0. SockTypes /\ UNCHANGED <<opens, ops, overlap>> /\ Done(u) /\ user[u].pc = "bind"
  BY DEF SockIInv, Bind, At
<1>1. stolen' \in BOOLEAN /\ (~overlap => ~stolen')
  BY <1>0, SockReaches DEF Bind
<1>2. CASE UNCHANGED <<m, fds, rebound>>
  <2>1. ASSUME ~overlap PROVE OwnAt("idle")' /\ NamesAt("idle")'
    <3>1. OwnAt("bind") /\ NamesAt("bind") BY <1>0, <2>1, SockInside
    <3> QED BY <1>2, <3>1 DEF OwnAt, NamesAt, SockCurrent, Local
  <2> QED BY <1>0, <1>1, <1>2, <2>1, SockMove DEF SockPcs, SockTypes
<1>3. CASE /\ m.sock # NoFd
           /\ fds' = [fds EXCEPT ![m.sock].name = user[u].to]
           /\ m' = [m EXCEPT !.local = IF m.local # NoAddr THEN m.local ELSE user[u].to]
           /\ rebound' = (rebound \/ m.local # NoAddr)
  <2>1. PICK d \in FdNums : d = m.sock BY <1>0, <1>3 DEF SockTypes
  <2>2. PICK a \in SockNames : a = user[u].to BY <1>0 DEF SockTypes, SockUser
  <2> DEFINE f == [fds[d] EXCEPT !.name = a]
  <2>3. f \in SockFile /\ f.mine = fds[d].mine /\ f.up = fds[d].up /\ f.peer = fds[d].peer /\ f.name = a
    BY <1>0 DEF SockTypes, SockFile
  <2>4. fds' = [fds EXCEPT ![d] = f] BY <1>3, <2>1, <2>2
  <2> HIDE DEF f
  <2>5. fds' \in [FdNums -> SockFile] /\ fds'[d] = f /\ \A e \in FdNums : e # d => fds'[e] = fds[e]
    BY <1>0, <2>3, <2>4 DEF SockTypes
  <2>6. /\ m' \in [sock : FdNums \union {NoFd}, connected : BOOLEAN, local : SockNames, remote : SockNames]
        /\ m'.sock = d /\ m'.connected = m.connected /\ m'.remote = m.remote
        /\ m'.local = IF m.local # NoAddr THEN m.local ELSE a
    BY <1>0, <1>3, <2>1, <2>2 DEF SockTypes
  <2>7. \A e \in FdNums : (fds'[e].mine <=> fds[e].mine) /\ (fds'[e].up <=> fds[e].up)
    BY <2>3, <2>5
  <2>8. \A e \in FdNums : fds'[e].mine => fds'[e].up BY <1>0, <2>7 DEF SockTypes
  <2>9. opens' \in Nat /\ rebound' \in BOOLEAN BY <1>0, <1>3 DEF SockTypes
  <2>10. ASSUME ~overlap PROVE OwnAt("idle")' /\ NamesAt("idle")'
    <3>1. OwnAt("bind") /\ NamesAt("bind") BY <1>0, <2>10, SockInside
    <3>2. OwnAt("idle")' BY <2>1, <2>6, <2>7, <3>1 DEF OwnAt
    <3>3. ASSUME m'.connected PROVE SockCurrent'
      <4>1. SockCurrent BY <2>6, <3>1, <3>3 DEF NamesAt
      <4>2. m'.sock # NoFd /\ m'.remote = fds'[m'.sock].peer
        BY <1>3, <2>1, <2>3, <2>5, <2>6, <4>1 DEF SockCurrent
      <4>3. rebound' \/ Local(m.sock)' = fds'[m'.sock].name
        BY <1>3, <2>1, <2>3, <2>5, <2>6 DEF Local
      <4> QED BY <4>2, <4>3 DEF SockCurrent
    <3> QED BY <3>2, <3>3 DEF NamesAt
  <2> QED BY <1>0, <1>1, <2>1, <2>5, <2>6, <2>7, <2>8, <2>9, <2>10, SockMove DEF SockPcs
<1> QED
  BY <1>2, <1>3 DEF Bind

LEMMA SockConnect ==
    ASSUME SockIInv, NEW u \in Users, Connect(u)
    PROVE  SockIInv'
<1>0. SockTypes /\ UNCHANGED <<opens, ops, overlap>> /\ user[u].pc = "connect"
  BY DEF SockIInv, Connect, At
<1>1. stolen' \in BOOLEAN /\ (~overlap => ~stolen')
  BY <1>0, SockReaches DEF Connect
<1>2. PICK a \in SockNames : a = user[u].to BY <1>0 DEF SockTypes, SockUser
<1>3. CASE Done(u) /\ UNCHANGED <<m, fds, rebound>>
  <2>1. ASSUME ~overlap PROVE OwnAt("idle")' /\ NamesAt("idle")'
    <3>1. OwnAt("connect") /\ NamesAt("connect") BY <1>0, <2>1, SockInside
    <3> QED BY <1>3, <3>1 DEF OwnAt, NamesAt, SockCurrent, Local
  <2> QED BY <1>0, <1>1, <1>3, <2>1, SockMove DEF SockPcs, SockTypes
<1>4. CASE m' = [m EXCEPT !.remote = user[u].to] /\ Go(u, "failed") /\ UNCHANGED <<fds, rebound>>
  <2>1. /\ m' \in [sock : FdNums \union {NoFd}, connected : BOOLEAN, local : SockNames, remote : SockNames]
        /\ m'.sock = m.sock
    BY <1>0, <1>2, <1>4 DEF SockTypes
  <2>2. ASSUME ~overlap PROVE OwnAt("failed")' /\ NamesAt("failed")'
    <3>1. OwnAt("connect") BY <1>0, <2>2, SockInside
    <3> QED BY <1>4, <2>1, <3>1 DEF OwnAt, NamesAt
  <2> QED BY <1>0, <1>1, <1>4, <2>1, <2>2, SockMove DEF SockPcs, SockTypes
<1>5. CASE /\ m' = [m EXCEPT !.remote = user[u].to]
           /\ m.sock # NoFd
           /\ fds' = [fds EXCEPT ![m.sock].peer = user[u].to, ![m.sock].name = Picked]
           /\ rebound' = (rebound \/ m.local \notin {NoAddr, Picked})
           /\ Go(u, "connected")
  <2>1. PICK d \in FdNums : d = m.sock BY <1>0, <1>5 DEF SockTypes
  <2> DEFINE f == [fds[d] EXCEPT !.peer = a, !.name = Picked]
  <2>3. f \in SockFile /\ f.mine = fds[d].mine /\ f.up = fds[d].up /\ f.peer = a /\ f.name = Picked
    BY <1>0 DEF SockTypes, SockFile, SockNames
  <2>4. fds' = [fds EXCEPT ![d] = f] BY <1>0, <1>2, <1>5, <2>1 DEF SockTypes
  <2> HIDE DEF f
  <2>5. fds' \in [FdNums -> SockFile] /\ fds'[d] = f /\ \A e \in FdNums : e # d => fds'[e] = fds[e]
    BY <1>0, <2>3, <2>4 DEF SockTypes
  <2>6. /\ m' \in [sock : FdNums \union {NoFd}, connected : BOOLEAN, local : SockNames, remote : SockNames]
        /\ m'.sock = d /\ m'.remote = a /\ m'.local = m.local
    BY <1>0, <1>2, <1>5, <2>1 DEF SockTypes
  <2>7. \A e \in FdNums : (fds'[e].mine <=> fds[e].mine) /\ (fds'[e].up <=> fds[e].up)
    BY <2>3, <2>5
  <2>8. \A e \in FdNums : fds'[e].mine => fds'[e].up BY <1>0, <2>7 DEF SockTypes
  <2>9. opens' \in Nat /\ rebound' \in BOOLEAN BY <1>0, <1>5 DEF SockTypes
  <2>10. ASSUME ~overlap PROVE OwnAt("connected")' /\ NamesAt("connected")'
    <3>1. OwnAt("connect") BY <1>0, <2>10, SockInside
    <3>2. OwnAt("connected")' BY <2>1, <2>6, <2>7, <3>1 DEF OwnAt
    <3>3. m'.sock # NoFd /\ m'.remote = fds'[m'.sock].peer BY <1>5, <2>1, <2>3, <2>5, <2>6
    <3>4. rebound' \/ Local(m.sock)' = fds'[m'.sock].name
      BY <1>5, <2>1, <2>3, <2>5, <2>6 DEF Local
    <3> QED BY <3>2, <3>3, <3>4 DEF NamesAt, SockCurrent
  <2> QED BY <1>0, <1>1, <1>5, <2>1, <2>5, <2>6, <2>7, <2>8, <2>9, <2>10, SockMove DEF SockPcs
<1> QED
  BY <1>3, <1>4, <1>5 DEF Connect

LEMMA SockFailed ==
    ASSUME SockIInv, NEW u \in Users, Failed(u)
    PROVE  SockIInv'
<1>0. /\ SockTypes /\ UNCHANGED <<fds, opens, ops, overlap, rebound, stolen>> /\ user[u].pc = "failed"
      /\ stolen' \in BOOLEAN /\ (~overlap => ~stolen')
  BY DEF SockIInv, Failed, At, OwnFileOnly, SockTypes
<1>1. /\ m' \in [sock : FdNums \union {NoFd}, connected : BOOLEAN, local : SockNames, remote : SockNames]
      /\ m'.sock = m.sock /\ ~m'.connected
  BY <1>0 DEF SockTypes, Failed
<1>2. PICK p \in {"close", "idle"} : (Go(u, p) /\ p # "idle") \/ (Done(u) /\ p = "idle")
  BY DEF Failed
<1>3. ASSUME ~overlap PROVE OwnAt(p)' /\ NamesAt(p)'
  <2>1. OwnAt("failed") BY <1>0, <1>3, SockInside
  <2> QED BY <1>0, <1>1, <1>2, <2>1 DEF OwnAt, NamesAt
<1> QED
  BY <1>0, <1>1, <1>2, <1>3, SockMove DEF SockPcs, SockTypes

\* listen, send and recv, and the end of a close() without an fd
LEMMA SockUse ==
    ASSUME SockIInv, NEW u \in Users, Use(u) \/ Leave(u)
    PROVE  SockIInv'
<1>0. /\ SockTypes /\ UNCHANGED <<m, fds, opens, ops, overlap, rebound>> /\ Done(u)
      /\ user[u].pc \in {"use", "closed"}
  BY DEF SockIInv, Use, Leave, At
<1>1. stolen' \in BOOLEAN /\ (~overlap => ~stolen')
  <2>1. CASE Use(u) BY <1>0, <2>1, SockReaches DEF Use
  <2>2. CASE Leave(u) BY <1>0, <2>2 DEF Leave, SockIInv, SockTypes, OwnFileOnly
  <2> QED BY <2>1, <2>2
<1>2. ASSUME ~overlap PROVE OwnAt("idle")' /\ NamesAt("idle")'
  <2>1. OwnAt(user[u].pc) /\ NamesAt(user[u].pc) BY <1>0, <1>2, SockInside
  <2> QED BY <1>0, <2>1 DEF OwnAt, NamesAt, SockCurrent, Local
<1> QED
  BY <1>0, <1>1, <1>2, SockMove DEF SockPcs, SockTypes

LEMMA SockClose ==
    ASSUME SockIInv, NEW u \in Users, Close(u)
    PROVE  SockIInv'
<1>0. SockTypes /\ UNCHANGED <<m, opens, ops, overlap, rebound>> /\ user[u].pc = "close"
  BY DEF SockIInv, Close, At
<1>1. stolen' \in BOOLEAN /\ (~overlap => ~stolen')
  BY <1>0, SockReaches DEF Close
<1>2. Closed \in SockFile /\ ~Closed.mine /\ ~Closed.up
  BY DEF Closed, SockFile, SockNames
<1>3. CASE m.sock = NoFd
  <2>1. fds' = fds /\ Go(u, "closed") BY <1>3 DEF Close
  <2>2. ASSUME ~overlap PROVE OwnAt("closed")' /\ NamesAt("closed")'
    <3>1. OwnAt("close") /\ NamesAt("close") BY <1>0, <2>2, SockInside
    <3> QED BY <1>0, <2>1, <3>1 DEF OwnAt, NamesAt
  <2> QED BY <1>0, <1>1, <2>1, <2>2, SockMove DEF SockPcs, SockTypes
<1>4. CASE m.sock # NoFd
  <2>1. PICK d \in FdNums : d = m.sock BY <1>0, <1>4 DEF SockTypes
  <2>2. fds' = [fds EXCEPT ![d] = Closed] /\ Go(u, "forget") BY <1>4, <2>1 DEF Close
  <2>3. fds' \in [FdNums -> SockFile] /\ fds'[d] = Closed /\ \A e \in FdNums : e # d => fds'[e] = fds[e]
    BY <1>0, <1>2, <2>2 DEF SockTypes
  <2>4. \A e \in FdNums : (fds'[e].mine => fds'[e].up) /\ (fds'[e].up => fds[e].up)
    BY <1>0, <1>2, <2>3 DEF SockTypes
  <2>5. ASSUME ~overlap PROVE OwnAt("forget")' /\ NamesAt("forget")'
    <3>1. OwnAt("close") /\ NamesAt("close") BY <1>0, <2>5, SockInside
    <3>2. \A e \in FdNums : ~fds'[e].mine BY <1>2, <2>1, <2>3, <3>1 DEF OwnAt
    <3> QED BY <1>0, <3>1, <3>2 DEF OwnAt, NamesAt
  <2> QED BY <1>0, <1>1, <2>2, <2>3, <2>4, <2>5, SockMove DEF SockPcs, SockTypes
<1> QED
  BY <1>3, <1>4

LEMMA SockForget ==
    ASSUME SockIInv, NEW u \in Users, Forget(u)
    PROVE  SockIInv'
<1>0. /\ SockTypes /\ UNCHANGED <<fds, opens, ops, overlap, rebound, stolen>> /\ user[u].pc = "forget" /\ Done(u)
      /\ stolen' \in BOOLEAN /\ (~overlap => ~stolen')
  BY DEF SockIInv, Forget, At, OwnFileOnly, SockTypes
<1>1. /\ m' \in [sock : FdNums \union {NoFd}, connected : BOOLEAN, local : SockNames, remote : SockNames]
      /\ m'.sock = NoFd /\ m'.connected = m.connected
  BY <1>0 DEF SockTypes, Forget
<1>2. ASSUME ~overlap PROVE OwnAt("idle")' /\ NamesAt("idle")'
  <2>1. OwnAt("forget") /\ NamesAt("forget") BY <1>0, <1>2, SockInside
  <2>2. NoFd \notin FdNums BY SocketAssumption DEF NoFd
  <2> QED BY <1>0, <1>1, <2>1, <2>2 DEF OwnAt, NamesAt
<1>3. opens = 0 => m.sock = NoFd BY <1>0 DEF SockTypes
<1> QED
  BY <1>0, <1>1, <1>2, <1>3, SockMove DEF SockPcs, SockTypes

\* A thread enters: alone, it finds what the object is at rest, and may change the object.
LEMMA SockEnter ==
    ASSUME SockIInv, NEW u \in Users, NEW to \in SockNames, NEW p \in SockPcs \ {"idle", "forget", "failed", "connected"},
           NEW op \in {"bind", "connect", "use", "addresses", "close"}, p = "new" => op \in {"bind", "connect"},
           Enter(u, op, p, to),
           m' \in [sock : FdNums \union {NoFd}, connected : BOOLEAN, local : SockNames, remote : SockNames],
           m'.sock = m.sock, rebound' \in BOOLEAN, UNCHANGED <<fds, opens, stolen>>,
           NamesAt("idle") => NamesAt(p)'
    PROVE  SockIInv'
<1>1. SockTypes BY DEF SockIInv
<1> DEFINE r == [pc |-> p, op |-> op, to |-> to]
<1>2. r \in SockUser /\ r.pc = p /\ r.op = op BY DEF SockUser
<1>3. /\ user[u].pc = "idle" /\ ops' = ops + 1 /\ user' = [user EXCEPT ![u] = r]
      /\ overlap' = (overlap \/ \E v \in Users \ {u} : user[v].pc # "idle")
  BY DEF Enter, At
<1> HIDE DEF r
<1>4. user' \in [Users -> SockUser] /\ user'[u] = r /\ \A v \in Users \ {u} : user'[v] = user[v]
  BY <1>1, <1>2, <1>3 DEF SockTypes
<1>5. SockTypes'
  <2>1. ops' \in Nat /\ ops' # 0 /\ overlap' \in BOOLEAN BY <1>1, <1>3 DEF SockTypes
  <2>2. \A v \in Users : user'[v].pc = "new" => user'[v].op \in {"bind", "connect"}
    BY <1>1, <1>2, <1>4 DEF SockTypes
  <2> QED BY <1>1, <1>4, <2>1, <2>2 DEF SockTypes
<1>6. CASE overlap'
  BY <1>5, <1>6 DEF SockIInv, SockAlone, SockPlaces, OwnFileOnly
<1>7. CASE ~overlap'
  <2>1. ~overlap /\ \A v \in Users : user[v].pc = "idle" BY <1>3, <1>7
  <2>2. OwnAt("idle") /\ NamesAt("idle") /\ ~stolen
    BY <2>1 DEF SockIInv, SockPlaces, Quiet, OwnFileOnly
  <2>3. OwnAt(p)' BY <2>2 DEF OwnAt
  <2>4. \A v \in Users : user'[v].pc # "idle" => v = u BY <1>4, <2>1
  <2>5. SockAlone' /\ OwnFileOnly' BY <2>2, <2>4 DEF SockAlone, OwnFileOnly
  <2>6. ~Quiet' BY <1>2, <1>4 DEF Quiet
  <2>7. user'[u].pc = p BY <1>2, <1>4
  <2>8. SockPlaces' BY <2>2, <2>3, <2>4, <2>6, <2>7 DEF SockPlaces
  <2> QED BY <1>5, <2>5, <2>8 DEF SockIInv
<1> QED
  BY <1>5, <1>6, <1>7 DEF SockTypes

LEMMA SockBegin ==
    ASSUME SockIInv, NEW u \in Users, Begin(u), UNCHANGED <<fds, opens, stolen>>
    PROVE  SockIInv'
<1>0. SockTypes /\ NoAddr \in SockNames BY DEF SockIInv, SockNames
<1>1. ASSUME UNCHANGED <<m, rebound>>, NEW p \in SockPcs \ {"idle", "forget", "failed", "connected", "close", "closed"}
      PROVE  /\ m' \in [sock : FdNums \union {NoFd}, connected : BOOLEAN, local : SockNames, remote : SockNames]
             /\ m'.sock = m.sock /\ rebound' \in BOOLEAN
             /\ NamesAt("idle") => NamesAt(p)'
  BY <1>0, <1>1 DEF SockTypes, NamesAt, SockCurrent, Local
<1>2. ASSUME NEW to \in Addrs \union {Foreign}, NEW op \in {"bind", "connect"},
             Enter(u, op, "new", to), UNCHANGED <<m, rebound>>
      PROVE  SockIInv'
  <2>1. to \in SockNames BY DEF SockNames
  <2>2. /\ m' \in [sock : FdNums \union {NoFd}, connected : BOOLEAN, local : SockNames, remote : SockNames]
        /\ m'.sock = m.sock /\ rebound' \in BOOLEAN
        /\ NamesAt("idle") => NamesAt("new")'
    BY <1>1, <1>2 DEF SockPcs
  <2> QED BY <1>2, <2>1, <2>2, SockEnter DEF SockPcs
<1>3. CASE Enter(u, "connect", "new", m.remote) /\ m' = [m EXCEPT !.local = NoAddr] /\ rebound' = FALSE
  <2>1. PICK to \in SockNames : to = m.remote BY <1>0 DEF SockTypes
  <2>2. /\ m' \in [sock : FdNums \union {NoFd}, connected : BOOLEAN, local : SockNames, remote : SockNames]
        /\ m'.sock = m.sock /\ m'.remote = m.remote /\ m'.connected = m.connected /\ m'.local = NoAddr
    BY <1>0, <1>3 DEF SockTypes
  <2>3. NamesAt("idle") => NamesAt("new")'
    BY <2>2 DEF NamesAt, SockCurrent, Local
  <2>4. rebound' \in BOOLEAN BY <1>3
  <2>5. Enter(u, "connect", "new", to) BY <1>3, <2>1
  <2> QED BY <2>2, <2>3, <2>4, <2>5, SockEnter DEF SockPcs
<1>4. CASE Enter(u, "use", "use", NoAddr) /\ UNCHANGED <<m, rebound>>
  <2>1. /\ m' \in [sock : FdNums \union {NoFd}, connected : BOOLEAN, local : SockNames, remote : SockNames]
        /\ m'.sock = m.sock /\ rebound' \in BOOLEAN
        /\ NamesAt("idle") => NamesAt("use")'
    BY <1>1, <1>4 DEF SockPcs
  <2> QED BY <1>0, <1>4, <2>1, SockEnter DEF SockPcs
<1>5. CASE Enter(u, "addresses", "addresses", NoAddr) /\ UNCHANGED <<m, rebound>>
  <2>1. /\ m' \in [sock : FdNums \union {NoFd}, connected : BOOLEAN, local : SockNames, remote : SockNames]
        /\ m'.sock = m.sock /\ rebound' \in BOOLEAN
        /\ NamesAt("idle") => NamesAt("addresses")'
    BY <1>1, <1>5 DEF SockPcs
  <2> QED BY <1>0, <1>5, <2>1, SockEnter DEF SockPcs
<1>6. CASE Enter(u, "close", "close", NoAddr) /\ m' = [m EXCEPT !.connected = FALSE] /\ UNCHANGED rebound
  <2>1. /\ m' \in [sock : FdNums \union {NoFd}, connected : BOOLEAN, local : SockNames, remote : SockNames]
        /\ m'.sock = m.sock /\ ~m'.connected /\ rebound' \in BOOLEAN
    BY <1>0, <1>6 DEF SockTypes
  <2>2. NamesAt("close")' BY <2>1 DEF NamesAt
  <2> QED BY <1>0, <1>6, <2>1, <2>2, SockEnter DEF SockPcs
<1> QED
  BY <1>2, <1>3, <1>4, <1>5, <1>6 DEF Begin

\* The table changes where the object has no file.
LEMMA SockElsewhere ==
    ASSUME SockIInv, NEW d \in FdNums, NEW f \in SockFile, ~fds[d].mine, ~f.mine,
           fds' = [fds EXCEPT ![d] = f], UNCHANGED <<m, user, ops, overlap, rebound, stolen>>,
           opens' \in Nat, opens' = 0 => opens = 0 /\ ~f.up
    PROVE  SockIInv'
<1>1. SockTypes BY DEF SockIInv
<1>2. fds' \in [FdNums -> SockFile] /\ fds'[d] = f /\ \A e \in FdNums : e # d => fds'[e] = fds[e]
  BY <1>1 DEF SockTypes
<1>3. SockTypes' BY <1>1, <1>2 DEF SockTypes, Quiet
<1>4. SockAlone' /\ OwnFileOnly' BY DEF SockIInv, SockAlone, OwnFileOnly
<1>5. ASSUME NEW p, OwnAt(p), NamesAt(p) PROVE OwnAt(p)' /\ NamesAt(p)'
  <2>1. OwnAt(p)' BY <1>2, <1>5 DEF OwnAt
  <2>2. ASSUME p # "forget", SockCurrent PROVE SockCurrent'
    <3>1. m.sock \in FdNums BY <1>1, <2>2 DEF SockTypes, SockCurrent
    <3>2. m.sock # d BY <1>5, <2>2, <3>1 DEF OwnAt
    <3>3. fds'[m.sock] = fds[m.sock] BY <1>2, <3>1, <3>2
    <3> QED BY <2>2, <3>3 DEF SockCurrent, Local
  <2> QED BY <1>5, <2>1, <2>2 DEF NamesAt
<1>6. SockPlaces' BY <1>5 DEF SockIInv, SockPlaces, Quiet
<1> QED
  BY <1>3, <1>4, <1>6 DEF SockIInv

LEMMA SockAdopt ==
    ASSUME SockIInv, Adopt
    PROVE  SockIInv'
<1>0. /\ SockTypes /\ opens = 0 /\ ops = 0 /\ opens' = 1 /\ UNCHANGED <<user, ops, overlap, rebound, stolen>>
      /\ \A u \in Users : user[u].pc = "idle"
  BY DEF SockIInv, SockTypes, Adopt, Quiet
<1>a. ASSUME NEW d \in FdNums, NEW a \in Addrs, UNCHANGED m,
             fds' = [fds EXCEPT ![d] = [mine |-> FALSE, name |-> Lost, peer |-> a, up |-> TRUE]]
      PROVE  SockIInv'
  <2> DEFINE f == [mine |-> FALSE, name |-> Lost, peer |-> a, up |-> TRUE]
  <2>1. f \in SockFile /\ ~f.mine /\ fds' = [fds EXCEPT ![d] = f] BY <1>a DEF SockFile, SockNames
  <2> HIDE DEF f
  <2>2. ~fds[d].mine /\ opens' \in Nat /\ opens' # 0 BY <1>0 DEF SockTypes
  <2> QED BY <1>0, <1>a, <2>1, <2>2, SockElsewhere
<1>b. SUFFICES ASSUME ~\E d \in FdNums, a \in Addrs :
                          /\ fds' = [fds EXCEPT ![d] = [mine |-> FALSE, name |-> Lost, peer |-> a, up |-> TRUE]]
                          /\ UNCHANGED m
               PROVE  SockIInv'
  BY <1>a
<1>1. PICK d \in FdNums, a \in Addrs :
          /\ m' = [sock |-> d, connected |-> TRUE, local |-> Picked, remote |-> a]
          /\ fds' = [fds EXCEPT ![d] = [mine |-> TRUE, name |-> Picked, peer |-> a, up |-> TRUE]]
  BY <1>b DEF Adopt
<1> DEFINE f == [mine |-> TRUE, name |-> Picked, peer |-> a, up |-> TRUE]
<1>2. f \in SockFile /\ f.mine /\ f.up /\ f.peer = a /\ f.name = Picked
  BY DEF SockFile, SockNames
<1>3. fds' = [fds EXCEPT ![d] = f] BY <1>1
<1> HIDE DEF f
<1>4. fds' \in [FdNums -> SockFile] /\ fds'[d] = f /\ \A e \in FdNums : e # d => fds'[e] = fds[e]
  BY <1>0, <1>2, <1>3 DEF SockTypes
<1>5. /\ m' \in [sock : FdNums \union {NoFd}, connected : BOOLEAN, local : SockNames, remote : SockNames]
      /\ m'.sock = d /\ m'.local = Picked /\ m'.remote = a
  BY <1>1 DEF SockNames
<1>6. \A e \in FdNums : ~fds[e].mine BY <1>0 DEF SockTypes
<1>7. SockTypes' BY <1>0, <1>2, <1>4, <1>5, <1>6 DEF SockTypes, Quiet
<1>8. SockAlone' /\ OwnFileOnly' BY <1>0 DEF SockIInv, SockAlone, OwnFileOnly
<1>9. OwnAt("idle")' BY <1>2, <1>4, <1>5, <1>6 DEF OwnAt
<1>10. d # NoFd BY SocketAssumption DEF NoFd
<1>11. NamesAt("idle")' BY <1>2, <1>4, <1>5, <1>10, Zenon DEF NamesAt, SockCurrent, Local
<1>12. SockPlaces' BY <1>0, <1>9, <1>11 DEF SockPlaces
<1> QED
  BY <1>7, <1>8, <1>12 DEF SockIInv

LEMMA SockOthers ==
    ASSUME SockIInv, Others
    PROVE  SockIInv'
<1>0. SockTypes /\ UNCHANGED <<m, user, ops, overlap, rebound, stolen>> BY DEF SockIInv, Others
<1>1. CASE /\ Open # FdNums
           /\ fds' = [fds EXCEPT ![Min(FdNums \ Open)] = [Closed EXCEPT !.up = TRUE]]
           /\ opens' = opens + 1
  <2>1. PICK d \in FdNums : d = Min(FdNums \ Open) /\ ~fds[d].up BY <1>0, <1>1, FreeNumber
  <2> DEFINE f == [Closed EXCEPT !.up = TRUE]
  <2>2. f \in SockFile /\ ~f.mine BY DEF Closed, SockFile, SockNames
  <2>3. fds' = [fds EXCEPT ![d] = f] BY <1>1, <2>1
  <2> HIDE DEF f
  <2>4. ~fds[d].mine /\ opens' \in Nat /\ opens' # 0 BY <1>0, <1>1, <2>1 DEF SockTypes
  <2> QED BY <1>0, <2>2, <2>3, <2>4, SockElsewhere
<1>2. ASSUME NEW d \in Open, ~fds[d].mine, fds' = [fds EXCEPT ![d] = Closed], opens' = opens
      PROVE  SockIInv'
  <2>1. Closed \in SockFile /\ ~Closed.mine /\ ~Closed.up BY DEF Closed, SockFile, SockNames
  <2>2. d \in FdNums BY DEF Open
  <2>3. opens' \in Nat /\ (opens' = 0 => opens = 0) BY <1>0, <1>2 DEF SockTypes
  <2> QED BY <1>0, <1>2, <2>1, <2>2, <2>3, SockElsewhere
<1> QED
  BY <1>1, <1>2 DEF Others

LEMMA SockStep == SockIInv /\ [SocketNext]_sockVars => SockIInv'
<1> SUFFICES ASSUME SockIInv, [SocketNext]_sockVars PROVE SockIInv'
  OBVIOUS
<1>1. CASE SocketNext
  BY <1>1, SockAdopt, SockOthers, SockBegin, SockNewSock, SockBind, SockConnect, SockAddresses,
     SockFailed, SockUse, SockClose, SockForget DEF SocketNext
<1>2. CASE UNCHANGED sockVars
  BY <1>2 DEF sockVars, SockIInv, SockTypes, SockAlone, SockPlaces, OwnFileOnly, Quiet, OwnAt, NamesAt,
              SockCurrent, Local
<1> QED
  BY <1>1, <1>2

\* Socket, used by one thread at a time: every call reaches its own file, also after the
\* kernel has given numbers to others; it owns m_sock's file and no other; a connected one
\* reports the peer of its file, and its name unless that changed after it was cached.
THEOREM SocketKeepsItsFile == SocketSpec => []SocketInv
<1>1. ASSUME SockIInv PROVE SocketInv
  <2>0. SockTypes BY <1>1 DEF SockIInv
  <2>1. ASSUME Quiet, ~overlap PROVE {d \in Open : fds[d].mine} = {m.sock} \ {NoFd}
    <3>1. OwnAt("idle") BY <1>1, <2>1 DEF SockIInv, SockPlaces
    <3>2. \A d \in FdNums : fds[d].mine => fds[d].up BY <2>0 DEF SockTypes
    <3>3. m.sock \in FdNums \union {NoFd} /\ NoFd \notin FdNums
      BY <2>0, SocketAssumption DEF SockTypes, NoFd
    <3> QED BY <3>1, <3>2, <3>3 DEF OwnAt, Open
  <2>2. ASSUME Quiet, ~overlap, m.connected PROVE SockCurrent
    BY <1>1, <2>2 DEF SockIInv, SockPlaces, NamesAt
  <2>3. NothingLeaked BY <2>1 DEF NothingLeaked
  <2>4. AddressesCurrent BY <2>2 DEF AddressesCurrent, SockCurrent
  <2> QED BY <1>1, <2>3, <2>4 DEF SocketInv, SockIInv
<1> QED
  BY <1>1, SockInitially, SockStep, PTL DEF SocketSpec

-----------------------------------------------------------------------------
(* Logger                                                                    *)

LogPlace == [pc : {"away", "log", "walk"}, at : Nat]
LogForm == [formatter : Formatters \union {NoFormatter}, has : BOOLEAN]

\* Whoever walks the list is at a place of it, unless the list has been changed behind it.
LogTypes ==
    /\ logger \in [formatter : Formatters \union {NoFormatter}, list : Seq(Appenders)]
    /\ appender \in [Appenders -> LogForm]
    /\ luser \in [LogUsers -> LogPlace]
    /\ met \in BOOLEAN /\ nulled \in BOOLEAN
    /\ hurt = {} => \A u \in LogUsers : luser[u].pc # "away" => luser[u].at \in 1 .. Len(logger.list)

\* Two at work have met.
LogAlone ==
    ~met => \A u, v \in LogUsers : u # v /\ luser[u].pc # "away" => luser[v].pc = "away"

\* Without a null pointer given, whatever is attached has a formatter.
LogFormed ==
    ~nulled =>
        /\ logger.formatter # NoFormatter
        /\ \A a \in Appenders : InList(a) => appender[a].formatter # NoFormatter

\* An appender with m_hasFormatter set need not follow.
LogFlagged == \A a \in Appenders : appender[a].has => a \in astray

\* Some setFormatter(pointer) has still to come by a.
Ahead(a) ==
    \E u \in LogUsers, i \in 1 .. Len(logger.list) :
        luser[u].pc = "walk" /\ luser[u].at <= i /\ logger.list[i] = a

\* An attached appender has the logger's formatter or is about to be given it.
LogFollows ==
    hurt = {} =>
        \A a \in Appenders : InList(a) /\ a \notin astray =>
            appender[a].formatter = logger.formatter \/ Ahead(a)

LogIInv == LogTypes /\ LogAlone /\ LogFormed /\ LogFlagged /\ LogFollows /\ LoggerSound

LEMMA LogInitially == LoggerInit => LogIInv
<1> SUFFICES ASSUME LoggerInit PROVE LogIInv
  OBVIOUS
<1>1. Away \in LogPlace /\ Away.pc = "away" BY DEF Away, LogPlace
<1>2. PICK f \in Formatters : logger = [formatter |-> f, list |-> <<>>] /\ f # NoFormatter
  BY LoggerAssumption DEF LoggerInit
<1>3. /\ luser \in [LogUsers -> LogPlace] /\ \A u \in LogUsers : luser[u].pc = "away"
      /\ appender \in [Appenders -> LogForm] /\ \A a \in Appenders : ~appender[a].has
  BY <1>1 DEF LoggerInit, LogForm
<1>4. met = FALSE /\ nulled = FALSE /\ hurt = {} BY DEF LoggerInit
<1>5. \A a \in Appenders : ~InList(a) BY <1>2 DEF InList
<1>6. <<>> \in Seq(Appenders) OBVIOUS
<1>7. LogTypes BY <1>2, <1>3, <1>4, <1>6 DEF LogTypes
<1>8. LogAlone /\ LogFormed /\ LogFlagged /\ LogFollows /\ LoggerSound
  BY <1>2, <1>3, <1>4, <1>5 DEF LogAlone, LogFormed, LogFlagged, LogFollows, LoggerSound
<1> QED
  BY <1>7, <1>8 DEF LogIInv

\* What is in the list, by index.
LEMMA InListIs ==
    ASSUME LogTypes, NEW a
    PROVE  InList(a) <=> \E i \in 1 .. Len(logger.list) : logger.list[i] = a
<1>1. logger.list \in Seq(Appenders) BY DEF LogTypes
<1>2. DOMAIN logger.list = 1 .. Len(logger.list) BY <1>1
<1> QED
  BY <1>2 DEF InList

\* m_appenders.erase: what is left was there.
LEMMA Erased ==
    ASSUME NEW S, NEW s \in Seq(S), NEW a
    PROVE  /\ RemoveFirst(s, a) \in Seq(S)
           /\ \A i \in 1 .. Len(RemoveFirst(s, a)) : \E j \in 1 .. Len(s) : RemoveFirst(s, a)[i] = s[j]
<1>1. CASE ~\E i \in 1 .. Len(s) : s[i] = a
  <2>1. RemoveFirst(s, a) = s BY <1>1 DEF RemoveFirst
  <2> QED BY <2>1
<1>2. CASE \E i \in 1 .. Len(s) : s[i] = a
  <2> DEFINE I == {i \in 1 .. Len(s) : s[i] = a}
  <2>1. I # {} /\ I \subseteq Nat BY <1>2
  <2>2. Min(I) \in I BY <2>1, LeastId
  <2>3. PICK k \in 1 .. Len(s) : k = Min(I) BY <2>2
  <2>4. SelectInSeq(s, LAMBDA v : v = a) = k BY <2>1, <2>3 DEF SelectInSeq
  <2>5. RemoveFirst(s, a) = SubSeq(s, 1, k - 1) \o SubSeq(s, k + 1, Len(s))
    BY <1>2, <2>4 DEF RemoveFirst, RemoveAt
  <2>6. PICK p : p = SubSeq(s, 1, k - 1) OBVIOUS
  <2>7. PICK q : q = SubSeq(s, k + 1, Len(s)) OBVIOUS
  <2>8. \A i \in 1 .. Len(s) : s[i] \in S OBVIOUS
  <2>9. /\ p \in Seq(S) /\ Len(p) = k - 1
        /\ \A i \in 1 .. k - 1 : p[i] = s[i]
    <3>1. /\ SubSeq(s, 1, k - 1) \in Seq(S)
          /\ Len(SubSeq(s, 1, k - 1)) = IF 1 <= k - 1 THEN k - 1 - 1 + 1 ELSE 0
          /\ \A i \in 1 .. k - 1 - 1 + 1 : SubSeq(s, 1, k - 1)[i] = s[1 + i - 1]
      BY <2>8, SubSeqProperties
    <3> QED BY <2>6, <3>1
  <2>10. /\ q \in Seq(S) /\ Len(q) = Len(s) - k
         /\ \A i \in 1 .. Len(s) - k : q[i] = s[k + i]
    <3>1. /\ SubSeq(s, k + 1, Len(s)) \in Seq(S)
          /\ Len(SubSeq(s, k + 1, Len(s))) = IF k + 1 <= Len(s) THEN Len(s) - (k + 1) + 1 ELSE 0
          /\ \A i \in 1 .. Len(s) - (k + 1) + 1 : SubSeq(s, k + 1, Len(s))[i] = s[(k + 1) + i - 1]
      BY <2>8, SubSeqProperties
    <3> QED BY <2>7, <3>1
  <2>11. /\ p \o q \in Seq(S) /\ Len(p \o q) = Len(p) + Len(q)
         /\ \A i \in 1 .. Len(p) + Len(q) : (p \o q)[i] = IF i <= Len(p) THEN p[i] ELSE q[i - Len(p)]
    BY <2>9, <2>10, ConcatProperties
  <2>12. RemoveFirst(s, a) = p \o q BY <2>5, <2>6, <2>7
  <2>13. ASSUME NEW i \in 1 .. Len(p \o q) PROVE \E j \in 1 .. Len(s) : (p \o q)[i] = s[j]
    <3>1. CASE i <= Len(p)
      <4>1. (p \o q)[i] = s[i] /\ i \in 1 .. Len(s) BY <2>9, <2>10, <2>11, <2>13, <3>1
      <4> QED BY <4>1
    <3>2. CASE i > Len(p)
      <4>1. (p \o q)[i] = s[i + 1] /\ i + 1 \in 1 .. Len(s) BY <2>9, <2>10, <2>11, <2>13, <3>2
      <4> QED BY <4>1
    <3> QED BY <2>9, <3>1, <3>2
  <2> QED BY <2>11, <2>12, <2>13
<1> QED
  BY <1>1, <1>2

\* m_appenders becomes a list that was made under the lock.
LEMMA LogRelist ==
    ASSUME LogIInv, hurt = {}, ~Locked, NEW list \in Seq(Appenders), ListTo(list), luser' = luser, nulled' = nulled,
           appender' \in [Appenders -> LogForm], LogFormed', LogFlagged',
           AtWork = {} => \A a \in Appenders : InList(a)' /\ a \notin astray' =>
                             appender'[a].formatter = logger'.formatter
    PROVE  LogIInv'
<1>1. LogTypes BY DEF LogIInv
<1>2. /\ logger' \in [formatter : Formatters \union {NoFormatter}, list : Seq(Appenders)]
  BY <1>1 DEF LogTypes, ListTo
<1>3. met' = (met \/ \E u \in LogUsers : luser[u].pc = "walk") BY DEF ListTo, Walkers
<1>4. met' \in BOOLEAN BY <1>1, <1>3 DEF LogTypes
<1>5. CASE AtWork # {}
  <2>1. hurt' # {} BY <1>5 DEF ListTo
  <2>2. PICK u \in LogUsers : luser[u].pc # "away" BY <1>5 DEF AtWork
  <2>3. luser[u].pc = "walk" BY <1>1, <2>2 DEF Locked, LogTypes, LogPlace
  <2>4. met' BY <1>3, <2>3
  <2>5. LogTypes' BY <1>1, <1>2, <1>4, <2>1 DEF LogTypes
  <2>6. LogAlone' /\ LogFollows' /\ LoggerSound' BY <2>1, <2>4 DEF LogAlone, LogFollows, LoggerSound
  <2> QED BY <2>5, <2>6 DEF LogIInv
<1>6. CASE AtWork = {}
  <2>1. hurt' = {} BY <1>6 DEF ListTo
  <2>2. \A u \in LogUsers : luser[u].pc = "away" BY <1>6 DEF AtWork
  <2>3. LogTypes' BY <1>1, <1>2, <1>4, <2>2 DEF LogTypes
  <2>4. LogAlone' BY <2>2 DEF LogAlone
  <2>5. LogFollows' BY <1>6 DEF LogFollows
  <2>6. LoggerSound' BY <2>1 DEF LoggerSound
  <2> QED BY <2>3, <2>4, <2>5, <2>6 DEF LogIInv
<1> QED
  BY <1>5, <1>6

\* At rest, nobody is about to be given a formatter.
LEMMA LogAtRest ==
    ASSUME LogIInv, hurt = {}, AtWork = {}, NEW a \in Appenders, InList(a), a \notin astray
    PROVE  appender[a].formatter = logger.formatter
<1>1. ~Ahead(a) BY DEF Ahead, AtWork
<1> QED
  BY <1>1 DEF LogIInv, LogFollows

LEMMA LogAdd ==
    ASSUME LogIInv, hurt = {}, NEW a \in Appenders, AddAppender(a)
    PROVE  LogIInv'
<1>1. LogTypes BY DEF LogIInv
<1>2. PICK list \in Seq(Appenders) : list = Append(logger.list, a)
  <2>1. logger.list \in Seq(Appenders) BY <1>1 DEF LogTypes
  <2>2. Append(logger.list, a) \in Seq(Appenders) BY <2>1
  <2> QED BY <2>2
<1>3. ~Locked /\ ListTo(list) /\ luser' = luser /\ nulled' = nulled BY <1>2 DEF AddAppender, WithLock
<1>4. PICK f \in Formatters \union {NoFormatter} :
         f = IF appender[a].formatter # NoFormatter THEN appender[a].formatter ELSE logger.formatter
  BY <1>1 DEF LogTypes, LogForm
<1> DEFINE r == [appender[a] EXCEPT !.formatter = f]
<1>5. r \in LogForm /\ r.formatter = f /\ r.has = appender[a].has BY <1>1 DEF LogTypes, LogForm
<1>6. appender' = [appender EXCEPT ![a] = r] BY <1>4 DEF AddAppender
<1> HIDE DEF r
<1>7. /\ appender' \in [Appenders -> LogForm] /\ appender'[a] = r
      /\ \A b \in Appenders : b # a => appender'[b] = appender[b]
  BY <1>1, <1>5, <1>6 DEF LogTypes
<1>8. logger'.formatter = logger.formatter /\ logger'.list = list BY <1>1, <1>3 DEF ListTo, LogTypes
<1>9. ASSUME NEW b \in Appenders, InList(b)', b # a PROVE InList(b)
  <2>1. logger.list \in Seq(Appenders) /\ Len(list) = Len(logger.list) + 1
        /\ \A i \in 1 .. Len(logger.list) : list[i] = logger.list[i]
    BY <1>1, <1>2 DEF LogTypes
  <2>2. list[Len(logger.list) + 1] = a BY <1>1, <1>2 DEF LogTypes
  <2>3. PICK i \in DOMAIN list : list[i] = b BY <1>8, <1>9 DEF InList
  <2>4. i \in 1 .. Len(logger.list) + 1 BY <2>1, <2>3
  <2>5. i # Len(logger.list) + 1 BY <1>9, <2>2, <2>3
  <2>6. i \in 1 .. Len(logger.list) BY <2>1, <2>4, <2>5
  <2>7. logger.list[i] = b BY <2>1, <2>3, <2>6
  <2> QED BY <1>1, <2>6, <2>7, InListIs
<1>10. astray' = IF appender[a].formatter \notin {NoFormatter, logger.formatter} THEN astray \union {a} ELSE astray
  BY DEF AddAppender
<1>11. LogFormed'
  BY <1>3, <1>4, <1>5, <1>7, <1>8, <1>9 DEF LogIInv, LogFormed
<1>12. LogFlagged'
  BY <1>5, <1>7, <1>10 DEF LogIInv, LogFlagged
<1>13. ASSUME AtWork = {}, NEW b \in Appenders, InList(b)', b \notin astray'
       PROVE  appender'[b].formatter = logger'.formatter
  <2>1. CASE b = a BY <1>4, <1>5, <1>7, <1>8, <1>10, <1>13, <2>1
  <2>2. CASE b # a BY <1>7, <1>8, <1>9, <1>10, <1>13, <2>2, LogAtRest
  <2> QED BY <2>1, <2>2
<1> QED
  BY <1>3, <1>7, <1>11, <1>12, <1>13, LogRelist

LEMMA LogDel ==
    ASSUME LogIInv, hurt = {}, ClearAppenders \/ (\E a \in Appenders : DelAppender(a))
    PROVE  LogIInv'
<1>1. LogTypes BY DEF LogIInv
<1>2. PICK list \in Seq(Appenders) :
         /\ ListTo(list)
         /\ \A i \in 1 .. Len(list) : \E j \in 1 .. Len(logger.list) : list[i] = logger.list[j]
  <2>1. CASE ClearAppenders
    <3>1. ListTo(<<>>) BY <2>1 DEF ClearAppenders
    <3>2. <<>> \in Seq(Appenders) /\ Len(<<>>) = 0 BY EmptySeq
    <3>3. PICK none \in Seq(Appenders) : none = <<>> BY <3>2
    <3>4. \A i \in 1 .. Len(none) : FALSE BY <3>2, <3>3
    <3> QED BY <3>1, <3>3, <3>4
  <2>2. ASSUME NEW a \in Appenders, DelAppender(a)
        PROVE  \E list \in Seq(Appenders) :
                  /\ ListTo(list)
                  /\ \A i \in 1 .. Len(list) : \E j \in 1 .. Len(logger.list) : list[i] = logger.list[j]
    <3>1. logger.list \in Seq(Appenders) BY <1>1 DEF LogTypes
    <3>2. ListTo(RemoveFirst(logger.list, a)) BY <2>2 DEF DelAppender
    <3> QED BY <3>1, <3>2, Erased
  <2> QED BY <2>1, <2>2
<1>3. ~Locked /\ UNCHANGED <<appender, luser, nulled, astray>>
  BY DEF ClearAppenders, DelAppender, WithLock
<1>4. logger'.formatter = logger.formatter /\ logger'.list = list BY <1>1, <1>2 DEF ListTo, LogTypes
<1>5. ASSUME NEW b \in Appenders, InList(b)' PROVE InList(b)
  <2>1. PICK i \in DOMAIN list : list[i] = b BY <1>4, <1>5 DEF InList
  <2>2. i \in 1 .. Len(list) BY <2>1
  <2>3. PICK j \in 1 .. Len(logger.list) : list[i] = logger.list[j] BY <1>2, <2>2
  <2> QED BY <1>1, <2>1, <2>3, InListIs
<1>6. LogFormed' /\ LogFlagged'
  BY <1>3, <1>4, <1>5 DEF LogIInv, LogFormed, LogFlagged
<1>7. ASSUME AtWork = {}, NEW b \in Appenders, InList(b)', b \notin astray'
      PROVE  appender'[b].formatter = logger'.formatter
  BY <1>3, <1>4, <1>5, <1>7, LogAtRest
<1>8. appender' \in [Appenders -> LogForm] BY <1>1, <1>3 DEF LogTypes
<1> QED
  BY <1>2, <1>3, <1>6, <1>7, <1>8, LogRelist

LEMMA LogSetPattern ==
    ASSUME LogIInv, hurt = {}, NEW f \in Formatters, SetPattern(f)
    PROVE  LogIInv'
<1>1. LogTypes BY DEF LogIInv
<1>2. /\ UNCHANGED <<luser, nulled, astray>> /\ f # NoFormatter
      /\ met' = (met \/ Walkers(LogUsers) # {})
      /\ hurt' # {} => Walkers(LogUsers) # {}
  BY LoggerAssumption DEF SetPattern, StoreFormatter
<1>3. /\ logger' \in [formatter : Formatters \union {NoFormatter}, list : Seq(Appenders)]
      /\ logger'.formatter = f /\ logger'.list = logger.list
  BY <1>1 DEF LogTypes, SetPattern
<1>4. \A a \in Appenders : InList(a)' <=> InList(a) BY <1>3 DEF InList
<1>5. appender' = [a \in Appenders |->
          IF InList(a) /\ ~appender[a].has THEN [appender[a] EXCEPT !.formatter = f] ELSE appender[a]]
  BY DEF SetPattern
<1>6. ASSUME NEW a \in Appenders
      PROVE  /\ appender'[a] \in LogForm /\ appender'[a].has = appender[a].has
             /\ InList(a) /\ ~appender[a].has => appender'[a].formatter = f
             /\ appender'[a].formatter \in {f, appender[a].formatter}
  <2>1. appender[a] \in LogForm BY <1>1 DEF LogTypes
  <2>2. CASE InList(a) /\ ~appender[a].has BY <1>5, <2>1, <2>2 DEF LogForm
  <2>3. CASE ~(InList(a) /\ ~appender[a].has)
    <3>1. appender'[a] = appender[a] BY <1>5, <2>3
    <3> QED BY <2>1, <2>3, <3>1
  <2> QED BY <2>2, <2>3
<1>7. LogTypes'
  <2>1. appender' \in [Appenders -> LogForm] BY <1>5, <1>6
  <2>2. met' \in BOOLEAN BY <1>1, <1>2 DEF LogTypes
  <2> QED BY <1>1, <1>2, <1>3, <2>1, <2>2 DEF LogTypes
<1>8. LogAlone' BY <1>2 DEF LogIInv, LogAlone
<1>9. LogFormed' BY <1>2, <1>3, <1>4, <1>6 DEF LogIInv, LogFormed
<1>10. LogFlagged' BY <1>2, <1>6 DEF LogIInv, LogFlagged
<1>11. LogFollows' BY <1>2, <1>3, <1>4, <1>6 DEF LogIInv, LogFollows, LogFlagged
<1>12. LoggerSound' BY <1>2 DEF LoggerSound
<1> QED
  BY <1>7, <1>8, <1>9, <1>10, <1>11, <1>12 DEF LogIInv

\* log() and setFormatter(pointer) begin: whoever begins while another is at work meets it.
LEMMA LogEnters ==
    ASSUME LogIInv, hurt = {}, NEW u \in LogUsers, LogBegin(u) \/ (\E f \in Formatters \union {NoFormatter} : WalkBegin(u, f))
    PROVE  LogIInv'
<1>1. LogTypes BY DEF LogIInv
<1>2. PICK r \in LogPlace :
         /\ luser' = [luser EXCEPT ![u] = r]
         /\ r.pc # "away" => r.at = 1 /\ logger.list # <<>>
         /\ (r.pc = "log" /\ LogBegin(u)) \/ (r.pc = "walk" /\ ~LogBegin(u)) \/ (r.pc = "away" /\ logger.list = <<>>)
  <2>1. Away \in LogPlace /\ Away.pc = "away" BY DEF Away, LogPlace
  <2>2. CASE LogBegin(u)
    <3>1. PICK r \in LogPlace : r = [pc |-> "log", at |-> 1] BY DEF LogPlace
    <3> QED BY <2>2, <3>1 DEF LogBegin
  <2>3. ASSUME ~LogBegin(u), NEW f \in Formatters \union {NoFormatter}, WalkBegin(u, f)
        PROVE  \E r \in LogPlace :
                  /\ luser' = [luser EXCEPT ![u] = r]
                  /\ r.pc # "away" => r.at = 1 /\ logger.list # <<>>
                  /\ (r.pc = "log" /\ LogBegin(u)) \/ (r.pc = "walk" /\ ~LogBegin(u)) \/ (r.pc = "away" /\ logger.list = <<>>)
    <3>1. PICK r \in LogPlace : r = [pc |-> "walk", at |-> 1] BY DEF LogPlace
    <3>2. CASE logger.list = <<>>
      <4>1. luser' = [luser EXCEPT ![u] = Away] BY <2>3, <3>2 DEF WalkBegin
      <4> QED BY <2>1, <3>2, <4>1
    <3>3. CASE logger.list # <<>>
      <4>1. luser' = [luser EXCEPT ![u] = r] /\ r.pc = "walk" /\ r.at = 1 BY <2>3, <3>1, <3>3 DEF WalkBegin
      <4> QED BY <2>3, <3>3, <4>1
    <3> QED BY <3>2, <3>3
  <2> QED BY <2>2, <2>3
<1>3. /\ luser[u].pc = "away" /\ met' = (met \/ AtWork # {}) /\ UNCHANGED <<appender, astray>>
      /\ hurt' # {} => AtWork # {}
  <2>1. Walkers(LogUsers) \subseteq AtWork BY DEF Walkers, AtWork
  <2> QED BY <2>1 DEF LogBegin, WalkBegin, StoreFormatter
<1>4. luser' \in [LogUsers -> LogPlace] /\ luser'[u] = r /\ \A v \in LogUsers \ {u} : luser'[v] = luser[v]
  BY <1>1, <1>2 DEF LogTypes
<1>5. /\ logger' \in [formatter : Formatters \union {NoFormatter}, list : Seq(Appenders)]
      /\ logger'.list = logger.list
      /\ LogBegin(u) => logger' = logger
  BY <1>1 DEF LogTypes, LogBegin, WalkBegin
<1>6. nulled' \in BOOLEAN /\ (~nulled' => ~nulled /\ logger'.formatter # NoFormatter)
  <2>1. CASE LogBegin(u) BY <1>1, <2>1 DEF LogBegin, LogTypes, LogIInv, LogFormed
  <2>2. ASSUME NEW f \in Formatters \union {NoFormatter}, WalkBegin(u, f)
        PROVE  nulled' \in BOOLEAN /\ (~nulled' => ~nulled /\ logger'.formatter # NoFormatter)
    BY <1>1, <2>2 DEF WalkBegin, LogTypes
  <2> QED BY <2>1, <2>2
<1>7. \A a \in Appenders : InList(a)' <=> InList(a) BY <1>5 DEF InList
<1>8. logger.list \in Seq(Appenders) BY <1>1 DEF LogTypes
<1>9. logger.list # <<>> => 1 \in 1 .. Len(logger.list)
  BY <1>8, EmptySeq
<1>10. LogTypes'
  <2>1. met' \in BOOLEAN BY <1>1, <1>3 DEF LogTypes
  <2>2. \A v \in LogUsers : luser'[v].pc # "away" => luser'[v].at \in 1 .. Len(logger'.list)
    BY <1>1, <1>2, <1>4, <1>5, <1>9 DEF LogTypes
  <2> QED BY <1>1, <1>3, <1>4, <1>5, <1>6, <2>1, <2>2 DEF LogTypes
<1>11. LogAlone'
  BY <1>3, <1>4 DEF LogAlone, AtWork
<1>12. LogFormed' BY <1>3, <1>6, <1>7 DEF LogIInv, LogFormed
<1>13. LogFlagged' /\ LoggerSound' BY <1>3 DEF LogIInv, LogFlagged, LoggerSound
<1>14. LogFollows'
  <2> SUFFICES ASSUME NEW a \in Appenders, InList(a), a \notin astray
               PROVE  appender'[a].formatter = logger'.formatter \/ Ahead(a)'
    BY <1>3, <1>7 DEF LogFollows
  <2>0. PICK i \in 1 .. Len(logger.list) : logger.list[i] = a BY <1>1, InListIs
  <2>1. CASE r.pc = "log" /\ LogBegin(u)
    <3>1. CASE Ahead(a)
      <4>1. PICK v \in LogUsers, k \in 1 .. Len(logger.list) :
               luser[v].pc = "walk" /\ luser[v].at <= k /\ logger.list[k] = a
        BY <3>1 DEF Ahead
      <4>2. luser'[v] = luser[v] BY <1>3, <1>4, <4>1
      <4> QED BY <1>5, <4>1, <4>2 DEF Ahead
    <3>2. CASE ~Ahead(a) BY <1>3, <1>5, <2>1, <3>2 DEF LogIInv, LogFollows
    <3> QED BY <3>1, <3>2
  <2>2. CASE r.pc = "walk"
    <3>1. luser'[u].pc = "walk" /\ luser'[u].at <= i BY <1>2, <1>4, <2>2
    <3> QED BY <1>5, <2>0, <3>1 DEF Ahead
  <2>3. CASE logger.list = <<>> BY <2>0, <2>3
  <2> QED BY <1>2, <2>1, <2>2, <2>3
<1> QED
  BY <1>10, <1>11, <1>12, <1>13, <1>14 DEF LogIInv

\* Where a walk goes on to.
LEMMA LogNextPlace ==
    ASSUME LogIInv, hurt = {}, NEW u \in LogUsers, luser[u].pc # "away", luser' = [luser EXCEPT ![u] = NextPlace(u)]
    PROVE  /\ luser' \in [LogUsers -> LogPlace] /\ \A v \in LogUsers \ {u} : luser'[v] = luser[v]
           /\ luser[u].at \in 1 .. Len(logger.list) /\ luser[u].at \in Nat /\ Len(logger.list) \in Nat
           /\ \/ luser[u].at = Len(logger.list) /\ luser'[u].pc = "away"
              \/ /\ luser[u].at < Len(logger.list) /\ luser'[u].pc = luser[u].pc
                 /\ luser'[u].at = luser[u].at + 1
<1>1. LogTypes BY DEF LogIInv
<1>2. luser[u] \in LogPlace /\ luser[u].at \in 1 .. Len(logger.list) /\ logger.list \in Seq(Appenders)
  BY <1>1 DEF LogTypes
<1>3. Len(logger.list) \in Nat BY <1>2
<1>4. PICK r \in LogPlace : /\ r = NextPlace(u)
                            /\ \/ luser[u].at = Len(logger.list) /\ r.pc = "away"
                               \/ /\ luser[u].at < Len(logger.list) /\ r.pc = luser[u].pc
                                  /\ r.at = luser[u].at + 1
  <2>1. CASE luser[u].at = Len(logger.list)
    <3>1. NextPlace(u) = Away /\ Away \in LogPlace /\ Away.pc = "away" BY <2>1 DEF NextPlace, Away, LogPlace
    <3> QED BY <2>1, <3>1
  <2>2. CASE luser[u].at # Len(logger.list)
    <3>1. NextPlace(u) = [luser[u] EXCEPT !.at = luser[u].at + 1] BY <2>2 DEF NextPlace
    <3>2. luser[u].at + 1 \in Nat /\ luser[u].at < Len(logger.list) BY <1>2, <1>3, <2>2
    <3>3. NextPlace(u) \in LogPlace /\ NextPlace(u).pc = luser[u].pc /\ NextPlace(u).at = luser[u].at + 1
      BY <1>2, <3>1, <3>2 DEF LogPlace
    <3> QED BY <3>2, <3>3
  <2> QED BY <2>1, <2>2
<1>5. luser' \in [LogUsers -> LogPlace] /\ luser'[u] = r /\ \A v \in LogUsers \ {u} : luser'[v] = luser[v]
  BY <1>1, <1>4 DEF LogTypes
<1> QED
  BY <1>2, <1>3, <1>4, <1>5

LEMMA LogLogOne ==
    ASSUME LogIInv, hurt = {}, NEW u \in LogUsers, LogOne(u)
    PROVE  LogIInv'
<1>1. LogTypes BY DEF LogIInv
<1>2. /\ luser[u].pc = "log" /\ luser' = [luser EXCEPT ![u] = NextPlace(u)]
      /\ UNCHANGED <<logger, appender, met, nulled, astray>>
  BY DEF LogOne
<1>3. /\ luser' \in [LogUsers -> LogPlace] /\ \A v \in LogUsers \ {u} : luser'[v] = luser[v]
      /\ luser[u].at \in 1 .. Len(logger.list) /\ luser[u].at \in Nat /\ Len(logger.list) \in Nat
      /\ \/ luser[u].at = Len(logger.list) /\ luser'[u].pc = "away"
         \/ /\ luser[u].at < Len(logger.list) /\ luser'[u].pc = luser[u].pc
            /\ luser'[u].at = luser[u].at + 1
  BY <1>2, LogNextPlace
<1>4. LogTypes'
  <2>1. \A v \in LogUsers : luser'[v].pc # "away" => luser'[v].at \in 1 .. Len(logger.list)
    BY <1>1, <1>3 DEF LogTypes
  <2> QED BY <1>1, <1>2, <1>3, <2>1 DEF LogTypes
<1>5. LogAlone' BY <1>2, <1>3 DEF LogIInv, LogAlone
<1>6. \A a \in Appenders : InList(a)' <=> InList(a) BY <1>2 DEF InList
<1>7. LogFormed' /\ LogFlagged' BY <1>2, <1>6 DEF LogIInv, LogFormed, LogFlagged
<1>8. LogFollows'
  <2> SUFFICES ASSUME NEW a \in Appenders, Ahead(a) PROVE Ahead(a)'
    BY <1>2, <1>6 DEF LogIInv, LogFollows
  <2>1. PICK v \in LogUsers, k \in 1 .. Len(logger.list) :
           luser[v].pc = "walk" /\ luser[v].at <= k /\ logger.list[k] = a
    BY DEF Ahead
  <2>2. luser'[v] = luser[v] BY <1>2, <1>3, <2>1
  <2> QED BY <1>2, <2>1, <2>2 DEF Ahead
<1>9. LoggerSound'
  <2> SUFFICES ASSUME ~nulled, hurt' # {} PROVE FALSE BY <1>2 DEF LoggerSound
  <2>1. PICK a : a = logger.list[luser[u].at] OBVIOUS
  <2>2. a \in Appenders /\ InList(a) BY <1>1, <1>3, <2>1, InListIs DEF LogTypes
  <2>3. appender[a].formatter # NoFormatter BY <2>2 DEF LogIInv, LogFormed
  <2> QED BY <2>1, <2>3 DEF LogOne
<1> QED
  BY <1>4, <1>5, <1>7, <1>8, <1>9 DEF LogIInv

\* The loop of setFormatter(pointer): one appender is given the formatter the logger has now.
LEMMA LogWalkOne ==
    ASSUME LogIInv, hurt = {}, NEW u \in LogUsers, WalkOne(u)
    PROVE  LogIInv'
<1>1. LogTypes BY DEF LogIInv
<1>2. /\ luser[u].pc = "walk" /\ luser' = [luser EXCEPT ![u] = NextPlace(u)]
      /\ UNCHANGED <<logger, met, nulled, astray>>
  BY DEF WalkOne
<1>3. /\ luser' \in [LogUsers -> LogPlace] /\ \A v \in LogUsers \ {u} : luser'[v] = luser[v]
      /\ luser[u].at \in 1 .. Len(logger.list) /\ luser[u].at \in Nat /\ Len(logger.list) \in Nat
      /\ \/ luser[u].at = Len(logger.list) /\ luser'[u].pc = "away"
         \/ /\ luser[u].at < Len(logger.list) /\ luser'[u].pc = luser[u].pc
            /\ luser'[u].at = luser[u].at + 1
  BY <1>2, LogNextPlace
<1>4. PICK a \in Appenders : a = logger.list[luser[u].at] BY <1>1, <1>3 DEF LogTypes
<1>5. /\ appender' \in [Appenders -> LogForm]
      /\ \A b \in Appenders : appender'[b].has = appender[b].has
      /\ \A b \in Appenders : b # a => appender'[b] = appender[b]
      /\ appender'[a].formatter = IF appender[a].has THEN appender[a].formatter ELSE logger.formatter
  <2>0. appender[a] \in LogForm /\ logger.formatter \in Formatters \union {NoFormatter}
    BY <1>1 DEF LogTypes
  <2>1. CASE appender[a].has
    <3>1. appender' = appender BY <1>4, <2>1 DEF WalkOne
    <3> QED BY <1>1, <2>1, <3>1 DEF LogTypes
  <2>2. CASE ~appender[a].has
    <3> DEFINE r == [appender[a] EXCEPT !.formatter = logger.formatter]
    <3>1. r \in LogForm /\ r.has = appender[a].has /\ r.formatter = logger.formatter BY <2>0 DEF LogForm
    <3>2. appender' = [appender EXCEPT ![a] = r] BY <1>4, <2>2 DEF WalkOne
    <3> HIDE DEF r
    <3>3. /\ appender' \in [Appenders -> LogForm] /\ appender'[a] = r
          /\ \A b \in Appenders : b # a => appender'[b] = appender[b]
      BY <1>1, <3>1, <3>2 DEF LogTypes
    <3> QED BY <2>2, <3>1, <3>3
  <2> QED BY <2>1, <2>2
<1>6. LogTypes'
  <2>1. \A v \in LogUsers : luser'[v].pc # "away" => luser'[v].at \in 1 .. Len(logger.list)
    BY <1>1, <1>3 DEF LogTypes
  <2> QED BY <1>1, <1>2, <1>3, <1>5, <2>1 DEF LogTypes
<1>7. LogAlone' BY <1>2, <1>3 DEF LogIInv, LogAlone
<1>8. \A b \in Appenders : InList(b)' <=> InList(b) BY <1>2 DEF InList
<1>9. LogFormed' BY <1>2, <1>5, <1>8 DEF LogIInv, LogFormed
<1>10. LogFlagged' BY <1>2, <1>5 DEF LogIInv, LogFlagged
<1>11. LogFollows'
  <2> SUFFICES ASSUME NEW b \in Appenders, InList(b), b \notin astray
               PROVE  appender'[b].formatter = logger.formatter \/ Ahead(b)'
    BY <1>2, <1>8 DEF LogFollows
  <2>1. CASE b = a
    <3>1. ~appender[a].has BY <2>1 DEF LogIInv, LogFlagged
    <3> QED BY <1>5, <2>1, <3>1
  <2>2. CASE b # a /\ appender[b].formatter = logger.formatter BY <1>5, <2>2
  <2>3. CASE b # a /\ Ahead(b)
    <3>1. PICK v \in LogUsers, k \in 1 .. Len(logger.list) :
             luser[v].pc = "walk" /\ luser[v].at <= k /\ logger.list[k] = b
      BY <2>3 DEF Ahead
    <3>2. CASE v # u
      <4>1. luser'[v] = luser[v] BY <1>3, <3>2
      <4> QED BY <1>2, <3>1, <4>1 DEF Ahead
    <3>3. CASE v = u
      <4>1. luser[u].at # k BY <1>4, <2>3, <3>1
      <4>2. luser[u].at < k /\ k <= Len(logger.list) BY <1>3, <3>1, <3>3, <4>1
      <4>3. luser'[u].pc = "walk" /\ luser'[u].at <= k BY <1>2, <1>3, <4>2
      <4> QED BY <1>2, <3>1, <4>3 DEF Ahead
    <3> QED BY <3>2, <3>3
  <2> QED BY <2>1, <2>2, <2>3 DEF LogIInv, LogFollows
<1>12. LoggerSound'
  <2> SUFFICES ASSUME ~met, hurt' # {} PROVE FALSE BY <1>2 DEF LoggerSound
  <2>1. InUse(a) \/ WalkerAt(a, LogUsers \ {u}) BY <1>4 DEF WalkOne, StoreFormatter
  <2>2. PICK v \in LogUsers \ {u} : luser[v].pc # "away" BY <1>2, <2>1 DEF InUse, WalkerAt, Walkers
  <2> QED BY <1>2, <2>2 DEF LogIInv, LogAlone
<1> QED
  BY <1>6, <1>7, <1>9, <1>10, <1>11, <1>12 DEF LogIInv

LEMMA LogSetOwn ==
    ASSUME LogIInv, hurt = {}, NEW a \in Appenders, NEW f \in Formatters \union {NoFormatter}, SetOwn(a, f)
    PROVE  LogIInv'
<1>1. LogTypes BY DEF LogIInv
<1> DEFINE r == [formatter |-> f, has |-> f # NoFormatter]
<1>2. r \in LogForm /\ r.formatter = f /\ (r.has <=> f # NoFormatter) BY DEF LogForm
<1>3. /\ appender' = [appender EXCEPT ![a] = r]
      /\ hurt' # {} => InUse(a) \/ WalkerAt(a, LogUsers)
      /\ met' = (met \/ AtWork # {})
      /\ nulled' = (nulled \/ f = NoFormatter)
      /\ astray' = IF f = NoFormatter /\ ~InList(a) THEN astray \ {a} ELSE astray \union {a}
      /\ UNCHANGED <<logger, luser>>
  BY DEF SetOwn, StoreFormatter
<1> HIDE DEF r
<1>4. /\ appender' \in [Appenders -> LogForm] /\ appender'[a] = r
      /\ \A b \in Appenders : b # a => appender'[b] = appender[b]
  BY <1>1, <1>2, <1>3 DEF LogTypes
<1>5. \A b \in Appenders : (InList(b)' <=> InList(b)) /\ (Ahead(b)' <=> Ahead(b))
  BY <1>3 DEF InList, Ahead
<1>6. LogTypes'
  <2>1. met' \in BOOLEAN /\ nulled' \in BOOLEAN BY <1>1, <1>3 DEF LogTypes
  <2> QED BY <1>1, <1>3, <1>4, <2>1 DEF LogTypes
<1>7. LogAlone' BY <1>3 DEF LogIInv, LogAlone
<1>8. LogFormed' BY <1>2, <1>3, <1>4, <1>5 DEF LogIInv, LogFormed
<1>9. LogFlagged' BY <1>2, <1>3, <1>4 DEF LogIInv, LogFlagged
<1>10. LogFollows'
  <2> SUFFICES ASSUME NEW b \in Appenders, InList(b), b \notin astray'
               PROVE  appender'[b].formatter = logger.formatter \/ Ahead(b)
    BY <1>3, <1>5 DEF LogFollows
  <2>1. b # a /\ b \notin astray BY <1>3
  <2> QED BY <1>4, <2>1 DEF LogIInv, LogFollows
<1>11. LoggerSound'
  <2> SUFFICES ASSUME hurt' # {} PROVE met' BY DEF LoggerSound
  <2>1. PICK v \in LogUsers : luser[v].pc # "away" BY <1>3 DEF InUse, WalkerAt, Walkers
  <2>2. AtWork # {} BY <2>1 DEF AtWork
  <2> QED BY <1>3, <2>2
<1> QED
  BY <1>6, <1>7, <1>8, <1>9, <1>10, <1>11 DEF LogIInv

LEMMA LogUnlucky ==
    ASSUME LogIInv, hurt = {}, NEW a \in Appenders, Unlucky(a)
    PROVE  LogIInv'
<1>1. LogTypes BY DEF LogIInv
<1> DEFINE r == [appender[a] EXCEPT !.has = TRUE]
<1>2. r \in LogForm /\ r.formatter = appender[a].formatter BY <1>1 DEF LogTypes, LogForm
<1>3. /\ appender' = [appender EXCEPT ![a] = r] /\ astray' = astray \union {a}
      /\ UNCHANGED <<logger, luser, hurt, met, nulled>>
  BY DEF Unlucky
<1> HIDE DEF r
<1>4. /\ appender' \in [Appenders -> LogForm] /\ appender'[a] = r
      /\ \A b \in Appenders : b # a => appender'[b] = appender[b]
  BY <1>1, <1>2, <1>3 DEF LogTypes
<1>5. \A b \in Appenders : (InList(b)' <=> InList(b)) /\ (Ahead(b)' <=> Ahead(b))
  BY <1>3 DEF InList, Ahead
<1>6. LogTypes' BY <1>1, <1>3, <1>4 DEF LogTypes
<1>7. LogAlone' /\ LoggerSound' BY <1>3 DEF LogIInv, LogAlone, LoggerSound
<1>8. LogFormed' BY <1>2, <1>3, <1>4, <1>5 DEF LogIInv, LogFormed
<1>9. LogFlagged' BY <1>3, <1>4 DEF LogIInv, LogFlagged
<1>10. LogFollows' BY <1>2, <1>3, <1>4, <1>5 DEF LogIInv, LogFollows
<1> QED
  BY <1>6, <1>7, <1>8, <1>9, <1>10 DEF LogIInv

LEMMA LogStep == LogIInv /\ [LoggerNext]_logVars => LogIInv'
<1> SUFFICES ASSUME LogIInv, [LoggerNext]_logVars PROVE LogIInv'
  OBVIOUS
<1>1. CASE LoggerNext
  BY <1>1, LogAdd, LogDel, LogSetPattern, LogEnters, LogLogOne, LogWalkOne, LogSetOwn, LogUnlucky DEF LoggerNext
<1>2. CASE UNCHANGED logVars
  BY <1>2 DEF logVars, LogIInv, LogTypes, LogAlone, LogFormed, LogFlagged, LogFollows, LoggerSound, InList, Ahead
<1> QED
  BY <1>1, <1>2

\* Logger: nothing goes wrong in log() unless a setFormatter without the lock met another
\* operation or a null pointer was given to one; and at rest every attached appender uses
\* the logger's formatter, but for the exceptions that FormatterFollows names.
THEOREM LoggerSafe == LoggerSpec => []LoggerInv
<1>1. ASSUME LogIInv PROVE LoggerInv
  <2>1. FormatterFollows BY <1>1, LogAtRest DEF FormatterFollows
  <2> QED BY <1>1, <2>1 DEF LoggerInv, LogIInv
<1> QED
  BY <1>1, LogInitially, LogStep, PTL DEF LoggerSpec

-----------------------------------------------------------------------------
(* Scheduler: types                                                          *)

LEMMA LimitPositive == CountLimit \in Nat /\ CountLimit > 0
<1>1. IsFiniteSet(Runners)
  BY LimitAssumption, FS_AddElement DEF Runners
<1>. QED BY <1>1, FS_CardinalityType, LimitAssumption

\* Whatever a thread has loaded, what it stores back is a size_t.
LEMMA CountType ==
    ASSUME NEW n \in Int
    PROVE  Count(n) \in 0..CountLimit - 1
  BY LimitPositive DEF Count

LEMMA LoopingType == Looping \in RunRec
  BY LimitPositive DEF Looping, RunRec

LEMMA InitType == Init => TypeOK
<1>. SUFFICES ASSUME Init PROVE TypeOK
  OBVIOUS
<1>1. [Looping EXCEPT !.pc = "out"] \in RunRec
  BY LoopingType DEF RunRec
<1>2. run \in [Runners -> RunRec]
  BY <1>1 DEF Init
<1>3. active \in 0..CountLimit - 1
  BY LimitPositive DEF Init
<1>. QED BY <1>2, <1>3 DEF Init, TypeOK

\* A step of a run() loop: of its record only pc, loaded and idleTerm change.
LEMMA RunStepType ==
    ASSUME TypeOK, NEW r \in Runners, RunStep(r)
    PROVE  TypeOK'
<1>0. run[r] \in RunRec /\ run[r].loaded \in 0..CountLimit - 1
  BY DEF TypeOK, RunRec
<1>1. ASSUME NEW t \in Tasks, Take(r, t) PROVE TypeOK'
  BY <1>0, <1>1 DEF Take, TypeOK, RunRec
<1>2. CASE Increment(r)
  <2>1. active' \in 0..CountLimit - 1
    BY <1>0, <1>2, CountType DEF Increment
  <2>. QED BY <1>0, <1>2, <2>1 DEF Increment, TypeOK, RunRec
<1>3. CASE TaskEnd(r)
  BY <1>0, <1>3 DEF TaskEnd, TypeOK, RunRec
<1>4. CASE Decrement(r)
  <2>1. active' \in 0..CountLimit - 1
    BY <1>0, <1>4, CountType, LimitPositive DEF Decrement
  <2>. QED BY <1>0, <1>4, <2>1 DEF Decrement, TypeOK, RunRec
<1>5. CASE NoTask(r)
  BY <1>0, <1>5 DEF NoTask, TypeOK, RunRec
<1>6. CASE idle(r)
  <2>1. IdleEnds(r) \in BOOLEAN
    BY DEF IdleEnds, PollerStopping
  <2>. QED BY <1>0, <1>6, <2>1 DEF idle, TypeOK, RunRec
<1>. QED BY <1>1, <1>2, <1>3, <1>4, <1>5, <1>6 DEF RunStep

LEMMA NextType == TypeOK /\ [Next]_vars => TypeOK'
<1>. SUFFICES ASSUME TypeOK, [Next]_vars PROVE TypeOK'
  OBVIOUS
<1>1. CASE start
  BY <1>1, LoopingType DEF start, TypeOK
<1>2. CASE stop
  BY <1>2 DEF stop, TypeOK
<1>3. CASE stopEarly
  BY <1>3 DEF stopEarly, TypeOK
<1>4. CASE join
  BY <1>4, LoopingType DEF join, TypeOK, Runners
<1>5. CASE back
  BY <1>5 DEF back, TypeOK
<1>6. ASSUME NEW t \in Tasks, schedule(t) PROVE TypeOK'
  BY <1>6 DEF schedule, TypeOK
<1>7. ASSUME NEW r \in Runners, RunStep(r) PROVE TypeOK'
  BY <1>7, RunStepType
<1>8. CASE UNCHANGED vars
  BY <1>8 DEF vars, TypeOK
<1>. QED BY <1>1, <1>2, <1>3, <1>4, <1>5, <1>6, <1>7, <1>8 DEF Next, Finished

\* The variables of a Scheduler keep their types: m_activeThreadNum stays a size_t
\* however the loads and stores of its threads interleave.
THEOREM TypeCorrect == Spec => []TypeOK
  BY InitType, NextType, PTL DEF Spec

-----------------------------------------------------------------------------
(* Scheduler: stop() drains                                                  *)

\* A task is waiting or was handed out, never both forgotten and scheduled.
TasksKept == submitted = fibers \cup done

\* Threads that start() does not create never run.
OnlyStarted == \A w \in Workers \ threads : run[w].pc = "out"

\* The creator's run() is inside stop(), after the joins.
RootRunsLast ==
    /\ run[Root].pc # "out" => root \in {"main", "returned"}
    /\ root = "early" => threads = {}
    /\ root \in {"main", "returned", "null call"} => Joined

\* Once the creator's run() has left its loop nothing is waiting and nothing can come.
LeftEmpty == root \in {"main", "returned"} /\ run[Root].pc = "gone" => fibers = {}

Drained ==
    root = "returned" => fibers = {} /\ \A r \in Runners : run[r].pc \in {"out", "gone"}

DrainInv == TasksKept /\ OnlyStarted /\ RootRunsLast /\ LeftEmpty /\ Drained

LEMMA InitDrain == Init => DrainInv
  BY RootAssumption DEF Init, DrainInv, TasksKept, OnlyStarted, RootRunsLast, LeftEmpty,
     Drained, Looping, Runners, Joined

\* The tasks that a stopped scheduler has to drain are for its creator or for anybody.
\* (A task for a worker that has left run() waits for ever.)
NoneForWorkers == \A t \in Tasks : Pin[t] \in {AnyThread, Root}

LEMMA RunStepDrain ==
    ASSUME TypeOK, DrainInv, NoneForWorkers, NEW r \in Runners, RunStep(r)
    PROVE  DrainInv'
<1>0. /\ run \in [Runners -> RunRec]
      /\ run[r].pc \notin {"out", "gone"}
      /\ run'[r].pc # "out"
      /\ \A q \in Runners \ {r} : run'[q] = run[q]
      /\ threads' = threads /\ root' = root /\ submitted' = submitted
  BY DEF TypeOK, RunStep, Take, Increment, TaskEnd, Decrement, NoTask, idle, RunRec
<1>1. root # "returned"
  BY <1>0 DEF DrainInv, Drained
<1>2. TasksKept'
  BY DEF DrainInv, TasksKept, RunStep, Take, Increment, TaskEnd, Decrement, NoTask, idle
<1>3. OnlyStarted'
  BY <1>0 DEF DrainInv, OnlyStarted, Runners
<1>4. RootRunsLast'
  <2>1. r = Root => root = "main"
    BY <1>0, <1>1 DEF DrainInv, RootRunsLast
  <2>2. r # Root => root \notin {"main", "returned", "null call"}
    BY <1>0 DEF DrainInv, RootRunsLast, Joined, Runners
  <2>. QED BY <1>0, <2>1, <2>2, RootAssumption DEF DrainInv, RootRunsLast, Joined, Runners
<1>5. LeftEmpty'
  <2>. SUFFICES ASSUME root = "main", run'[Root].pc = "gone" PROVE fibers' = {}
    BY <1>0, <1>1 DEF LeftEmpty
  <2>1. r = Root
    BY <1>0 DEF DrainInv, RootRunsLast, Joined, Runners
  <2>2. NoTask(r)
    BY <1>0, <2>1 DEF TypeOK, RunStep, Take, Increment, TaskEnd, Decrement, idle, RunRec
  <2>. QED BY <2>1, <2>2 DEF NoTask, Eligible, NoneForWorkers, TypeOK
<1>6. Drained'
  BY <1>0, <1>1 DEF Drained
<1>. QED BY <1>2, <1>3, <1>4, <1>5, <1>6 DEF DrainInv

LEMMA NextDrain ==
    ASSUME NoneForWorkers, ~Poller, TypeOK, DrainInv, [Next]_vars
    PROVE  DrainInv'
<1>. USE DEF TasksKept, OnlyStarted, RootRunsLast, LeftEmpty, Drained
<1>0. Root \in Runners /\ Root \notin Workers /\ threads \subseteq Workers /\ Workers \subseteq Runners
  BY RootAssumption DEF Runners, TypeOK
<1>1. CASE start
  BY <1>0, <1>1 DEF start, DrainInv, TypeOK
<1>2. CASE stop
  BY <1>0, <1>2 DEF stop, DrainInv, Joined
<1>3. CASE stopEarly
  BY <1>0, <1>3 DEF stopEarly, DrainInv, Joined, Stopping, SchedulerStopping, Runners
<1>4. CASE join
  <2>1. run[Root].pc = "out"
    BY <1>4 DEF join, DrainInv
  <2>2. CASE SchedulerStopping
    BY <1>0, <1>4, <2>1, <2>2 DEF join, DrainInv, Joined, Stopping, SchedulerStopping, Runners
  <2>3. CASE ~SchedulerStopping
    <3>1. \/ root' = "null call" /\ run' = run
          \/ root' = "main" /\ run' = [run EXCEPT ![Root] = Looping]
      BY <1>4, <2>3 DEF join, Stopping
    <3>2. \A w \in Workers : run'[w] = run[w]
      BY <1>0, <3>1 DEF TypeOK
    <3>3. root' = "main" => run'[Root].pc = "scan"
      <4>1. Looping.pc = "scan" BY DEF Looping
      <4>. QED BY <1>0, <3>1, <4>1 DEF TypeOK
    <3>4. Joined /\ UNCHANGED <<threads, fibers, submitted, done>>
      BY <1>4 DEF join
    <3>. QED BY <2>1, <3>1, <3>2, <3>3, <3>4 DEF DrainInv, Joined
  <2>. QED BY <2>2, <2>3
<1>5. CASE back
  BY <1>0, <1>5 DEF back, DrainInv, Joined, Runners
<1>6. ASSUME NEW t \in Tasks, schedule(t) PROVE DrainInv'
  <2>1. root \in {"main", "returned"} => run[Root].pc # "gone"
    BY <1>0, <1>6 DEF schedule, DrainInv, Joined, Runners
  <2>2. root # "returned"
    BY <1>6 DEF schedule, DrainInv
  <2>. QED BY <1>6, <2>1, <2>2 DEF schedule, DrainInv, Joined
<1>7. ASSUME NEW r \in Runners, RunStep(r) PROVE DrainInv'
  BY <1>7, RunStepDrain
<1>8. CASE UNCHANGED vars
  BY <1>8 DEF vars, DrainInv, Joined
<1>. QED BY <1>1, <1>2, <1>3, <1>4, <1>5, <1>6, <1>7, <1>8 DEF Next, Finished

\* stop() of a plain Scheduler returns only when every task has been executed and no
\* thread is inside run(): for any number of workers, also none, with or without the
\* caller's thread, whatever has become of m_activeThreadNum.
THEOREM StopIsDrained ==
    ASSUME NoneForWorkers, ~Poller
    PROVE  Spec => []StopDrains
<1>1. TypeOK /\ DrainInv /\ [Next]_vars => TypeOK' /\ DrainInv'
  BY NextType, NextDrain
<1>2. DrainInv => StopDrains
  BY DEF DrainInv, Drained, TasksKept, StopDrains
<1>. QED BY InitType, InitDrain, <1>1, <1>2, PTL DEF Spec
=============================================================================
