-------------------------- MODULE ConcurrentVector --------------------------
(***************************************************************************)
(* ConcurrentVector: push_back, set and operator[] by several threads.     *)
(* The locks guard elements (by index modulo their number), not the vector *)
(* of elements, which push_back may move, nor the vector of the locks.     *)
(***************************************************************************)
EXTENDS Integers, Sequences, FiniteSetsExt

CONSTANTS
    VecUsers,       \* threads
    Granu,          \* m_granu, 16 in the code
    MtxSize,        \* m_mtx_size at first, 8 in the code
    MaxStart,       \* sizes given to the constructor
    MaxVecOps       \* operations in a run

ASSUME VectorAssumption ==
    /\ Granu \in Nat \ {0} /\ MtxSize \in Nat \ {0}
    /\ MaxStart \in Nat /\ MaxVecOps \in Nat

VARIABLES
    size,           \* m_size
    given,          \* what the constructor was given
    elems,          \* the number of elements of m_vector
    locks,          \* m_mtx: is there a lock behind each pointer
    vuser,          \* what each thread is doing
    vops,           \* operations so far
    trouble,        \* what has gone wrong, by name
    pushOverlap     \* ghost: a push_back met another operation

vecVars == <<size, given, elems, locks, vuser, vops, trouble, pushOverlap>>

Out == [pc |-> "out", op |-> "none", index |-> 0, lock |-> 0]

\* The constructor reserves room for n elements and counts them, but makes none.
VectorInit ==
    /\ size = 0 /\ given = 0 /\ elems = 0
    /\ locks = [i \in 1 .. MtxSize |-> TRUE]
    /\ vuser = [u \in VecUsers |-> Out]
    /\ vops = 0 /\ trouble = {} /\ pushOverlap = FALSE

Construct(n) ==
    /\ vops = 0 /\ size = 0 /\ n > 0
    /\ size' = n /\ given' = n
    /\ locks' = [i \in 1 .. Max({n \div Granu, MtxSize}) |-> TRUE]
    /\ UNCHANGED <<elems, vuser, vops, trouble, pushOverlap>>

Inside(pcs) == {u \in VecUsers : vuser[u].pc \in pcs}
Within == VecUsers \ Inside({"out"})
Meets(u, op) == \E w \in Within \ {u} : "push" \in {op, vuser[w].op}

EnterVec(u, op, index, pc) ==
    /\ vuser[u].pc = "out" /\ vops < MaxVecOps
    /\ vops' = vops + 1
    /\ vuser' = [vuser EXCEPT ![u] = [pc |-> pc, op |-> op, index |-> index, lock |-> 0]]
    /\ pushOverlap' = (pushOverlap \/ Meets(u, op))

\* push_back: the element is counted first.
Push(u) ==
    /\ EnterVec(u, "push", size, "check")
    /\ size' = size + 1
    /\ UNCHANGED <<given, elems, locks, trouble>>

\* check_mtx(): a pointer is added, and no lock; a thread that is reading m_mtx loses its place.
CheckMtx(u) ==
    /\ vuser[u].pc = "check"
    /\ IF size > Len(locks) * Granu
       THEN /\ locks' = Append(locks, FALSE)
            /\ trouble' = IF Inside({"lock"}) # {} THEN trouble \union {"locks moved"} ELSE trouble
       ELSE UNCHANGED <<locks, trouble>>
    /\ vuser' = [vuser EXCEPT ![u].pc = "choose"]
    /\ UNCHANGED <<size, given, elems, vops, pushOverlap>>

\* Which lock: of the present size, for push_back.
ChooseLock(u) ==
    /\ vuser[u].pc = "choose"
    /\ vuser' = [vuser EXCEPT ![u].pc = "lock", ![u].lock = 1 + (size % Len(locks))]
    /\ UNCHANGED <<size, given, elems, locks, vops, trouble, pushOverlap>>

\* operator[] and set, once the index is known to be less than m_size
Access(u, op, index) ==
    /\ index < size
    /\ vuser[u].pc = "out" /\ vops < MaxVecOps
    /\ vops' = vops + 1
    /\ vuser' = [vuser EXCEPT ![u] = [pc |-> "lock", op |-> op, index |-> index, lock |-> 1 + (index % Len(locks))]]
    /\ pushOverlap' = (pushOverlap \/ Meets(u, op))
    /\ UNCHANGED <<size, given, elems, locks, trouble>>

\* Mutant: nobody waits for the lock.
LockNothing(u) ==
    /\ vuser[u].pc = "lock"
    /\ vuser' = [vuser EXCEPT ![u].pc = "access"]
    /\ UNCHANGED <<size, given, elems, locks, vops, trouble, pushOverlap>>

\* A shared lock for operator[], else a unique one.
Lock(u) ==
    LET l == vuser[u].lock
        held == {w \in VecUsers : vuser[w].pc = "access" /\ vuser[w].lock = l} IN
    /\ vuser[u].pc = "lock"
    /\ IF ~locks[l]
       THEN trouble' = trouble \union {"null lock"} /\ UNCHANGED vuser
       ELSE /\ \A w \in held : vuser[u].op = "get" /\ vuser[w].op = "get"
            /\ vuser' = [vuser EXCEPT ![u].pc = "access"]
            /\ UNCHANGED trouble
    /\ UNCHANGED <<size, given, elems, locks, vops, pushOverlap>>

\* The element is appended, written or read.  push_back works on the whole vector.
Touch(u) ==
    LET me == vuser[u]
        others == {vuser[w] : w \in Inside({"access"}) \ {u}} IN
    /\ me.pc = "access"
    /\ elems' = IF me.op = "push" THEN elems + 1 ELSE elems
    /\ trouble' = trouble \union
          (IF \E o \in others : "push" \in {me.op, o.op} \/ (o.index = me.index /\ {me.op, o.op} # {"get"})
           THEN {"data race"} ELSE {}) \union
          (IF me.op # "push" /\ me.index >= elems THEN {"past the end"} ELSE {})
    /\ vuser' = [vuser EXCEPT ![u] = Out]
    /\ UNCHANGED <<size, given, locks, vops, pushOverlap>>

VectorNext ==
    /\ trouble = {}
    /\ \/ \E n \in 1 .. MaxStart : Construct(n)
       \/ \E u \in VecUsers :
             \/ Push(u) \/ CheckMtx(u) \/ ChooseLock(u) \/ Lock(u) \/ Touch(u)
             \/ \E op \in {"get", "set"}, index \in 0 .. size : Access(u, op, index)

VectorSpec == VectorInit /\ [][VectorNext]_vecVars

-----------------------------------------------------------------------------
(* Properties                                                                *)

\* Nothing goes wrong as long as push_back meets nobody, the constructor was given no size
\* and the vector stays within the locks it was made with.
VectorSound ==
    trouble # {} => pushOverlap \/ given > 0 \/ size > MtxSize * Granu

\* When nobody is at work, m_size is the number of elements and of those the constructor
\* promised; so that an index that is checked against m_size is inside if it promised none.
ElementsCounted ==
    Within = {} /\ trouble = {} => elems + given = size

\* Which uses of a ConcurrentVector are safe, and that they keep m_size truthful.
VectorInv == VectorSound /\ ElementsCounted
=============================================================================
