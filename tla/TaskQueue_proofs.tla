-------------------------- MODULE TaskQueue_proofs --------------------------
(***************************************************************************)
(* m_fibers for every number of producers, workers and tasks: however the  *)
(* two critical sections overlap, no task is handed out twice, callbacks   *)
(* keep their order, no backlog sleeps, and the list implements the task   *)
(* pool.                                                                   *)
(***************************************************************************)
EXTENDS TaskQueue, SequenceTheorems, TLAPS

-----------------------------------------------------------------------------
(* Lists                                                                     *)

LEMMA InToSet ==
    ASSUME NEW s \in Seq(Tasks), NEW x
    PROVE  x \in ToSet(s) <=> \E i \in 1..Len(s) : s[i] = x
  BY DEF ToSet

LEMMA ToSetAppend ==
    ASSUME NEW s \in Seq(Tasks), NEW x \in Tasks
    PROVE  /\ Append(s, x) \in Seq(Tasks)
           /\ ToSet(Append(s, x)) = ToSet(s) \cup {x}
<1>1. /\ Append(s, x) \in Seq(Tasks) /\ Len(Append(s, x)) = Len(s) + 1
      /\ \A i \in 1..Len(s) + 1 : Append(s, x)[i] = IF i <= Len(s) THEN s[i] ELSE x
  OBVIOUS
<1>2. DOMAIN s = 1..Len(s) /\ DOMAIN Append(s, x) = 1..Len(s) + 1
  OBVIOUS
<1>3. ToSet(Append(s, x)) \subseteq ToSet(s) \cup {x}
  BY <1>1, <1>2 DEF ToSet
<1>4. ToSet(s) \subseteq ToSet(Append(s, x))
  BY <1>1, <1>2 DEF ToSet
<1>5. x \in ToSet(Append(s, x))
  <2>1. Append(s, x)[Len(s) + 1] = x /\ Len(s) + 1 \in DOMAIN Append(s, x)
    BY <1>1, <1>2
  <2>. QED BY <2>1 DEF ToSet
<1>. QED BY <1>1, <1>3, <1>4, <1>5

LEMMA StaysInjective ==
    ASSUME NEW s \in Seq(Tasks), NEW x \in Tasks, IsInjective(s), x \notin ToSet(s)
    PROVE  IsInjective(Append(s, x))
<1>. DEFINE a == Append(s, x)
<1>1. DOMAIN s = 1..Len(s) /\ DOMAIN a = 1..Len(s) + 1
  OBVIOUS
<1>2. \A i \in 1..Len(s) : s[i] # x
  BY <1>1 DEF ToSet
<1>3. \A i \in 1..Len(s) + 1 : a[i] = IF i <= Len(s) THEN s[i] ELSE x
  OBVIOUS
<1>4. \A i, j \in 1..Len(s) : s[i] = s[j] => i = j
  BY <1>1 DEF IsInjective
<1>. HIDE DEF a
<1>5. \A i, j \in 1..Len(s) + 1 : a[i] = a[j] => i = j
  BY <1>2, <1>3, <1>4
<1>6. IsInjective(a)
  BY <1>1, <1>5 DEF IsInjective
<1>. QED BY <1>6 DEF a

\* What the unlink of a node leaves: the other nodes in their order or, if it was the
\* last one when erase() read its neighbours, only those before it.
LEMMA ErasedElements ==
    ASSUME NEW s \in Seq(Tasks), NEW pos \in 1..Len(s), NEW atEnd \in BOOLEAN
    PROVE  LET e == Erased(s, pos, atEnd)
           IN  /\ e \in Seq(Tasks)
               /\ Len(e) = IF atEnd THEN pos - 1 ELSE Len(s) - 1
               /\ \A i \in 1..Len(e) : e[i] = IF i < pos THEN s[i] ELSE s[i + 1]
<1>1. CASE atEnd
  <2>1. SubSeq(s, 1, pos - 1) \in Seq(Tasks) /\ Len(SubSeq(s, 1, pos - 1)) = pos - 1
    BY SubSeqProperties
  <2>2. \A i \in 1..pos - 1 : SubSeq(s, 1, pos - 1)[i] = s[i]
    BY SubSeqProperties
  <2>. QED BY <1>1, <2>1, <2>2 DEF Erased
<1>2. CASE ~atEnd
  <2>. DEFINE a == SubSeq(s, 1, pos - 1)
              b == SubSeq(s, pos + 1, Len(s))
  <2>1. a \in Seq(Tasks) /\ Len(a) = pos - 1 /\ \A i \in 1..pos - 1 : a[i] = s[i]
    BY SubSeqProperties
  <2>2. b \in Seq(Tasks) /\ Len(b) = Len(s) - pos /\ \A i \in 1..Len(s) - pos : b[i] = s[i + pos]
    BY SubSeqProperties
  <2>. HIDE DEF a, b
  <2>3. /\ a \o b \in Seq(Tasks) /\ Len(a \o b) = Len(s) - 1
        /\ \A i \in 1..Len(s) - 1 : (a \o b)[i] = IF i <= pos - 1 THEN a[i] ELSE b[i - (pos - 1)]
    <3>1. Len(a \o b) = Len(a) + Len(b) /\ a \o b \in Seq(Tasks)
      BY <2>1, <2>2, ConcatProperties
    <3>2. \A i \in 1..Len(a) + Len(b) : (a \o b)[i] = IF i <= Len(a) THEN a[i] ELSE b[i - Len(a)]
      BY <2>1, <2>2, ConcatProperties
    <3>3. Len(a) + Len(b) = Len(s) - 1
      BY <2>1, <2>2
    <3>. QED BY <2>1, <3>1, <3>2, <3>3
  <2>4. \A i \in 1..Len(s) - 1 : (a \o b)[i] = IF i < pos THEN s[i] ELSE s[i + 1]
    <3>. TAKE i \in 1..Len(s) - 1
    <3>1. CASE i < pos
      BY <2>1, <2>3, <3>1
    <3>2. CASE ~(i < pos)
      <4>1. i - (pos - 1) \in 1..Len(s) - pos /\ (i - (pos - 1)) + pos = i + 1
        BY <3>2
      <4>. QED BY <2>2, <2>3, <3>2, <4>1
    <3>. QED BY <3>1, <3>2
  <2>. QED BY <1>2, <2>3, <2>4 DEF Erased, RemoveAt, a, b
<1>. QED BY <1>1, <1>2

LEMMA ErasedToSet ==
    ASSUME NEW s \in Seq(Tasks), IsInjective(s), NEW pos \in 1..Len(s), NEW atEnd \in BOOLEAN
    PROVE  LET e == Erased(s, pos, atEnd)
           IN  IsInjective(e) /\ ToSet(e) \subseteq ToSet(s) \ {s[pos]}
<1>. DEFINE e == Erased(s, pos, atEnd)
            at(i) == IF i < pos THEN i ELSE i + 1
<1>1. e \in Seq(Tasks) /\ Len(e) \in Nat /\ Len(e) <= Len(s) - 1
      /\ \A i \in 1..Len(e) : e[i] = s[at(i)]
  BY ErasedElements, LenProperties
<1>2. \A i \in 1..Len(e) : at(i) \in 1..Len(s) /\ at(i) # pos
  BY <1>1
<1>3. \A i, j \in 1..Len(s) : s[i] = s[j] => i = j
  BY DEF IsInjective
<1>. HIDE DEF e
<1>4. IsInjective(e)
  <2>. SUFFICES ASSUME NEW i \in 1..Len(e), NEW j \in 1..Len(e), e[i] = e[j] PROVE i = j
    BY <1>1 DEF IsInjective
  <2>1. at(i) = at(j) BY <1>1, <1>2, <1>3
  <2>. QED BY <2>1
<1>5. ToSet(e) \subseteq ToSet(s) \ {s[pos]}
  <2>. SUFFICES ASSUME NEW x \in ToSet(e) PROVE x \in ToSet(s) \ {s[pos]}
    OBVIOUS
  <2>1. PICK i \in 1..Len(e) : e[i] = x
    BY <1>1, InToSet
  <2>. QED BY <1>1, <1>2, <1>3, <2>1, InToSet
<1>. QED BY <1>4, <1>5 DEF e

-----------------------------------------------------------------------------
(* The structure of the list and who may change it                           *)

\* A producer from lock to unlock owns m_threads_mtx; a worker that erases owns
\* m_fibers_mtx.
Owners ==
    /\ \A p \in Producers : sched[p].pc \in {"in", "read", "hook", "publish"} <=> threadsMtx = p
    /\ \A w \in Workers : work[w].pc = "erase" <=> fibersMtx = w

\* The node that is being appended is a task.
NodeInHand == \A p \in Producers : sched[p].pc \in {"read", "hook", "publish"} => sched[p].node \in Tasks

\* The node that is being erased stays where it was found: appends that come in between
\* only add behind it.
EraseInPlace == \A w \in Workers : work[w].pc = "erase" =>
    /\ work[w].pos \in 1..Len(fibers)
    /\ work[w].node = fibers[work[w].pos]

\* The sentinel is its own predecessor only while the list is empty, or its first node
\* is not published yet: an append to the sentinel never cuts off a node.
SentinelLast ==
    /\ last = End => fibers = <<>> \/ \E p \in Producers : sched[p].pc = "publish"
    /\ \A p \in Producers : sched[p].pc = "hook" /\ sched[p].prev = End => fibers = <<>>

Structure == TypeOK /\ Owners /\ NodeInHand /\ EraseInPlace /\ SentinelLast

LEMMA InitStructure == Init => Structure
<1>. SUFFICES ASSUME Init PROVE Structure
  OBVIOUS
<1>1. /\ [pc |-> "out", node |-> NoTask, prev |-> End, need |-> FALSE] \in SchedRec
      /\ [pc |-> "scan", node |-> NoTask, pos |-> 0, atEnd |-> FALSE, need |-> FALSE] \in WorkRec
  BY DEF SchedRec, WorkRec
<1>2. /\ \A p \in Producers : sched[p].pc = "out"
      /\ \A w \in Workers : work[w].pc = "scan"
  BY DEF Init
<1>3. TypeOK
  <2>1. sched \in [Producers -> SchedRec] /\ work \in [Workers -> WorkRec]
    BY <1>1 DEF Init
  <2>2. <<>> \in Seq(Tasks)
    OBVIOUS
  <2>. QED BY <2>1, <2>2 DEF Init, TypeOK
<1>4. Owners /\ NodeInHand /\ EraseInPlace /\ SentinelLast
  BY <1>2, NamesAssumption DEF Init, Owners, NodeInHand, EraseInPlace, SentinelLast, Free
<1>. QED BY <1>3, <1>4 DEF Structure

LEMMA SchedFacts ==
    ASSUME TypeOK, NEW p \in Producers
    PROVE  /\ sched[p] \in SchedRec
           /\ sched[p].pc \in {"out", "in", "read", "hook", "publish", "tickle"}
           /\ sched[p].node \in Tasks \cup {NoTask}
           /\ sched[p].prev \in Tasks \cup {End}
           /\ sched[p].need \in BOOLEAN
  BY DEF TypeOK, SchedRec

LEMMA WorkFacts ==
    ASSUME TypeOK, NEW w \in Workers
    PROVE  /\ work[w] \in WorkRec
           /\ work[w].pc \in {"scan", "erase", "tickle", "run", "idle"}
           /\ work[w].node \in Tasks \cup {NoTask}
           /\ work[w].pos \in Nat
           /\ work[w].atEnd \in BOOLEAN
           /\ work[w].need \in BOOLEAN
  BY DEF TypeOK, WorkRec

\* A step of one producer leaves the others where they are; what it makes of its own
\* record.
LEMMA SchedStep ==
    ASSUME TypeOK, NEW p \in Producers, NEW r \in SchedRec, sched' = [sched EXCEPT ![p] = r]
    PROVE  /\ sched' \in [Producers -> SchedRec]
           /\ sched'[p] = r
           /\ \A q \in Producers : q # p => sched'[q] = sched[q]
  BY DEF TypeOK

LEMMA WorkStep ==
    ASSUME TypeOK, NEW w \in Workers, NEW r \in WorkRec, work' = [work EXCEPT ![w] = r]
    PROVE  /\ work' \in [Workers -> WorkRec]
           /\ work'[w] = r
           /\ \A v \in Workers : v # w => work'[v] = work[v]
  BY DEF TypeOK

\* An append behind the last node, or one that is lost, keeps what was there.
LEMMA LinkedElements ==
    ASSUME NEW s \in Seq(Tasks), NEW prev \in Tasks \cup {End}, NEW node \in Tasks,
           prev = End => s = <<>>
    PROVE  Linked(s, prev, node) \in {s, Append(s, node)}
<1>1. CASE prev = End
  <2>1. Append(<<>>, node) = <<node>> OBVIOUS
  <2>. QED BY <1>1, <2>1 DEF Linked
<1>2. CASE prev # End
  BY <1>2 DEF Linked
<1>. QED BY <1>1, <1>2

LEMMA ScheduleStructure ==
    ASSUME Structure, NEW p \in Producers,
           \/ ScheduleLock(p) \/ HookRead(p) \/ HookLink(p) \/ HookPublish(p)
           \/ ScheduleUnlock(p) \/ ScheduleTickle(p)
           \/ \E t \in Unsubmitted \cup {NoTask} : ScheduleItem(p, t)
    PROVE  Structure'
<1>. DEFINE Parts == Owners /\ NodeInHand /\ EraseInPlace /\ SentinelLast
<1>0. TypeOK /\ sched[p] \in SchedRec /\ sched[p].need \in BOOLEAN /\ p # Free
  BY SchedFacts, NamesAssumption DEF Structure, Free
<1>f. \A q \in Producers : q # Free
  BY NamesAssumption DEF Free
<1>1. CASE ScheduleLock(p)
  <2>. DEFINE r == [sched[p] EXCEPT !.pc = "in", !.need = FALSE]
  <2>1. r \in SchedRec /\ r.pc = "in"
    BY <1>0 DEF SchedRec
  <2>t. TypeOK'
    BY <1>0, <1>1, <2>1, SchedStep DEF ScheduleLock, TypeOK, Free
  <2>p. Parts'
    BY <1>0, <1>f, <1>1, <2>1, SchedStep DEF ScheduleLock, Structure, TypeOK, Owners, NodeInHand, EraseInPlace, SentinelLast
  <2>. QED BY <2>t, <2>p DEF Structure
<1>2. CASE HookRead(p)
  <2>. DEFINE r == [sched[p] EXCEPT !.pc = "hook", !.prev = last]
  <2>1. r \in SchedRec /\ r.pc = "hook" /\ r.prev = last /\ r.node = sched[p].node
    BY <1>0 DEF SchedRec, TypeOK
  <2>t. TypeOK'
    BY <1>0, <1>2, <2>1, SchedStep DEF HookRead, TypeOK
  <2>p. Parts'
    BY <1>0, <1>2, <2>1, SchedStep DEF HookRead, Structure, TypeOK, Owners, NodeInHand, EraseInPlace, SentinelLast
  <2>. QED BY <2>t, <2>p DEF Structure
<1>3. CASE HookLink(p)
  <2>. DEFINE r == [sched[p] EXCEPT !.pc = "publish"]
  <2>1. r \in SchedRec /\ r.pc = "publish" /\ r.node = sched[p].node
    BY <1>0 DEF SchedRec
  <2>2. fibers' \in {fibers, Append(fibers, sched[p].node)} /\ sched[p].node \in Tasks
    <3>1. /\ sched[p].node \in Tasks /\ sched[p].prev \in Tasks \cup {End}
          /\ sched[p].prev = End => fibers = <<>>
          /\ fibers \in Seq(Tasks)
      BY <1>3, SchedFacts DEF HookLink, Structure, TypeOK, NodeInHand, SentinelLast
    <3>. QED BY <1>3, <3>1, LinkedElements DEF HookLink
  <2>3. fibers' \in Seq(Tasks) /\ Len(fibers') >= Len(fibers)
        /\ \A i \in 1..Len(fibers) : fibers'[i] = fibers[i]
    <3>1. fibers \in Seq(Tasks)
      BY <1>0 DEF TypeOK
    <3>2. /\ Append(fibers, sched[p].node) \in Seq(Tasks)
          /\ Len(Append(fibers, sched[p].node)) = Len(fibers) + 1
          /\ \A i \in 1..Len(fibers) : Append(fibers, sched[p].node)[i] = fibers[i]
      BY <2>2, <3>1, AppendProperties
    <3>3. CASE fibers' = fibers
      BY <3>1, <3>3
    <3>4. CASE fibers' = Append(fibers, sched[p].node)
      BY <3>1, <3>2, <3>4
    <3>. QED BY <2>2, <3>3, <3>4
  <2>t. TypeOK'
    BY <1>0, <1>3, <2>1, <2>3, SchedStep DEF HookLink, TypeOK
  <2>p. Parts'
    BY <1>0, <1>3, <2>1, <2>3, SchedStep DEF HookLink, Structure, TypeOK, Owners, NodeInHand, EraseInPlace, SentinelLast
  <2>. QED BY <2>t, <2>p DEF Structure
<1>4. CASE HookPublish(p)
  <2>. DEFINE r == [sched[p] EXCEPT !.pc = "in", !.node = NoTask]
  <2>1. r \in SchedRec /\ r.pc = "in"
    BY <1>0 DEF SchedRec
  <2>t. TypeOK'
    BY <1>0, <1>4, <2>1, SchedStep, NamesAssumption DEF HookPublish, TypeOK, Structure, NodeInHand
  <2>p. Parts'
    BY <1>0, <1>4, <2>1, SchedStep, NamesAssumption DEF HookPublish, Structure, TypeOK, Owners, NodeInHand, EraseInPlace, SentinelLast
  <2>. QED BY <2>t, <2>p DEF Structure
<1>5. CASE ScheduleUnlock(p)
  <2>. DEFINE r == [sched[p] EXCEPT !.pc = IF sched[p].need THEN "tickle" ELSE "out"]
  <2>1. r \in SchedRec /\ r.pc \in {"tickle", "out"}
    BY <1>0 DEF SchedRec
  <2>t. TypeOK'
    BY <1>0, <1>5, <2>1, SchedStep, NamesAssumption DEF ScheduleUnlock, TypeOK, Free
  <2>p. Parts'
    BY <1>0, <1>5, <2>1, SchedStep, NamesAssumption DEF ScheduleUnlock, Structure, TypeOK, Owners, NodeInHand, EraseInPlace, SentinelLast, Free
  <2>. QED BY <2>t, <2>p DEF Structure
<1>6. CASE ScheduleTickle(p)
  <2>. DEFINE r == [sched[p] EXCEPT !.pc = "out"]
  <2>1. r \in SchedRec /\ r.pc = "out"
    BY <1>0 DEF SchedRec
  <2>t. TypeOK'
    BY <1>0, <1>6, <2>1, SchedStep DEF ScheduleTickle, TypeOK
  <2>p. Parts'
    BY <1>0, <1>6, <2>1, SchedStep DEF ScheduleTickle, Structure, TypeOK, Owners, NodeInHand, EraseInPlace, SentinelLast
  <2>. QED BY <2>t, <2>p DEF Structure
<1>7. ASSUME NEW t \in Unsubmitted \cup {NoTask}, ScheduleItem(p, t)
      PROVE  Structure'
  <2>. DEFINE r == [sched[p] EXCEPT !.pc = IF t = NoTask THEN "in" ELSE "read",
                                    !.node = t, !.need = sched[p].need \/ fibers = <<>>]
  <2>0. /\ sched' = [sched EXCEPT ![p] = r] /\ sched[p].pc = "in"
        /\ UNCHANGED <<fibers, last, threadsMtx, fibersMtx, work, pipe, taken>>
    <3>1. sched' = [sched EXCEPT ![p] = r]
      BY <1>7 DEF ScheduleItem
    <3>2. sched[p].pc = "in" /\ UNCHANGED <<fibers, last, threadsMtx, fibersMtx, work, pipe, taken>>
      BY <1>7 DEF ScheduleItem
    <3>. QED BY <3>1, <3>2
  <2>1. t \in Tasks \cup {NoTask}
    BY DEF Unsubmitted
  <2>2. r \in SchedRec /\ r.pc = (IF t = NoTask THEN "in" ELSE "read") /\ r.node = t
    BY <1>0, <2>1 DEF SchedRec
  <2>3. submitted' \in Seq(Tasks)
    <3>1. CASE t = NoTask
      BY <1>0, <1>7, <3>1 DEF ScheduleItem, TypeOK
    <3>2. CASE t # NoTask
      BY <1>0, <1>7, <2>1, <3>2, ToSetAppend DEF ScheduleItem, TypeOK
    <3>. QED BY <3>1, <3>2
  <2>t. TypeOK'
    BY <1>0, <2>0, <2>1, <2>2, <2>3, SchedStep DEF TypeOK
  <2>p. Parts'
    BY <1>0, <2>0, <2>1, <2>2, <2>3, SchedStep DEF Structure, TypeOK, Owners, NodeInHand, EraseInPlace, SentinelLast
  <2>. QED BY <2>t, <2>p DEF Structure
<1>. QED BY <1>1, <1>2, <1>3, <1>4, <1>5, <1>6, <1>7

\* What a worker finds: a task of the list, and none before it that it may take.
LEMMA TakeFacts ==
    ASSUME Structure, NEW w \in Workers, ScanTake(w)
    PROVE  \E exec \in SUBSET FiberTasks, k \in 1..Len(fibers), r \in WorkRec :
             /\ Eligible(fibers[k], w, exec)
             /\ \A i \in 1..(k-1) : ~Eligible(fibers[i], w, exec)
             /\ r.pc = "erase" /\ r.node = fibers[k] /\ r.pos = k
             /\ r.atEnd <=> k = Len(fibers)
             /\ work' = [work EXCEPT ![w] = r]
<1>1. PICK exec \in SUBSET FiberTasks, k \in 1..Len(fibers) :
         /\ Eligible(fibers[k], w, exec)
         /\ \A i \in 1..(k-1) : ~Eligible(fibers[i], w, exec)
         /\ work' = [work EXCEPT ![w] =
                       [pc |-> "erase", node |-> fibers[k], pos |-> k,
                        atEnd |-> k = Len(fibers),
                        need |-> \E i \in 1..(k-1) : PinnedElsewhere(fibers[i], w)]]
  BY DEF ScanTake
<1>. DEFINE r == [pc |-> "erase", node |-> fibers[k], pos |-> k, atEnd |-> k = Len(fibers),
                  need |-> \E i \in 1..(k-1) : PinnedElsewhere(fibers[i], w)]
<1>2. fibers[k] \in Tasks /\ k \in Nat
  BY DEF Structure, TypeOK
<1>3. /\ r \in WorkRec /\ r.pc = "erase" /\ r.node = fibers[k] /\ r.pos = k
      /\ r.atEnd <=> k = Len(fibers)
  BY <1>2 DEF WorkRec
<1>4. work' = [work EXCEPT ![w] = r]
  BY <1>1
<1>. HIDE DEF r
<1>. QED BY <1>1, <1>3, <1>4

LEMMA RunStructure ==
    ASSUME Structure, NEW w \in Workers,
           \/ ScanTake(w) \/ EraseUnlink(w) \/ ScanEnd(w)
           \/ Tickle(w) \/ Run(w) \/ Wake(w)
    PROVE  Structure'
<1>. DEFINE Parts == Owners /\ NodeInHand /\ EraseInPlace /\ SentinelLast
<1>0. TypeOK /\ work[w] \in WorkRec /\ work[w].need \in BOOLEAN
  BY WorkFacts DEF Structure
<1>f. \A v \in Workers : v # Free
  BY NamesAssumption DEF Free
<1>1. CASE ScanTake(w)
  <2>1. PICK k \in 1..Len(fibers), r \in WorkRec :
           r.pc = "erase" /\ r.node = fibers[k] /\ r.pos = k /\ work' = [work EXCEPT ![w] = r]
    BY <1>1, TakeFacts
  <2>2. TypeOK'
    BY <1>0, <1>1, <2>1, WorkStep DEF ScanTake, TypeOK
  <2>3. Parts'
    BY <1>0, <1>f, <1>1, <2>1, WorkStep DEF ScanTake, Structure, Owners, NodeInHand, EraseInPlace, SentinelLast
  <2>. QED BY <2>2, <2>3 DEF Structure
<1>2. CASE EraseUnlink(w)
  <2>. DEFINE r == [work[w] EXCEPT !.pc = IF work[w].need THEN "tickle" ELSE "run"]
              pos == work[w].pos
  <2>1. r \in WorkRec /\ r.pc \in {"tickle", "run"} /\ work' = [work EXCEPT ![w] = r]
    BY <1>0, <1>2 DEF WorkRec, EraseUnlink
  <2>2. pos \in 1..Len(fibers) /\ work[w].node = fibers[pos] /\ work[w].atEnd \in BOOLEAN /\ fibers \in Seq(Tasks)
    BY <1>2, WorkFacts DEF EraseUnlink, Structure, EraseInPlace, TypeOK
  <2>3. fibers' \in Seq(Tasks) /\ Len(fibers') = IF work[w].atEnd THEN pos - 1 ELSE Len(fibers) - 1
    BY <1>2, <2>2, ErasedElements DEF EraseUnlink
  <2>4. work[w].atEnd /\ pos = 1 => fibers' = <<>>
    BY <2>2, <2>3
  <2>5. last' = (IF ~work[w].atEnd THEN last ELSE IF pos = 1 THEN End ELSE fibers[pos - 1])
    BY <1>2 DEF EraseUnlink, LastAfterErase
  <2>6. pos # 1 => fibers[pos - 1] \in Tasks
    BY <2>2
  <2>7. taken' \in Seq(Tasks)
    BY <1>0, <1>2, <2>2, ToSetAppend DEF EraseUnlink, TypeOK
  <2>8. TypeOK'
    BY <1>0, <1>2, <2>1, <2>3, <2>5, <2>6, <2>7, WorkStep DEF EraseUnlink, TypeOK
  <2>9. fibersMtx = w /\ \A v \in Workers : work[v].pc = "erase" => v = w
    BY <1>2 DEF EraseUnlink, Structure, Owners
  <2>10. Owners' /\ EraseInPlace' /\ NodeInHand'
    BY <1>0, <1>f, <1>2, <2>1, <2>9, WorkStep DEF EraseUnlink, Structure, Owners, NodeInHand, EraseInPlace
  <2>11. SentinelLast'
    <3>1. last' = End => fibers' = <<>> \/ \E p \in Producers : sched[p].pc = "publish"
      <4>1. fibers # <<>>
        BY <2>2
      <4>. QED BY <2>4, <2>5, <2>6, <4>1, NamesAssumption DEF Structure, SentinelLast
    <3>2. \A p \in Producers : ~(sched[p].pc = "hook" /\ sched[p].prev = End)
      BY <2>2 DEF Structure, SentinelLast
    <3>. QED BY <1>2, <3>1, <3>2 DEF EraseUnlink, SentinelLast
  <2>. QED BY <2>8, <2>10, <2>11 DEF Structure
<1>3. CASE ScanEnd(w) \/ Tickle(w) \/ Wake(w)
  <2>1. PICK pc \in {"tickle", "idle", "run", "scan"} : work' = [work EXCEPT ![w].pc = pc]
    BY <1>3 DEF ScanEnd, Tickle, Wake
  <2>2. /\ work' \in [Workers -> WorkRec] /\ work'[w].pc # "erase"
        /\ \A v \in Workers \ {w} : work'[v] = work[v]
    BY <1>0, <2>1 DEF TypeOK, WorkRec
  <2>3. work[w].pc # "erase" /\ UNCHANGED <<fibers, last, threadsMtx, fibersMtx, sched, submitted, taken>>
        /\ pipe' \in BOOLEAN
    BY <1>0, <1>3 DEF ScanEnd, Tickle, Wake, TypeOK
  <2>4. TypeOK'
    BY <1>0, <2>2, <2>3 DEF TypeOK
  <2>. QED BY <2>2, <2>3, <2>4 DEF Structure, Owners, NodeInHand, EraseInPlace, SentinelLast
<1>4. CASE Run(w)
  <2>. DEFINE r == [work[w] EXCEPT !.pc = "scan", !.node = NoTask, !.pos = 0, !.atEnd = FALSE, !.need = FALSE]
  <2>1. r \in WorkRec /\ r.pc = "scan" /\ work' = [work EXCEPT ![w] = r]
    BY <1>0, <1>4 DEF WorkRec, Run
  <2>2. TypeOK'
    BY <1>0, <1>4, <2>1, WorkStep DEF Run, TypeOK
  <2>. QED BY <1>0, <1>4, <2>1, <2>2, WorkStep DEF Run, Structure, Owners, NodeInHand, EraseInPlace, SentinelLast
<1>. QED BY <1>1, <1>2, <1>3, <1>4

LEMMA NextStructure == Structure /\ [Next]_vars => Structure'
<1>. SUFFICES ASSUME Structure, [Next]_vars PROVE Structure'
  OBVIOUS
<1>1. CASE UNCHANGED vars
  BY <1>1 DEF vars, Structure, TypeOK, Owners, NodeInHand, EraseInPlace, SentinelLast
<1>. QED BY <1>1, ScheduleStructure, RunStructure DEF Next

\* m_fibers, its two mutexes and the calls in progress keep their types.
THEOREM TypeCorrect == Spec => []TypeOK
<1>1. Structure => TypeOK BY DEF Structure
<1>. QED BY InitStructure, NextStructure, <1>1, PTL DEF Spec

-----------------------------------------------------------------------------
(* What a step does to the tasks                                             *)

InHand(pc) == pc \in {"read", "hook"}

LEMMA InFlightIs ==
    ASSUME Structure, NEW p \in Producers, threadsMtx \in {p, Free},
           \A q \in Producers : q # p => sched'[q] = sched[q]
    PROVE  /\ InFlight = IF InHand(sched[p].pc) THEN {sched[p].node} ELSE {}
           /\ InFlight' = IF InHand(sched'[p].pc) THEN {sched'[p].node} ELSE {}
<1>1. \A q \in Producers : q # p => ~InHand(sched[q].pc) /\ ~InHand(sched'[q].pc)
  BY NamesAssumption DEF Structure, Owners, InHand, Free
<1>2. InFlight = IF InHand(sched[p].pc) THEN {sched[p].node} ELSE {}
  BY <1>1 DEF InFlight, InHand
<1>3. InFlight' = IF InHand(sched'[p].pc) THEN {sched'[p].node} ELSE {}
  BY <1>1 DEF InFlight, InHand
<1>. QED BY <1>2, <1>3

NoChange == UNCHANGED <<fibers, submitted, taken, InFlight>>

\* schedule() has made a node for t.
Submits(t) ==
    /\ t \in Tasks \ ToSet(submitted)
    /\ submitted' = Append(submitted, t)
    /\ InFlight = {} /\ InFlight' = {t}
    /\ UNCHANGED <<fibers, taken>>

\* Its node has been linked, to the list or to a node that has left it.
Links(t) ==
    /\ InFlight = {t} /\ InFlight' = {}
    /\ fibers' \in {fibers, Append(fibers, t)}
    /\ UNCHANGED <<submitted, taken>>

\* The task at pos has been erased.
Takes(pos, atEnd) ==
    /\ fibers' = Erased(fibers, pos, atEnd)
    /\ taken' = Append(taken, fibers[pos])
    /\ UNCHANGED <<submitted, InFlight>>

LEMMA ScheduleKinds ==
    ASSUME Structure, NEW p \in Producers,
           \/ ScheduleLock(p) \/ HookRead(p) \/ HookLink(p) \/ HookPublish(p)
           \/ ScheduleUnlock(p) \/ ScheduleTickle(p)
           \/ \E t \in Unsubmitted \cup {NoTask} : ScheduleItem(p, t)
    PROVE  NoChange \/ \E t \in Tasks : Submits(t) \/ Links(t)
<1>0. sched \in [Producers -> SchedRec] /\ sched[p] \in SchedRec
  BY SchedFacts DEF Structure, TypeOK
<1>1. CASE ScheduleLock(p) \/ ScheduleUnlock(p) \/ HookRead(p) \/ HookPublish(p)
  <2>1. /\ threadsMtx \in {p, Free}
        /\ \A q \in Producers : q # p => sched'[q] = sched[q]
        /\ InHand(sched'[p].pc) <=> InHand(sched[p].pc)
        /\ InHand(sched[p].pc) => sched'[p].node = sched[p].node
        /\ UNCHANGED <<fibers, submitted, taken>>
    <3>1. CASE ScheduleLock(p)
      BY <1>0, <3>1 DEF ScheduleLock, InHand, SchedRec
    <3>2. CASE ScheduleUnlock(p)
      BY <1>0, <3>2 DEF ScheduleUnlock, InHand, Structure, Owners, SchedRec
    <3>3. CASE HookRead(p)
      BY <1>0, <3>3 DEF HookRead, InHand, Structure, Owners, SchedRec
    <3>4. CASE HookPublish(p)
      BY <1>0, <3>4 DEF HookPublish, InHand, Structure, Owners, SchedRec
    <3>. QED BY <1>1, <3>1, <3>2, <3>3, <3>4
  <2>2. InFlight' = InFlight
    BY <2>1, InFlightIs
  <2>. QED BY <2>1, <2>2 DEF NoChange
<1>2. CASE ScheduleTickle(p)
  <2>1. \A q \in Producers : sched'[q].pc \in {"read", "hook"} <=> sched[q].pc \in {"read", "hook"}
    BY <1>0, <1>2 DEF ScheduleTickle
  <2>2. \A q \in Producers : sched'[q].node = sched[q].node
    BY <1>0, <1>2 DEF ScheduleTickle
  <2>3. InFlight' = InFlight
    BY <2>1, <2>2 DEF InFlight
  <2>. QED BY <1>2, <2>3 DEF NoChange, ScheduleTickle
<1>3. CASE HookLink(p)
  <2>1. /\ threadsMtx \in {p, Free}
        /\ \A q \in Producers : q # p => sched'[q] = sched[q]
        /\ InHand(sched[p].pc) /\ ~InHand(sched'[p].pc)
        /\ UNCHANGED <<submitted, taken>>
    BY <1>0, <1>3 DEF HookLink, InHand, Structure, Owners, SchedRec
  <2>2. InFlight = {sched[p].node} /\ InFlight' = {}
    BY <2>1, InFlightIs
  <2>3. /\ sched[p].node \in Tasks /\ sched[p].prev \in Tasks \cup {End}
        /\ sched[p].prev = End => fibers = <<>>
        /\ fibers \in Seq(Tasks)
    BY <1>3, SchedFacts DEF HookLink, Structure, TypeOK, NodeInHand, SentinelLast
  <2>4. fibers' \in {fibers, Append(fibers, sched[p].node)}
    BY <1>3, <2>3, LinkedElements DEF HookLink
  <2>5. Links(sched[p].node)
    BY <2>1, <2>2, <2>4 DEF Links
  <2>. QED BY <2>3, <2>5
<1>4. ASSUME NEW t \in Unsubmitted \cup {NoTask}, ScheduleItem(p, t)
      PROVE  NoChange \/ (t \in Tasks /\ Submits(t))
  <2>1. /\ threadsMtx \in {p, Free}
        /\ \A q \in Producers : q # p => sched'[q] = sched[q]
        /\ ~InHand(sched[p].pc)
        /\ InHand(sched'[p].pc) <=> t # NoTask
        /\ sched'[p].node = t
        /\ UNCHANGED <<fibers, taken>>
    BY <1>0, <1>4 DEF ScheduleItem, InHand, Structure, Owners, SchedRec
  <2>2. InFlight = {} /\ InFlight' = IF t # NoTask THEN {t} ELSE {}
    BY <2>1, InFlightIs
  <2>3. CASE t = NoTask
    <3>1. submitted' = submitted
      BY <1>4, <2>3 DEF ScheduleItem
    <3>2. InFlight' = InFlight
      BY <2>2, <2>3
    <3>3. UNCHANGED <<fibers, taken>>
      BY <2>1
    <3>4. NoChange
      BY <3>1, <3>2, <3>3 DEF NoChange
    <3>. QED BY <3>4
  <2>4. CASE t # NoTask
    <3>1. t \in Tasks \ ToSet(submitted)
      BY <2>4 DEF Unsubmitted
    <3>. QED BY <1>4, <2>1, <2>2, <2>4, <3>1 DEF Submits, ScheduleItem
  <2>. QED BY <2>3, <2>4
<1>. QED BY <1>1, <1>2, <1>3, <1>4

\* Every step leaves the tasks alone, submits one, links one or hands one out.
LEMMA StepKinds ==
    ASSUME Structure, [Next]_vars
    PROVE  \/ NoChange
           \/ \E t \in Tasks : Submits(t) \/ Links(t)
           \/ \E w \in Workers : EraseUnlink(w) /\ Takes(work[w].pos, work[w].atEnd)
<1>1. CASE UNCHANGED vars
  BY <1>1 DEF vars, NoChange, InFlight
<1>2. ASSUME NEW w \in Workers, EraseUnlink(w)
      PROVE  Takes(work[w].pos, work[w].atEnd)
  BY <1>2 DEF EraseUnlink, Takes, InFlight, Structure, EraseInPlace
<1>3. ASSUME NEW w \in Workers, ScanTake(w) \/ ScanEnd(w) \/ Tickle(w) \/ Run(w) \/ Wake(w)
      PROVE  NoChange
  <2>1. UNCHANGED <<fibers, submitted, taken, sched>>
    BY <1>3 DEF ScanTake, ScanEnd, Tickle, Run, Wake
  <2>. QED BY <2>1 DEF NoChange, InFlight
<1>. QED BY <1>1, <1>2, <1>3, ScheduleKinds DEF Next

-----------------------------------------------------------------------------
(* No task is handed out twice                                               *)

\* Every list is free of repetitions, and a task is in one place only.
OnePlace ==
    /\ IsInjective(submitted) /\ IsInjective(fibers) /\ IsInjective(taken)
    /\ ToSet(fibers) \cup ToSet(taken) \cup InFlight \subseteq ToSet(submitted)
    /\ ToSet(fibers) \cap ToSet(taken) = {}
    /\ InFlight \cap (ToSet(fibers) \cup ToSet(taken)) = {}

LEMMA InitOnePlace == Init => OnePlace
<1>. SUFFICES ASSUME Init PROVE OnePlace
  OBVIOUS
<1>1. IsInjective(<<>>) /\ ToSet(<<>>) = {}
  BY DEF IsInjective, ToSet
<1>2. InFlight = {}
  BY DEF Init, InFlight
<1>. QED BY <1>1, <1>2 DEF Init, OnePlace

\* The task that is taken was in the list and nowhere else.
LEMMA TakesFacts ==
    ASSUME Structure, NEW w \in Workers, EraseUnlink(w)
    PROVE  /\ work[w].pos \in 1..Len(fibers) /\ work[w].atEnd \in BOOLEAN
           /\ fibers \in Seq(Tasks) /\ fibers[work[w].pos] \in Tasks
           /\ fibers[work[w].pos] \in ToSet(fibers)
<1>1. /\ work[w].pos \in 1..Len(fibers) /\ work[w].atEnd \in BOOLEAN
      /\ fibers \in Seq(Tasks)
  BY WorkFacts DEF EraseUnlink, Structure, EraseInPlace, TypeOK
<1>2. fibers[work[w].pos] \in ToSet(fibers)
  BY <1>1, InToSet
<1>. QED BY <1>1, <1>2

LEMMA NextOnePlace == Structure /\ OnePlace /\ [Next]_vars => OnePlace'
<1>. SUFFICES ASSUME Structure, OnePlace, [Next]_vars PROVE OnePlace'
  OBVIOUS
<1>0. fibers \in Seq(Tasks) /\ submitted \in Seq(Tasks) /\ taken \in Seq(Tasks)
  BY DEF Structure, TypeOK
<1>1. CASE NoChange
  BY <1>1 DEF NoChange, OnePlace
<1>2. ASSUME NEW t \in Tasks, Submits(t) PROVE OnePlace'
  <2>1. ToSet(submitted') = ToSet(submitted) \cup {t} /\ IsInjective(submitted')
    BY <1>0, <1>2, ToSetAppend, StaysInjective DEF Submits, OnePlace
  <2>. QED BY <1>2, <2>1 DEF Submits, OnePlace
<1>3. ASSUME NEW t \in Tasks, Links(t) PROVE OnePlace'
  <2>1. t \in ToSet(submitted) \ (ToSet(fibers) \cup ToSet(taken))
    BY <1>3 DEF Links, OnePlace
  <2>2. ToSet(fibers') \subseteq ToSet(fibers) \cup {t} /\ IsInjective(fibers')
    <3>1. CASE fibers' = fibers
      BY <3>1 DEF OnePlace
    <3>2. CASE fibers' = Append(fibers, t)
      BY <1>0, <2>1, <3>2, ToSetAppend, StaysInjective DEF OnePlace
    <3>. QED BY <1>3, <3>1, <3>2 DEF Links
  <2>. QED BY <1>3, <2>1, <2>2 DEF Links, OnePlace
<1>4. ASSUME NEW w \in Workers, EraseUnlink(w), Takes(work[w].pos, work[w].atEnd)
      PROVE  OnePlace'
  <2>. DEFINE t == fibers[work[w].pos]
  <2>1. t \in Tasks /\ t \in ToSet(fibers)
    BY <1>4, TakesFacts
  <2>2. IsInjective(fibers') /\ ToSet(fibers') \subseteq ToSet(fibers) \ {t}
    BY <1>4, TakesFacts, ErasedToSet DEF Takes, OnePlace
  <2>3. taken' = Append(taken, t)
    BY <1>4 DEF Takes
  <2>. HIDE DEF t
  <2>4. IsInjective(taken') /\ ToSet(taken') = ToSet(taken) \cup {t}
    BY <1>0, <2>1, <2>3, ToSetAppend, StaysInjective DEF OnePlace
  <2>. QED BY <1>4, <2>1, <2>2, <2>4 DEF Takes, OnePlace
<1>. QED BY <1>1, <1>2, <1>3, <1>4, StepKinds

\* run() hands a task to one worker only, and no task that was handed out is seen in
\* m_fibers again: whichever appends and erases overlap under their different mutexes.
THEOREM TakenOnce == Spec => []AtMostOnce
<1>1. Structure /\ OnePlace => AtMostOnce
  <2>. SUFFICES ASSUME Structure, OnePlace PROVE AtMostOnce
    OBVIOUS
  <2>1. \A i, j \in DOMAIN taken : taken[i] = taken[j] => i = j
    BY DEF OnePlace, IsInjective
  <2>2. \A i \in DOMAIN fibers, j \in DOMAIN taken : fibers[i] # taken[j]
    BY DEF OnePlace, ToSet
  <2>. QED BY <2>1, <2>2 DEF AtMostOnce
<1>2. Structure /\ OnePlace /\ [Next]_vars => Structure' /\ OnePlace'
  BY NextStructure, NextOnePlace
<1>. QED BY InitStructure, InitOnePlace, <1>1, <1>2, PTL DEF Spec

-----------------------------------------------------------------------------
(* No backlog sleeps                                                         *)

\* A worker goes to sleep only after it has written a wake-up itself.
WokenOrAwake == (\A w \in Workers : work[w].pc = "idle") => pipe

\* The wake-up for a backlog is never used up in vain, provided that there is a worker
\* at all: whoever drains the pipe scans, and the scan that finds nothing to take
\* writes the next wake-up before its worker sleeps.
THEOREM BacklogIsWoken ==
    ASSUME Workers # {}
    PROVE  Spec => []NoStalledBacklog
<1>1. Init => WokenOrAwake
  BY DEF Init, WokenOrAwake
<1>2. Structure /\ WokenOrAwake /\ [Next]_vars => WokenOrAwake'
  <2>. SUFFICES ASSUME Structure, WokenOrAwake, [Next]_vars PROVE WokenOrAwake'
    OBVIOUS
  <2>0. work \in [Workers -> WorkRec]
    BY DEF Structure, TypeOK
  <2>1. CASE UNCHANGED <<work, pipe>>
    BY <2>1 DEF WokenOrAwake
  <2>2. ASSUME NEW p \in Producers, ScheduleTickle(p) PROVE WokenOrAwake'
    BY <2>2 DEF ScheduleTickle, WokenOrAwake
  <2>3. ASSUME NEW w \in Workers, Tickle(w) PROVE WokenOrAwake'
    BY <2>3 DEF Tickle, WokenOrAwake
  <2>4. ASSUME NEW w \in Workers, ScanTake(w) \/ EraseUnlink(w) \/ ScanEnd(w) \/ Run(w) \/ Wake(w)
        PROVE  WokenOrAwake'
    <3>1. CASE ScanTake(w)
      BY <2>0, <3>1 DEF ScanTake, WokenOrAwake
    <3>2. CASE EraseUnlink(w) \/ ScanEnd(w) \/ Run(w) \/ Wake(w)
      <4>1. work'[w].pc # "idle"
        BY <2>0, <3>2 DEF EraseUnlink, ScanEnd, ScanEndNeed, Run, Wake, WorkRec
      <4>. QED BY <4>1 DEF WokenOrAwake
    <3>. QED BY <2>4, <3>1, <3>2
  <2>5. ASSUME NEW p \in Producers,
               \/ ScheduleLock(p) \/ HookRead(p) \/ HookLink(p) \/ HookPublish(p) \/ ScheduleUnlock(p)
               \/ \E t \in Unsubmitted \cup {NoTask} : ScheduleItem(p, t)
        PROVE  WokenOrAwake'
    BY <2>1, <2>5 DEF ScheduleLock, HookRead, HookLink, HookPublish, ScheduleUnlock, ScheduleItem
  <2>. QED BY <2>1, <2>2, <2>3, <2>4, <2>5 DEF Next, vars
<1>3. WokenOrAwake => NoStalledBacklog
  BY DEF WokenOrAwake, NoStalledBacklog
<1>. QED BY InitStructure, NextStructure, <1>1, <1>2, <1>3, PTL DEF Spec

-----------------------------------------------------------------------------
(* Callbacks keep their order                                                *)

LEMMA BeforeAppend ==
    ASSUME NEW s \in Seq(Tasks), NEW x \in Tasks, NEW t, NEW u
    PROVE  /\ Before(s, t, u) => Before(Append(s, x), t, u)
           /\ t \in ToSet(s) => Before(Append(s, x), t, x)
           /\ Before(Append(s, x), t, u) => Before(s, t, u) \/ (u = x /\ t \in ToSet(s))
<1>. DEFINE a == Append(s, x)
<1>1. DOMAIN s = 1..Len(s) /\ DOMAIN a = 1..Len(s) + 1 /\ Len(s) \in Nat
  OBVIOUS
<1>2. /\ \A i \in 1..Len(s) : a[i] = s[i]
      /\ a[Len(s) + 1] = x
  OBVIOUS
<1>. HIDE DEF a
<1>3. Before(s, t, u) => Before(a, t, u)
  BY <1>1, <1>2 DEF Before
<1>4. t \in ToSet(s) => Before(a, t, x)
  <2>. SUFFICES ASSUME t \in ToSet(s) PROVE Before(a, t, x)
    OBVIOUS
  <2>1. PICK i \in 1..Len(s) : s[i] = t
    BY InToSet
  <2>2. i \in DOMAIN a /\ Len(s) + 1 \in DOMAIN a /\ i < Len(s) + 1 /\ a[i] = t /\ a[Len(s) + 1] = x
    BY <1>1, <1>2, <2>1
  <2>. QED BY <2>2 DEF Before
<1>5. Before(a, t, u) => Before(s, t, u) \/ (u = x /\ t \in ToSet(s))
  <2>. SUFFICES ASSUME Before(a, t, u) PROVE Before(s, t, u) \/ (u = x /\ t \in ToSet(s))
    OBVIOUS
  <2>1. PICK i \in 1..Len(s) + 1, j \in 1..Len(s) + 1 : i < j /\ a[i] = t /\ a[j] = u
    BY <1>1 DEF Before
  <2>2. i \in 1..Len(s) /\ s[i] = t
    BY <1>1, <1>2, <2>1
  <2>3. t \in ToSet(s)
    BY <2>2, InToSet
  <2>4. CASE j = Len(s) + 1
    BY <1>2, <2>1, <2>3, <2>4
  <2>5. CASE j # Len(s) + 1
    <3>1. j \in 1..Len(s) /\ s[j] = u
      BY <1>1, <1>2, <2>1, <2>5
    <3>. QED BY <1>1, <2>1, <2>2, <3>1 DEF Before
  <2>. QED BY <2>4, <2>5
<1>. QED BY <1>3, <1>4, <1>5 DEF a

\* An erase keeps the order of the nodes that stay.
LEMMA BeforeErased ==
    ASSUME NEW s \in Seq(Tasks), NEW pos \in 1..Len(s), NEW atEnd \in BOOLEAN, NEW t, NEW u,
           Before(Erased(s, pos, atEnd), t, u)
    PROVE  Before(s, t, u)
<1>. DEFINE e == Erased(s, pos, atEnd)
            at(i) == IF i < pos THEN i ELSE i + 1
<1>1. /\ e \in Seq(Tasks) /\ Len(e) \in Nat /\ Len(e) <= Len(s) - 1
      /\ \A i \in 1..Len(e) : e[i] = s[at(i)]
  BY ErasedElements, LenProperties
<1>2. PICK i \in 1..Len(e), j \in 1..Len(e) : i < j /\ e[i] = t /\ e[j] = u
  BY <1>1 DEF Before
<1>. HIDE DEF e
<1>3. at(i) \in 1..Len(s) /\ at(j) \in 1..Len(s) /\ at(i) < at(j)
  BY <1>1, <1>2
<1>. QED BY <1>1, <1>2, <1>3 DEF Before

\* Callbacks for any thread: no scan passes over them.
Plain == {t \in Tasks \ FiberTasks : Pin[t] = AnyWorker}

\* The task that is being erased is the first of them, if it is one.
EraseFirst == \A w \in Workers : work[w].pc = "erase" =>
    \A i \in 1..work[w].pos - 1 : fibers[i] \notin Plain

LEMMA NextEraseFirst == Structure /\ EraseFirst /\ [Next]_vars => EraseFirst'
<1>. SUFFICES ASSUME Structure, EraseFirst, [Next]_vars PROVE EraseFirst'
  OBVIOUS
<1>0. work \in [Workers -> WorkRec] /\ fibers \in Seq(Tasks)
  BY DEF Structure, TypeOK
<1>1. CASE UNCHANGED <<work, fibers>>
  BY <1>1 DEF EraseFirst
<1>2. ASSUME NEW p \in Producers, HookLink(p) PROVE EraseFirst'
  <2>1. /\ sched[p].node \in Tasks /\ sched[p].prev \in Tasks \cup {End}
        /\ sched[p].prev = End => fibers = <<>>
    BY <1>2, SchedFacts DEF HookLink, Structure, TypeOK, NodeInHand, SentinelLast
  <2>2. fibers' \in {fibers, Append(fibers, sched[p].node)} /\ work' = work
    BY <1>0, <1>2, <2>1, LinkedElements DEF HookLink
  <2>3. \A i \in 1..Len(fibers) : fibers'[i] = fibers[i]
    BY <1>0, <2>1, <2>2, AppendProperties
  <2>4. \A w \in Workers : work[w].pc = "erase" => work[w].pos \in 1..Len(fibers)
    BY DEF Structure, EraseInPlace
  <2>. QED BY <1>0, <2>2, <2>3, <2>4 DEF EraseFirst
<1>3. ASSUME NEW w \in Workers, ScanTake(w) PROVE EraseFirst'
  <2>1. PICK exec \in SUBSET FiberTasks, k \in 1..Len(fibers), r \in WorkRec :
             /\ Eligible(fibers[k], w, exec)
             /\ \A i \in 1..(k-1) : ~Eligible(fibers[i], w, exec)
             /\ r.pc = "erase" /\ r.node = fibers[k] /\ r.pos = k
             /\ r.atEnd <=> k = Len(fibers)
             /\ work' = [work EXCEPT ![w] = r]
    BY <1>3, TakeFacts
  <2>2. \A i \in 1..(k-1) : fibers[i] \notin Plain
    BY <2>1 DEF Eligible, PinnedElsewhere, Plain
  <2>3. fibers' = fibers
    BY <1>3 DEF ScanTake
  <2>. QED BY <1>0, <2>1, <2>2, <2>3 DEF EraseFirst
<1>4. ASSUME NEW w \in Workers, EraseUnlink(w) PROVE EraseFirst'
  <2>1. \A v \in Workers : work[v].pc = "erase" => v = w
    BY <1>4 DEF EraseUnlink, Structure, Owners
  <2>2. \A v \in Workers : work'[v].pc # "erase"
    BY <1>0, <1>4, <2>1 DEF EraseUnlink, WorkRec
  <2>. QED BY <2>2 DEF EraseFirst
<1>5. ASSUME NEW w \in Workers, ScanEnd(w) \/ Tickle(w) \/ Run(w) \/ Wake(w) PROVE EraseFirst'
  <2>1. fibers' = fibers /\ work'[w].pc # "erase" /\ \A v \in Workers \ {w} : work'[v] = work[v]
    BY <1>0, <1>5 DEF ScanEnd, Tickle, Run, Wake, WorkRec
  <2>. QED BY <2>1 DEF EraseFirst
<1>6. ASSUME NEW p \in Producers,
             \/ ScheduleLock(p) \/ HookRead(p) \/ HookPublish(p) \/ ScheduleUnlock(p) \/ ScheduleTickle(p)
             \/ \E t \in Unsubmitted \cup {NoTask} : ScheduleItem(p, t)
      PROVE  EraseFirst'
  BY <1>1, <1>6 DEF ScheduleLock, HookRead, HookPublish, ScheduleUnlock, ScheduleTickle, ScheduleItem
<1>. QED BY <1>1, <1>2, <1>3, <1>4, <1>5, <1>6 DEF Next, vars

\* The list is in the order of submission, a node in hand is the latest submission, and
\* a callback that was taken is older than those in the list.
InOrder ==
    /\ \A t, u \in Tasks : Before(fibers, t, u) => Before(submitted, t, u)
    /\ \A t \in InFlight, u \in ToSet(submitted) : u # t => Before(submitted, u, t)
    /\ \A t \in Plain \cap ToSet(taken), u \in Plain \cap ToSet(fibers) : Before(submitted, t, u)
    /\ \A t, u \in Plain : Before(taken, t, u) => Before(submitted, t, u)

LEMMA InitInOrder == Init => InOrder /\ EraseFirst
<1>. SUFFICES ASSUME Init PROVE InOrder /\ EraseFirst
  OBVIOUS
<1>1. ToSet(<<>>) = {} /\ \A t, u : ~Before(<<>>, t, u)
  BY DEF ToSet, Before
<1>2. InFlight = {}
  BY DEF Init, InFlight
<1>. QED BY <1>1, <1>2 DEF Init, InOrder, EraseFirst

LEMMA NextInOrder == Structure /\ OnePlace /\ EraseFirst /\ InOrder /\ [Next]_vars => InOrder'
<1>. SUFFICES ASSUME Structure, OnePlace, EraseFirst, InOrder, [Next]_vars PROVE InOrder'
  OBVIOUS
<1>0. fibers \in Seq(Tasks) /\ submitted \in Seq(Tasks) /\ taken \in Seq(Tasks) /\ Plain \subseteq Tasks
  BY DEF Structure, TypeOK, Plain
<1>1. CASE NoChange
  BY <1>1 DEF NoChange, InOrder
<1>2. ASSUME NEW x \in Tasks, Submits(x) PROVE InOrder'
  <2>1. \A t, u : Before(submitted, t, u) => Before(submitted', t, u)
    BY <1>0, <1>2, BeforeAppend DEF Submits
  <2>2. \A u \in ToSet(submitted') : u # x => Before(submitted', u, x)
    BY <1>0, <1>2, BeforeAppend, ToSetAppend DEF Submits
  <2>. QED BY <1>0, <1>2, <2>1, <2>2 DEF Submits, InOrder
<1>3. ASSUME NEW x \in Tasks, Links(x) PROVE InOrder'
  <2>1. \A u \in ToSet(submitted) : u # x => Before(submitted, u, x)
    BY <1>3 DEF Links, InOrder
  <2>2. x \notin ToSet(fibers) \cup ToSet(taken) /\ ToSet(fibers) \cup ToSet(taken) \subseteq ToSet(submitted)
    BY <1>3 DEF Links, OnePlace
  <2>3. CASE fibers' = fibers
    BY <1>3, <2>3 DEF Links, InOrder
  <2>4. CASE fibers' = Append(fibers, x)
    <3>1. \A t, u \in Tasks : Before(fibers', t, u) => Before(submitted, t, u)
      <4>. SUFFICES ASSUME NEW t \in Tasks, NEW u \in Tasks, Before(fibers', t, u)
                    PROVE  Before(submitted, t, u)
        OBVIOUS
      <4>1. Before(fibers, t, u) \/ (u = x /\ t \in ToSet(fibers))
        BY <1>0, <2>4, BeforeAppend
      <4>. QED BY <2>1, <2>2, <4>1 DEF InOrder
    <3>2. ToSet(fibers') = ToSet(fibers) \cup {x}
      BY <1>0, <2>4, ToSetAppend
    <3>3. \A t \in Plain \cap ToSet(taken), u \in Plain \cap ToSet(fibers') : Before(submitted, t, u)
      BY <2>1, <2>2, <3>2 DEF InOrder
    <3>. QED BY <1>3, <3>1, <3>3 DEF Links, InOrder
  <2>. QED BY <1>3, <2>3, <2>4 DEF Links
<1>4. ASSUME NEW w \in Workers, EraseUnlink(w), Takes(work[w].pos, work[w].atEnd)
      PROVE  InOrder'
  <2>. DEFINE pos == work[w].pos
              x == fibers[pos]
  <2>1. x \in Tasks /\ x \in ToSet(fibers) /\ pos \in 1..Len(fibers) /\ work[w].atEnd \in BOOLEAN
    BY <1>4, TakesFacts
  <2>2. \A t, u : Before(fibers', t, u) => Before(fibers, t, u)
    BY <1>0, <1>4, <2>1, BeforeErased DEF Takes
  <2>3. ToSet(fibers') \subseteq ToSet(fibers) \ {x}
    BY <1>0, <1>4, <2>1, ErasedToSet DEF Takes, OnePlace
  <2>4. \A i \in 1..pos - 1 : fibers[i] \notin Plain
    BY <1>4 DEF EraseUnlink, EraseFirst
  <2>5. \A u \in Plain \cap ToSet(fibers') : Before(submitted, x, u)
    <3>. SUFFICES ASSUME NEW u \in Plain \cap ToSet(fibers') PROVE Before(submitted, x, u)
      OBVIOUS
    <3>1. PICK i \in 1..Len(fibers) : fibers[i] = u
      BY <1>0, <2>3, InToSet
    <3>2. pos < i
      BY <2>1, <2>3, <2>4, <3>1
    <3>3. Before(fibers, x, u)
      BY <1>0, <2>1, <3>1, <3>2 DEF Before
    <3>. QED BY <1>0, <2>1, <3>3 DEF InOrder
  <2>6. taken' = Append(taken, x) /\ submitted' = submitted /\ InFlight' = InFlight
    BY <1>4 DEF Takes
  <2>. HIDE DEF x
  <2>7. ToSet(taken') = ToSet(taken) \cup {x}
    BY <1>0, <2>1, <2>6, ToSetAppend
  <2>8. \A t, u \in Plain : Before(taken', t, u) => Before(submitted, t, u)
    <3>. SUFFICES ASSUME NEW t \in Plain, NEW u \in Plain, Before(taken', t, u)
                  PROVE  Before(submitted, t, u)
      OBVIOUS
    <3>1. Before(taken, t, u) \/ (u = x /\ t \in ToSet(taken))
      BY <1>0, <2>1, <2>6, BeforeAppend
    <3>. QED BY <2>1, <3>1 DEF InOrder
  <2>9. \A t \in Plain \cap ToSet(taken'), u \in Plain \cap ToSet(fibers') : Before(submitted, t, u)
    BY <2>3, <2>5, <2>7 DEF InOrder
  <2>. QED BY <2>2, <2>6, <2>8, <2>9 DEF InOrder
<1>. QED BY <1>1, <1>2, <1>3, <1>4, StepKinds

\* Callbacks that any thread may run are handed out in the order in which schedule()
\* appended them, whatever is lost and whoever scans.
THEOREM CallbacksInOrder == Spec => []CallbackOrder
<1>. DEFINE Inv == Structure /\ OnePlace /\ EraseFirst /\ InOrder
<1>1. Init => Inv
  BY InitStructure, InitOnePlace, InitInOrder
<1>2. Inv /\ [Next]_vars => Inv'
  BY NextStructure, NextOnePlace, NextEraseFirst, NextInOrder
<1>3. Inv => CallbackOrder
  BY DEF InOrder, CallbackOrder, Plain
<1>. QED BY <1>1, <1>2, <1>3, PTL DEF Spec

-----------------------------------------------------------------------------
(* The list implements the task pool                                         *)

LEMMA InitPool == Init => Pool!Init
<1>. SUFFICES ASSUME Init PROVE Pool!Init
  OBVIOUS
<1>1. ToSet(<<>>) = {}
  BY DEF ToSet
<1>2. \A t \in Tasks : TaskStatus(t) = "new"
  BY <1>1 DEF Init, TaskStatus
<1>. QED BY <1>2 DEF Init, Pool!Init

LEMMA NextPool ==
    ASSUME Structure, OnePlace, [Next]_vars
    PROVE  Pool!Next \/ UNCHANGED <<[t \in Tasks |-> TaskStatus(t)], taken>>
<1>0. fibers \in Seq(Tasks) /\ submitted \in Seq(Tasks) /\ taken \in Seq(Tasks)
  BY DEF Structure, TypeOK
<1>1. CASE NoChange
  <2>1. \A t \in Tasks : TaskStatus(t)' = TaskStatus(t)
    BY <1>1 DEF NoChange, TaskStatus
  <2>. QED BY <1>1, <2>1 DEF NoChange
<1>2. ASSUME NEW x \in Tasks, Submits(x) PROVE Pool!Submit(x)
  <2>1. ToSet(submitted') = ToSet(submitted) \cup {x}
    BY <1>0, <1>2, ToSetAppend DEF Submits
  <2>2. TaskStatus(x) = "new" /\ TaskStatus(x)' = "pending"
    BY <1>2, <2>1 DEF Submits, OnePlace, TaskStatus
  <2>3. \A t \in Tasks \ {x} : TaskStatus(t)' = TaskStatus(t)
    BY <1>2, <2>1 DEF Submits, TaskStatus
  <2>4. taken' = taken
    BY <1>2 DEF Submits
  <2>. QED BY <2>2, <2>3, <2>4 DEF Pool!Submit
<1>3. ASSUME NEW x \in Tasks, Links(x)
      PROVE  \E L \in SUBSET Tasks : Pool!Lose(L)
  <2>. DEFINE L == IF x \in ToSet(fibers') THEN {} ELSE {x}
  <2>1. ToSet(fibers') \subseteq ToSet(fibers) \cup {x} /\ ToSet(fibers) \subseteq ToSet(fibers')
    <3>1. CASE fibers' = fibers
      BY <3>1
    <3>2. CASE fibers' = Append(fibers, x)
      BY <1>0, <3>2, ToSetAppend
    <3>. QED BY <1>3, <3>1, <3>2 DEF Links
  <2>2. x \in ToSet(submitted) \ (ToSet(fibers) \cup ToSet(taken))
    BY <1>3 DEF Links, OnePlace
  <2>3. TaskStatus(x) = "pending" /\ TaskStatus(x)' = IF x \in L THEN "lost" ELSE "pending"
    BY <1>3, <2>2 DEF Links, TaskStatus
  <2>4. \A t \in Tasks \ {x} : TaskStatus(t)' = TaskStatus(t)
    BY <1>3, <2>1 DEF Links, TaskStatus
  <2>5. taken' = taken /\ L \in SUBSET Tasks /\ L \subseteq {x}
    BY <1>3 DEF Links
  <2>. HIDE DEF L
  <2>6. Pool!Lose(L)
    BY <2>3, <2>4, <2>5 DEF Pool!Lose
  <2>. QED BY <2>5, <2>6
<1>4. ASSUME NEW w \in Workers, EraseUnlink(w), Takes(work[w].pos, work[w].atEnd)
      PROVE  \E L \in SUBSET Tasks, t \in Tasks : Pool!Take(t, L)
  <2>0. PICK x \in Tasks : x = fibers[work[w].pos]
    BY <1>4, TakesFacts
  <2>. DEFINE L == ToSet(fibers) \ (ToSet(fibers') \cup {x})
  <2>1. x \in Tasks /\ x \in ToSet(fibers) /\ x \in ToSet(submitted) /\ ToSet(fibers) \subseteq Tasks
    <3>1. ToSet(fibers) \subseteq Tasks
      BY <1>0 DEF ToSet
    <3>. QED BY <1>4, <2>0, <3>1, TakesFacts DEF OnePlace
  <2>2. ToSet(fibers') \subseteq ToSet(fibers) \ {x}
    BY <1>0, <1>4, <2>0, TakesFacts, ErasedToSet DEF Takes, OnePlace
  <2>3. taken' = Append(taken, x) /\ submitted' = submitted /\ InFlight' = InFlight
    BY <1>4, <2>0 DEF Takes
  <2>4. ToSet(taken') = ToSet(taken) \cup {x}
    BY <1>0, <2>1, <2>3, ToSetAppend
  <2>5. \A t \in L \cup {x} : TaskStatus(t) = "pending"
    BY <2>1 DEF OnePlace, TaskStatus
  <2>6. TaskStatus(x)' = "taken"
    BY <2>4 DEF TaskStatus
  <2>7. \A t \in L : TaskStatus(t)' = "lost"
    BY <2>1, <2>3, <2>4 DEF OnePlace, TaskStatus
  <2>8. \A t \in Tasks \ (L \cup {x}) : TaskStatus(t)' = TaskStatus(t)
    BY <2>1, <2>2, <2>3, <2>4 DEF TaskStatus
  <2>9. x \notin L /\ L \in SUBSET Tasks
    BY <2>1
  <2>. HIDE DEF L
  <2>10. Pool!Take(x, L)
    BY <2>1, <2>3, <2>5, <2>6, <2>7, <2>8, <2>9 DEF Pool!Take
  <2>. QED BY <2>1, <2>9, <2>10
<1>. QED BY <1>1, <1>2, <1>3, <1>4, StepKinds DEF Pool!Next

\* m_fibers, with its races, implements the task pool: a task is pending from its
\* submission until it is handed out once or lost, and never comes back.
THEOREM ImplementsPool == Spec => PoolSpec
<1>. DEFINE Inv == Structure /\ OnePlace
<1>1. Init => Inv /\ Pool!Init
  BY InitStructure, InitOnePlace, InitPool
<1>2. Inv /\ [Next]_vars => Inv' /\ [Pool!Next]_(<<[t \in Tasks |-> TaskStatus(t)], taken>>)
  BY NextStructure, NextOnePlace, NextPool
<1>. QED BY <1>1, <1>2, PTL DEF Spec, PoolSpec, Pool!Spec
=============================================================================
