---------------------------- MODULE Hook_proofs -----------------------------
(***************************************************************************)
(* The hooked system calls for every number of fibers, fds and files: what *)
(* close() and the reuse of a number leave behind, and which calls with a  *)
(* time-out can lose it.                                                   *)
(***************************************************************************)
EXTENDS Hook, FiniteSetTheorems, WellFoundedInduction, TLAPS

-----------------------------------------------------------------------------
(* The inductive invariant                                                   *)

IoOps == {"read", "write", "accept", "connect"}

FbRec ==
    [pc : {"idle", "create", "direct", "try", "blocked", "arm", "lock", "add", "wait", "queued",
           "raw", "cancelAll", "del", "close"},
     op : IoOps \cup {"none", "sleep"}, fd : Fds, ctx : 0 .. MaxFiles, timed : BOOLEAN,
     armed : BOOLEAN, late : 0 .. MaxLate, cancelled : BOOLEAN, gap : BOOLEAN, early : BOOLEAN]

\* socket() between the kernel's call and get(fd, true); close() at any of its steps.
Owning(r) == r.pc \in {"create", "raw", "cancelAll", "del", "close"}

\* A call of do_io or connect_with_timeout.
InIo(r) == r.pc \in {"direct", "try", "blocked", "arm", "lock", "add"}

\* Waiting for an event, in addEvent's sense.
Waits(f) == fb[f].pc = "wait" /\ fb[f].op # "sleep"

\* What the locals of a fiber hold at each place; only do_io's and sleep's timers are set.
Places ==
    \A f \in Fibers :
        /\ fb[f].pc = "idle" => fb[f] = Idle
        /\ Owning(fb[f]) => fb[f] = [Idle EXCEPT !.pc = fb[f].pc, !.fd = fb[f].fd]
        /\ InIo(fb[f]) \/ Waits(f) \/ (fb[f].pc = "queued" /\ fb[f].op # "sleep") => fb[f].op \in Calls
        /\ fb[f].op = "sleep" => fb[f].pc \in {"wait", "queued"} /\ ~fb[f].timed

\* Files are numbered in the order in which they are opened, a file has one number, and
\* nobody has seen an FdCtx of a file that is not there yet.
Numbers ==
    /\ \A d \in Fds : open[d] <= made /\ datas[d] <= made
    /\ \A d, e \in Fds : open[d] = open[e] /\ open[d] # 0 => d = e
    /\ \A f \in Fibers : fb[f].ctx <= made

\* Who is in socket() or close() with an fd has it alone, and the file is open; until
\* get(fd, true) nobody has seen an FdCtx of the new file; after del there is none.
Owners ==
    /\ \A f \in Fibers : Owning(fb[f]) => open[fb[f].fd] # 0
    /\ \A f, g \in Fibers : Owning(fb[f]) /\ Owning(fb[g]) /\ fb[f].fd = fb[g].fd => f = g
    /\ \A f \in Fibers : fb[f].pc = "create" =>
          /\ \A d \in Fds : datas[d] # open[fb[f].fd]
          /\ \A g \in Fibers : fb[g].ctx # open[fb[f].fd]
    /\ \A f \in Fibers : fb[f].pc = "close" => datas[fb[f].fd] = 0

\* A file with an FdCtx does not block, unless ioctl() has changed that.
NonBlocking ==
    \A d \in Fds \ bypassed : datas[d] # 0 => file[datas[d]].nonblock \/ datas[d] \in ioctled

\* A registration is of a fiber that waits for it, and of a file that was opened.
Registered ==
    \A d \in Fds, e \in Events : waiter[d][e] # Nobody =>
        /\ waiter[d][e].file # 0
        /\ \E f \in Fibers : /\ waiter[d][e].who = {f}
                             /\ Waits(f) /\ fb[f].fd = d /\ EventOf(fb[f].op) = e

\* Behind a cancelAll only those wait that came later, or on a file closed before.
Cancelled ==
    \A f, g \in Fibers : Waits(f) /\ fb[g].pc \in {"del", "close"} /\ fb[g].fd = fb[f].fd =>
        fb[f].gap \/ fb[f].fd \in bypassed

\* The time-out of a call is ahead or has come; when it has come and the call has not
\* returned, it came before the registration, or the registration was lost, or the
\* callback spins in cancelEvent.
TimeoutKnown ==
    \A f \in Fibers :
        /\ fb[f].pc \in {"lock", "add", "wait"} /\ fb[f].timed => fb[f].armed \/ fb[f].late > 0 \/ fb[f].cancelled
        /\ fb[f].pc \in {"try", "arm", "lock", "add"} /\ fb[f].cancelled => fb[f].early
        /\ Waits(f) /\ fb[f].cancelled =>
              fb[f].early \/ fb[f].gap \/ fb[f].fd \in bypassed \/ spinning

Types == TypeOK /\ fb \in [Fibers -> FbRec] /\ bypassed \subseteq Fds /\ ioctled \subseteq Files

IInv ==
    /\ Types /\ Places /\ Numbers /\ Owners /\ CtxMatchesFile /\ NonBlocking
    /\ BlocksOnlyWhenStale /\ Registered /\ OrphanNeedsGap /\ Cancelled /\ TimeoutKnown

-----------------------------------------------------------------------------
(* Facts about the constants and the locals                                  *)

\* The lowest free fd is a free one.
LEMMA LowestIn ==
    ASSUME NEW S \in SUBSET Nat, S # {}
    PROVE  Min(S) \in S
<1>1. PICK x \in S : \A y \in S : <<y, x>> \notin OpToRel(<, Nat)
  BY WFMin, NatLessThanWellFounded
<1>2. ASSUME NEW y \in S PROVE x <= y
  <2>1. x \in Nat /\ y \in Nat
    OBVIOUS
  <2>2. y < x => <<y, x>> \in OpToRel(<, Nat)
    BY <2>1 DEF OpToRel
  <2>3. ~(y < x)
    BY <1>1, <2>2
  <2>. QED BY <2>1, <2>3
<1>. QED BY <1>2 DEF Min

LEMMA IdleType == Idle \in FbRec /\ Idle.fd \in Fds
<1>1. Min(Fds) \in Fds
  BY LowestIn, HookAssumption
<1>. QED BY <1>1, HookAssumption DEF Idle, FbRec

LEMMA IdleIs ==
    /\ Idle.pc = "idle" /\ Idle.op = "none" /\ Idle.ctx = 0 /\ Idle.timed = FALSE
    /\ Idle.armed = FALSE /\ Idle.late = 0 /\ Idle.cancelled = FALSE
    /\ Idle.gap = FALSE /\ Idle.early = FALSE
  BY DEF Idle

LEMMA CallEvents ==
    ASSUME NEW op \in Calls
    PROVE  op \in IoOps /\ EventOf(op) \in Events
<1>1. PICK f \in Fibers : op \in IoCalls[f]
  BY DEF Calls
<1>2. IoCalls[f] \subseteq {"read", "write", "accept", "connect", "sleep"}
  BY HookAssumption
<1>3. op # "sleep"
  BY DEF Calls
<1>. QED BY <1>1, <1>2, <1>3 DEF IoOps, Events

LEMMA FbFacts ==
    ASSUME Types, NEW f \in Fibers
    PROVE  /\ fb[f] \in FbRec /\ fb[f].fd \in Fds /\ fb[f].ctx \in 0 .. MaxFiles
           /\ fb[f].timed \in BOOLEAN /\ fb[f].armed \in BOOLEAN /\ fb[f].late \in 0 .. MaxLate
           /\ fb[f].cancelled \in BOOLEAN /\ fb[f].gap \in BOOLEAN /\ fb[f].early \in BOOLEAN
           /\ fb[f].op \in IoOps \cup {"none", "sleep"}
  BY DEF Types, FbRec

-----------------------------------------------------------------------------
(* Steps that move one fiber, and leave fds and registrations alone          *)

\* Nothing that fibers share has changed; a file may have become ready, or not ready.
SharedSame ==
    /\ UNCHANGED <<open, made, datas, waiter, bypassed, ioctled>>
    /\ \A x \in Files : file'[x].nonblock = file[x].nonblock
    /\ spinning => spinning'

\* The place and the locals that f moves to fit what the others rely on.
Fits(f, r) ==
    /\ r \in FbRec
    /\ r.pc = "idle" => r = Idle
    /\ Owning(r) => r = [Idle EXCEPT !.pc = r.pc, !.fd = r.fd]
    /\ InIo(r) \/ (r.pc \in {"wait", "queued"} /\ r.op # "sleep") => r.op \in Calls
    /\ r.op = "sleep" => r.pc \in {"wait", "queued"} /\ ~r.timed
    /\ r.pc \notin {"create", "del", "close"}
    /\ Owning(r) => /\ open[r.fd] # 0
                    /\ \A g \in Fibers \ {f} : Owning(fb[g]) => fb[g].fd # r.fd
    /\ r.ctx = fb[f].ctx \/ r.ctx = 0 \/ \E d \in Fds : r.ctx = datas[d]
    /\ r.pc = "blocked" /\ r.ctx # 0 =>
          \/ r.ctx # open[r.fd] \/ datas[r.fd] # open[r.fd]
          \/ open[r.fd] \in ioctled \/ r.fd \in bypassed
    /\ (r.pc = "wait" /\ r.op # "sleep") <=> Waits(f)
    /\ Waits(f) => r.op = fb[f].op /\ r.fd = fb[f].fd /\ r.gap = fb[f].gap
    /\ r.pc \in {"lock", "add", "wait"} /\ r.timed => r.armed \/ r.late > 0 \/ r.cancelled
    /\ r.pc \in {"try", "arm", "lock", "add"} /\ r.cancelled => r.early
    /\ Waits(f) /\ r.cancelled => r.early \/ r.gap \/ r.fd \in bypassed \/ spinning'

LEMMA Local ==
    ASSUME IInv, Types', NEW f \in Fibers, NEW r, fb' = [fb EXCEPT ![f] = r],
           Fits(f, r), SharedSame
    PROVE  IInv'
<1>. USE DEF SharedSame
<1>0. Types /\ fb \in [Fibers -> FbRec]
  BY DEF IInv, Types
<1>1. /\ fb'[f] = r /\ \A g \in Fibers \ {f} : fb'[g] = fb[g]
      /\ r \in FbRec
  BY <1>0 DEF Fits
<1>2. Waits(f)' <=> Waits(f)
  BY <1>1 DEF Waits, Fits
<1>3. \A g \in Fibers \ {f} : Waits(g)' <=> Waits(g)
  BY <1>1 DEF Waits
<1>4. \A g \in Fibers : Waits(g) => fb'[g].op = fb[g].op /\ fb'[g].fd = fb[g].fd /\ fb'[g].gap = fb[g].gap
  BY <1>1 DEF Fits
<1>5. Places'
  <2>1. ASSUME NEW g \in Fibers, g # f
        PROVE  /\ fb'[g].pc = "idle" => fb'[g] = Idle
               /\ Owning(fb'[g]) => fb'[g] = [Idle EXCEPT !.pc = fb'[g].pc, !.fd = fb'[g].fd]
               /\ InIo(fb'[g]) \/ Waits(g)' \/ (fb'[g].pc = "queued" /\ fb'[g].op # "sleep") => fb'[g].op \in Calls
               /\ fb'[g].op = "sleep" => fb'[g].pc \in {"wait", "queued"} /\ ~fb'[g].timed
    <3>1. fb'[g] = fb[g] /\ (Waits(g)' <=> Waits(g))
      BY <1>1, <1>3, <2>1
    <3>. QED BY <3>1 DEF IInv, Places
  <2>2. /\ fb'[f].pc = "idle" => fb'[f] = Idle
        /\ Owning(fb'[f]) => fb'[f] = [Idle EXCEPT !.pc = fb'[f].pc, !.fd = fb'[f].fd]
        /\ InIo(fb'[f]) \/ Waits(f)' \/ (fb'[f].pc = "queued" /\ fb'[f].op # "sleep") => fb'[f].op \in Calls
        /\ fb'[f].op = "sleep" => fb'[f].pc \in {"wait", "queued"} /\ ~fb'[f].timed
    BY <1>1 DEF Fits, Waits
  <2>. QED BY <2>1, <2>2 DEF Places
<1>6. Numbers'
  <2>1. r.ctx <= made
    BY DEF Fits, IInv, Numbers, Types, TypeOK
  <2>. QED BY <2>1, <1>1 DEF IInv, Numbers
<1>7. Owners'
  <2>1. \A g \in Fibers : fb'[g].pc \in {"create", "close"} => g # f
    BY <1>1 DEF Fits
  <2>2. \A g \in Fibers : Owning(fb'[g]) => open[fb'[g].fd] # 0
    BY <1>1 DEF Fits, IInv, Owners
  <2>3. \A g, h \in Fibers : Owning(fb'[g]) /\ Owning(fb'[h]) /\ fb'[g].fd = fb'[h].fd => g = h
    BY <1>1 DEF Fits, IInv, Owners
  <2>4. ASSUME NEW g \in Fibers, fb'[g].pc = "create", NEW h \in Fibers
        PROVE  fb'[h].ctx # open[fb'[g].fd]
    <3>1. fb'[g] = fb[g] /\ open[fb[g].fd] # 0 /\ fb[g].pc = "create"
      BY <1>1, <2>1, <2>4 DEF IInv, Owners, Owning
    <3>2. r.ctx # open[fb[g].fd]
      BY <3>1 DEF Fits, IInv, Owners
    <3>. QED BY <1>1, <3>1, <3>2 DEF IInv, Owners
  <2>5. \A g \in Fibers : fb'[g].pc = "create" => \A d \in Fds : datas[d] # open[fb'[g].fd]
    BY <1>1, <2>1 DEF IInv, Owners
  <2>6. \A g \in Fibers : fb'[g].pc = "close" => datas[fb'[g].fd] = 0
    BY <1>1, <2>1 DEF IInv, Owners
  <2>. QED BY <2>2, <2>3, <2>4, <2>5, <2>6 DEF Owners
<1>8. CtxMatchesFile' /\ NonBlocking'
  <2>1. \A d \in Fds : datas[d] # 0 => datas[d] \in Files
    BY DEF IInv, Types, TypeOK, Files
  <2>. QED BY <2>1 DEF IInv, CtxMatchesFile, NonBlocking
<1>9. BlocksOnlyWhenStale'
  BY <1>1 DEF IInv, BlocksOnlyWhenStale, Fits
<1>10. Registered'
  BY <1>2, <1>3, <1>4 DEF IInv, Registered
<1>11. OrphanNeedsGap'
  <2>1. \A g \in Fibers : Waits(g)' =>
            LET w == waiter[fb[g].fd][EventOf(fb[g].op)] IN
            w.who = {g} /\ (w.file = open[fb[g].fd] \/ fb[g].gap \/ fb[g].fd \in bypassed)
    BY <1>2, <1>3 DEF IInv, OrphanNeedsGap, Waits
  <2>2. ASSUME NEW g \in Fibers, Waits(g)'
        PROVE  LET w == waiter'[fb'[g].fd][EventOf(fb'[g].op)] IN
               w.who = {g} /\ (w.file = open'[fb'[g].fd] \/ fb'[g].gap \/ fb'[g].fd \in bypassed')
    <3>1. fb'[g].op = fb[g].op /\ fb'[g].fd = fb[g].fd /\ fb'[g].gap = fb[g].gap
      BY <1>2, <1>3, <1>4, <2>2
    <3>. QED BY <2>1, <2>2, <3>1
  <2>. QED BY <2>2 DEF OrphanNeedsGap, Waits
<1>12. Cancelled'
  <2>1. \A g \in Fibers : fb'[g].pc \in {"del", "close"} => fb'[g] = fb[g]
    BY <1>1 DEF Fits
  <2>. QED BY <1>2, <1>3, <1>4, <2>1 DEF IInv, Cancelled
<1>13. TimeoutKnown'
  BY <1>1, <1>2, <1>3 DEF IInv, TimeoutKnown, Fits
<1>. QED BY <1>5, <1>6, <1>7, <1>8, <1>9, <1>10, <1>11, <1>12, <1>13 DEF IInv

LEMMA FbType ==
    ASSUME Types, NEW f \in Fibers, NEW r \in FbRec, fb' = [fb EXCEPT ![f] = r]
    PROVE  fb' \in [Fibers -> FbRec]
  BY DEF Types

\* Types of what the fibers share, when it has not changed.
SharedTypes ==
    /\ open \in [Fds -> 0 .. MaxFiles] /\ datas \in [Fds -> 0 .. MaxFiles]
    /\ file \in [Files -> [nonblock : BOOLEAN, ready : SUBSET Events]]
    /\ made \in 0 .. MaxFiles /\ ctls \in 0 .. MaxCtl
    /\ ctx \in [Files -> [user : BOOLEAN, timeout : [Events -> BOOLEAN]]]
    /\ waiter \in [Fds -> [Events -> [who : SUBSET Fibers, file : 0 .. MaxFiles]]]
    /\ readers \in -2 .. 0 /\ spinning \in BOOLEAN
    /\ bypassed \subseteq Fds /\ ioctled \subseteq Files

LEMMA TypesAre == Types <=> SharedTypes /\ fb \in [Fibers -> FbRec]
  BY DEF Types, TypeOK, SharedTypes, FbRec

LEMMA TypesArePrime == Types' <=> SharedTypes' /\ fb' \in [Fibers -> FbRec]
  BY DEF Types, TypeOK, SharedTypes, FbRec

LEMMA MoveLocal ==
    ASSUME IInv, NEW f \in Fibers, NEW r, fb' = [fb EXCEPT ![f] = r], Fits(f, r),
           UNCHANGED <<kernel, datas, ctx, waiter, ghosts>>,
           readers' \in -2 .. 0, spinning' \in BOOLEAN, spinning => spinning'
    PROVE  IInv'
<1>1. Types' /\ SharedSame
  <2>1. Types /\ r \in FbRec
    BY DEF IInv, Fits
  <2>2. fb' \in [Fibers -> FbRec]
    BY <2>1, FbType
  <2>3. SharedTypes'
    BY <2>1, TypesAre DEF SharedTypes, kernel, ghosts
  <2>4. SharedSame
    BY DEF SharedSame, kernel, ghosts
  <2>. QED BY <2>2, <2>3, <2>4, TypesArePrime
<1>. QED BY <1>1, Local

LEMMA StayLocal ==
    ASSUME IInv, NEW f \in Fibers, NEW r, fb' = [fb EXCEPT ![f] = r], Fits(f, r),
           UNCHANGED <<kernel, datas, ctx, waiter, mtx, ghosts>>
    PROVE  IInv'
<1>1. readers' \in -2 .. 0 /\ spinning' \in BOOLEAN /\ (spinning => spinning')
  BY DEF IInv, Types, TypeOK, mtx
<1>. QED BY <1>1, MoveLocal

\* A fiber that is in a call that does not wait may return.
LEMMA FitsIdle ==
    ASSUME IInv, NEW f \in Fibers, ~Waits(f)
    PROVE  Fits(f, Idle)
  BY IdleType, IdleIs DEF Fits, Owning, InIo

LEMMA NextIoCall ==
    ASSUME IInv, NEW f \in Fibers, NEW op \in IoCalls[f] \ {"sleep"}, NEW d \in Fds, IoCall(f, op, d)
    PROVE  IInv'
<1>1. Types /\ fb[f].pc = "idle" /\ datas[d] \in 0 .. MaxFiles
  BY DEF IInv, Types, TypeOK, IoCall
<1>2. op \in Calls
  BY DEF Calls
<1>3. op \in IoOps
  BY <1>2, CallEvents
<1>4. PICK timed \in BOOLEAN :
        /\ Direct(datas[d]) => timed = FALSE
        /\ fb' = [fb EXCEPT ![f] =
              [Idle EXCEPT !.pc = IF Direct(datas[d]) THEN "direct" ELSE "try", !.op = op, !.fd = d,
                           !.ctx = datas[d], !.timed = timed]]
  <2>1. CASE Direct(datas[d])
    BY <2>1 DEF IoCall
  <2>2. CASE ~Direct(datas[d])
    <3>1. datas[d] \in Files
      BY <1>1, <2>2, HookAssumption DEF Direct, Files
    <3>2. TimeoutOf(datas[d], op) \in BOOLEAN
      BY <1>2, <3>1, CallEvents DEF IInv, Types, TypeOK, TimeoutOf
    <3>. QED BY <2>2, <3>2, HookAssumption DEF IoCall
  <2>. QED BY <2>1, <2>2
<1>. DEFINE r == [Idle EXCEPT !.pc = IF Direct(datas[d]) THEN "direct" ELSE "try", !.op = op, !.fd = d,
                           !.ctx = datas[d], !.timed = timed]
<1>5. /\ r \in FbRec /\ r.pc \in {"direct", "try"} /\ r.op = op /\ r.fd = d /\ r.ctx = datas[d]
      /\ ~r.cancelled
  BY <1>1, <1>3, IdleType, HookAssumption DEF FbRec, Idle
<1>. HIDE DEF r
<1>6. Fits(f, r)
  BY <1>1, <1>2, <1>3, <1>5 DEF Fits, Owning, InIo, Waits, IoOps
<1>. QED BY <1>4, <1>6, StayLocal DEF IoCall, r

LEMMA NextWouldBlock ==
    ASSUME IInv, NEW f \in Fibers, fb[f].pc \in {"direct", "try"}, WouldBlock(f)
    PROVE  IInv'
<1>1. Types /\ fb[f] \in FbRec /\ fb[f].fd \in Fds /\ ~Waits(f) /\ fb[f].op \in Calls
      /\ fb[f].op \in IoOps /\ open[fb[f].fd] # 0
  BY FbFacts, CallEvents DEF IInv, Places, Waits, InIo, WouldBlock
<1>2. ASSUME NEW pc \in {"blocked", "arm"}, fb' = [fb EXCEPT ![f].pc = pc],
             pc = "blocked" => ~file[open[fb[f].fd]].nonblock,
             pc = "arm" => fb[f].pc = "try"
      PROVE  IInv'
  <2>. DEFINE r == [fb[f] EXCEPT !.pc = pc]
  <2>1. /\ r \in FbRec /\ r.pc = pc /\ r.op = fb[f].op /\ r.fd = fb[f].fd /\ r.ctx = fb[f].ctx
        /\ r.cancelled = fb[f].cancelled /\ r.early = fb[f].early
    BY <1>1 DEF FbRec
  <2>2. fb' = [fb EXCEPT ![f] = r]
    BY <1>1, <1>2 DEF Types
  <2>. HIDE DEF r
  <2>3. pc = "blocked" /\ r.ctx # 0 =>
          \/ r.ctx # open[r.fd] \/ datas[r.fd] # open[r.fd]
          \/ open[r.fd] \in ioctled \/ r.fd \in bypassed
    BY <1>1, <1>2, <2>1 DEF IInv, NonBlocking
  <2>4. pc = "arm" /\ r.cancelled => r.early
    BY <1>2, <2>1 DEF IInv, TimeoutKnown
  <2>5. Fits(f, r)
    BY <1>1, <2>1, <2>3, <2>4 DEF Fits, Owning, InIo, IoOps
  <2>. QED BY <2>2, <2>5, StayLocal DEF WouldBlock
<1>3. CASE ~file[open[fb[f].fd]].nonblock
  BY <1>2, <1>3 DEF WouldBlock, Goto
<1>4. CASE file[open[fb[f].fd]].nonblock /\ fb[f].pc = "direct"
  BY <1>1, <1>4, FitsIdle, StayLocal DEF WouldBlock, Return
<1>5. CASE file[open[fb[f].fd]].nonblock /\ fb[f].pc = "try"
  BY <1>2, <1>5 DEF WouldBlock, Goto
<1>. QED BY <1>3, <1>4, <1>5

\* The original function fails or succeeds at once, or the kernel lets its thread go on.
LEMMA NextDone ==
    ASSUME IInv, NEW f \in Fibers, fb[f].pc \in {"direct", "try", "blocked"}, Done(f)
    PROVE  IInv'
<1>1. Types /\ ~Waits(f) /\ open[fb[f].fd] \in 0 .. MaxFiles
  BY FbFacts DEF IInv, Waits, Types, TypeOK
<1>2. /\ file' \in [Files -> [nonblock : BOOLEAN, ready : SUBSET Events]]
      /\ \A x \in Files : file'[x].nonblock = file[x].nonblock
  <2>. DEFINE x == open[fb[f].fd]
              e == EventOf(fb[f].op)
  <2>0. file \in [Files -> [nonblock : BOOLEAN, ready : SUBSET Events]] /\ x \in 0 .. MaxFiles
    BY <1>1 DEF Types, TypeOK
  <2>1. file' = IF x = 0 THEN file ELSE [file EXCEPT ![x].ready = @ \ {e}]
    BY DEF Done
  <2>. HIDE DEF x, e
  <2>2. CASE x = 0
    BY <2>0, <2>1, <2>2
  <2>3. CASE x # 0
    <3>1. x \in Files /\ file' = [file EXCEPT ![x].ready = @ \ {e}]
      BY <2>0, <2>1, <2>3 DEF Files
    <3>2. ASSUME NEW y \in Files
          PROVE  file'[y] \in [nonblock : BOOLEAN, ready : SUBSET Events] /\ file'[y].nonblock = file[y].nonblock
      <4>1. file[y] \in [nonblock : BOOLEAN, ready : SUBSET Events]
        BY <2>0
      <4>2. CASE y = x
        <5>1. file'[y] = [file[y] EXCEPT !.ready = @ \ {e}]
          BY <2>0, <3>1, <4>2
        <5>. QED BY <4>1, <5>1
      <4>3. CASE y # x
        BY <2>0, <3>1, <4>1, <4>3
      <4>. QED BY <4>2, <4>3
    <3>3. DOMAIN file' = Files /\ file' = [y \in Files |-> file'[y]]
      BY <2>0, <3>1
    <3>. QED BY <3>2, <3>3
  <2>. QED BY <2>2, <2>3
<1>3. SharedTypes' /\ SharedSame
  BY <1>1, <1>2, TypesAre DEF SharedTypes, SharedSame, Done, mtx, ghosts
<1>4. fb' = [fb EXCEPT ![f] = Idle] /\ Fits(f, Idle)
  BY <1>1, FitsIdle DEF Done, Return
<1>5. Types'
  BY <1>1, <1>3, <1>4, IdleType, FbType, TypesArePrime
<1>. QED BY <1>3, <1>4, <1>5, Local

LEMMA NextArmTimer ==
    ASSUME IInv, NEW f \in Fibers, ArmTimer(f)
    PROVE  IInv'
<1>1. Types /\ fb[f] \in FbRec /\ fb[f].pc = "arm" /\ fb[f].op \in Calls /\ fb[f].op \in IoOps
  BY FbFacts, CallEvents DEF IInv, Places, InIo, ArmTimer
<1>. DEFINE r == [fb[f] EXCEPT !.pc = "lock", !.armed = fb[f].timed]
<1>2. /\ r \in FbRec /\ r.pc = "lock" /\ r.armed = fb[f].timed /\ r.op = fb[f].op /\ r.ctx = fb[f].ctx
      /\ r.timed = fb[f].timed /\ r.cancelled = fb[f].cancelled /\ r.early = fb[f].early
  BY <1>1 DEF FbRec
<1>3. fb' = [fb EXCEPT ![f] = r]
  BY <1>1 DEF Types, ArmTimer
<1>. HIDE DEF r
<1>4. r.cancelled => r.early
  BY <1>1, <1>2 DEF IInv, TimeoutKnown
<1>5. Fits(f, r)
  BY <1>1, <1>2, <1>4 DEF Fits, Owning, InIo, IoOps, Waits
<1>. QED BY <1>3, <1>5, StayLocal DEF ArmTimer

LEMMA NextLock ==
    ASSUME IInv, NEW f \in Fibers, Lock(f)
    PROVE  IInv'
<1>1. Types /\ fb[f] \in FbRec /\ fb[f].pc = "lock" /\ fb[f].op \in Calls /\ fb[f].op \in IoOps
  BY FbFacts, CallEvents DEF IInv, Places, InIo, Lock
<1>. DEFINE r == [fb[f] EXCEPT !.pc = "add"]
<1>2. /\ r \in FbRec /\ r.pc = "add" /\ r.op = fb[f].op /\ r.ctx = fb[f].ctx
      /\ r.armed = fb[f].armed /\ r.late = fb[f].late
      /\ r.timed = fb[f].timed /\ r.cancelled = fb[f].cancelled /\ r.early = fb[f].early
  BY <1>1 DEF FbRec
<1>3. fb' = [fb EXCEPT ![f] = r]
  BY <1>1 DEF Types, Lock, Goto
<1>. HIDE DEF r
<1>4. /\ r.timed => r.armed \/ r.late > 0 \/ r.cancelled
      /\ r.cancelled => r.early
  BY <1>1, <1>2 DEF IInv, TimeoutKnown
<1>5. Fits(f, r)
  BY <1>1, <1>2, <1>4 DEF Fits, Owning, InIo, IoOps, Waits
<1>. QED BY <1>3, <1>5, StayLocal DEF Lock

LEMMA NextResume ==
    ASSUME IInv, NEW f \in Fibers, Resume(f)
    PROVE  IInv'
<1>1. Types /\ fb[f] \in FbRec /\ fb[f].pc = "queued" /\ ~Waits(f)
  BY FbFacts DEF IInv, Waits, Resume
<1>2. CASE fb[f].cancelled \/ fb[f].op \in {"connect", "sleep"}
  BY <1>1, <1>2, FitsIdle, StayLocal DEF Resume, Return
<1>3. CASE ~(fb[f].cancelled \/ fb[f].op \in {"connect", "sleep"})
  <2>1. fb[f].op \in Calls /\ fb[f].op \in IoOps
    BY <1>1, <1>3, CallEvents DEF IInv, Places
  <2>. DEFINE r == [fb[f] EXCEPT !.pc = "try", !.armed = FALSE, !.gap = FALSE]
  <2>2. /\ r \in FbRec /\ r.pc = "try" /\ r.op = fb[f].op /\ r.ctx = fb[f].ctx
        /\ r.cancelled = fb[f].cancelled
    BY <1>1 DEF FbRec
  <2>3. fb' = [fb EXCEPT ![f] = r]
    BY <1>1, <1>3 DEF Types, Resume
  <2>. HIDE DEF r
  <2>4. Fits(f, r)
    BY <1>1, <1>3, <2>1, <2>2 DEF Fits, Owning, InIo, IoOps
  <2>. QED BY <2>3, <2>4, StayLocal DEF Resume
<1>. QED BY <1>2, <1>3

LEMMA NextSleep ==
    ASSUME IInv, NEW f \in Fibers, Sleep(f)
    PROVE  IInv'
<1>1. Types /\ fb[f] = Idle /\ ~Waits(f)
  BY IdleIs DEF IInv, Places, Sleep, Waits
<1>. DEFINE r == [Idle EXCEPT !.pc = "wait", !.op = "sleep", !.armed = TRUE]
<1>2. /\ r \in FbRec /\ r.pc = "wait" /\ r.op = "sleep" /\ r.ctx = 0 /\ r.timed = FALSE
      /\ r.cancelled = FALSE
  BY IdleType DEF FbRec, Idle
<1>3. fb' = [fb EXCEPT ![f] = r]
  BY <1>1 DEF Types, Sleep
<1>. HIDE DEF r
<1>4. Fits(f, r)
  BY <1>1, <1>2 DEF Fits, Owning, InIo
<1>. QED BY <1>3, <1>4, StayLocal DEF Sleep

\* A timer is armed only in a call that has one.
LEMMA NextExpire ==
    ASSUME IInv, NEW f \in Fibers, Expire(f)
    PROVE  IInv'
<1>1. Types /\ fb[f] \in FbRec /\ fb[f].armed /\ fb[f].late \in Nat /\ fb[f].late + 1 \in 0 .. MaxLate
  BY FbFacts, HookAssumption DEF IInv, Expire
<1>2. fb[f].pc # "idle" /\ ~Owning(fb[f])
  BY <1>1, IdleIs, IdleType DEF IInv, Places, Idle
<1>. DEFINE r == [fb[f] EXCEPT !.armed = FALSE, !.late = @ + 1]
<1>3. /\ r \in FbRec /\ r.pc = fb[f].pc /\ r.op = fb[f].op /\ r.ctx = fb[f].ctx /\ r.fd = fb[f].fd
      /\ r.timed = fb[f].timed /\ r.cancelled = fb[f].cancelled /\ r.gap = fb[f].gap
      /\ r.early = fb[f].early /\ r.late > 0
  <2>1. r.late = fb[f].late + 1 /\ r.late > 0
    BY <1>1 DEF FbRec
  <2>2. r \in FbRec
    BY <1>1 DEF FbRec
  <2>. QED BY <1>1, <2>1, <2>2 DEF FbRec
<1>4. fb' = [fb EXCEPT ![f] = r]
  BY <1>1 DEF Types, Expire
<1>. HIDE DEF r
<1>5. Fits(f, r)
  <2>1. /\ InIo(r) \/ (r.pc \in {"wait", "queued"} /\ r.op # "sleep") => r.op \in Calls
        /\ r.op = "sleep" => r.pc \in {"wait", "queued"} /\ ~r.timed
    BY <1>3 DEF IInv, Places, InIo, Waits
  <2>2. r.pc = "blocked" /\ r.ctx # 0 =>
          \/ r.ctx # open[r.fd] \/ datas[r.fd] # open[r.fd]
          \/ open[r.fd] \in ioctled \/ r.fd \in bypassed
    BY <1>3 DEF IInv, BlocksOnlyWhenStale
  <2>3. /\ r.pc \in {"try", "arm", "lock", "add"} /\ r.cancelled => r.early
        /\ Waits(f) /\ r.cancelled => r.early \/ r.gap \/ r.fd \in bypassed \/ spinning'
    BY <1>3 DEF IInv, TimeoutKnown, Expire, mtx
  <2>4. (r.pc = "wait" /\ r.op # "sleep") <=> Waits(f)
    BY <1>3 DEF Waits
  <2>5. ~Owning(r) /\ r.pc \notin {"idle", "create", "del", "close"}
    BY <1>2, <1>3 DEF Owning
  <2>. QED BY <1>3, <2>1, <2>2, <2>3, <2>4, <2>5 DEF Fits
<1>. QED BY <1>4, <1>5, StayLocal DEF Expire

\* An fd that the application knows is in nobody's socket().
LEMMA NextClose ==
    ASSUME IInv, NEW f \in Fibers, NEW d \in Fds, Close(f, d)
    PROVE  IInv'
<1>1. Types /\ fb[f] = Idle /\ ~Waits(f)
  BY IdleIs DEF IInv, Places, Close, Waits
<1>2. open[d] # 0 /\ \A g \in Fibers : Owning(fb[g]) => fb[g].fd # d
  BY DEF Close, Known, Owning
<1>. DEFINE pc == IF f \in Unhooked \/ datas[d] = 0 THEN "raw" ELSE "cancelAll"
            r == [Idle EXCEPT !.pc = pc, !.fd = d]
<1>3. /\ r \in FbRec /\ r.pc = pc /\ r.op = "none" /\ r.ctx = 0 /\ r.fd = d
      /\ r.cancelled = FALSE /\ r = [Idle EXCEPT !.pc = r.pc, !.fd = r.fd]
  BY IdleType DEF FbRec, Idle
<1>4. fb' = [fb EXCEPT ![f] = r]
  BY <1>1 DEF Types, Close
<1>. HIDE DEF r
<1>5. Fits(f, r)
  BY <1>1, <1>2, <1>3 DEF Fits, Owning, InIo
<1>. QED BY <1>4, <1>5, StayLocal DEF Close

-----------------------------------------------------------------------------
(* Steps that take back registrations and schedule who waited for them       *)

\* g is among those scheduled (W), or in a close() that has just called cancelAll (C),
\* or stays where it is; a time-out may have come for it.
Moves(g, W, C) ==
    /\ fb'[g].pc = IF g \in W THEN "queued" ELSE IF g \in C THEN "del" ELSE fb[g].pc
    /\ fb'[g].op = fb[g].op /\ fb'[g].fd = fb[g].fd /\ fb'[g].ctx = fb[g].ctx
    /\ fb'[g].timed = fb[g].timed /\ fb'[g].gap = fb[g].gap
    /\ fb[g].pc = "idle" => fb'[g] = fb[g]
    /\ Owning(fb[g]) => fb'[g] = [fb[g] EXCEPT !.pc = fb'[g].pc]
    /\ fb'[g].pc \in {"lock", "add", "wait"} /\ fb'[g].timed =>
          fb'[g].armed \/ fb'[g].late > 0 \/ fb'[g].cancelled
    /\ fb'[g].pc \in {"try", "arm", "lock", "add"} /\ fb'[g].cancelled => fb'[g].early
    /\ Waits(g) /\ g \notin W /\ fb'[g].cancelled =>
          fb'[g].early \/ fb'[g].gap \/ fb'[g].fd \in bypassed \/ spinning'

\* Just the registrations of W are gone.
Withdrawn(W) ==
    \A d \in Fds, e \in Events :
        \/ waiter'[d][e] = waiter[d][e] /\ waiter[d][e].who \cap W = {}
        \/ waiter'[d][e] = Nobody /\ waiter[d][e].who \subseteq W

LEMMA Wake ==
    ASSUME IInv, Types', NEW W \in SUBSET Fibers, NEW C \in SUBSET Fibers,
           \A g \in W : Waits(g),
           \A g \in C : fb[g].pc = "cancelAll",
           \A g \in C, h \in Fibers \ W : Waits(h) /\ fb[h].fd = fb[g].fd =>
               fb[h].gap \/ fb[h].fd \in bypassed,
           \A g \in Fibers : Moves(g, W, C),
           Withdrawn(W),
           UNCHANGED <<open, file, made, datas, bypassed, ioctled>>, spinning => spinning'
    PROVE  IInv'
<1>1. \A g \in Fibers :
        /\ Waits(g)' <=> Waits(g) /\ g \notin W
        /\ Owning(fb'[g]) <=> Owning(fb[g])
        /\ fb'[g].pc \in {"create", "close"} => fb'[g].pc = fb[g].pc
        /\ fb'[g].fd = fb[g].fd /\ fb'[g].ctx = fb[g].ctx /\ fb'[g].op = fb[g].op
        /\ fb'[g].gap = fb[g].gap
  BY DEF Moves, Waits, Owning
<1>2. Places'
  <2>1. ASSUME NEW g \in Fibers
        PROVE  /\ fb'[g].pc = "idle" => fb'[g] = Idle
               /\ Owning(fb'[g]) => fb'[g] = [Idle EXCEPT !.pc = fb'[g].pc, !.fd = fb'[g].fd]
               /\ InIo(fb'[g]) \/ Waits(g)' \/ (fb'[g].pc = "queued" /\ fb'[g].op # "sleep") => fb'[g].op \in Calls
               /\ fb'[g].op = "sleep" => fb'[g].pc \in {"wait", "queued"} /\ ~fb'[g].timed
    <3>1. fb'[g].pc = "idle" => fb'[g] = Idle
      BY DEF Moves, IInv, Places
    <3>2. ASSUME Owning(fb'[g]) PROVE fb'[g] = [Idle EXCEPT !.pc = fb'[g].pc, !.fd = fb'[g].fd]
      <4>1. Owning(fb[g]) /\ fb'[g] = [fb[g] EXCEPT !.pc = fb'[g].pc] /\ fb'[g].fd = fb[g].fd
        BY <1>1, <3>2 DEF Moves
      <4>2. fb[g] = [Idle EXCEPT !.pc = fb[g].pc, !.fd = fb[g].fd]
        BY <4>1 DEF IInv, Places
      <4>3. [fb[g] EXCEPT !.pc = fb'[g].pc] = [Idle EXCEPT !.pc = fb'[g].pc, !.fd = fb[g].fd]
        BY <4>2 DEF Idle
      <4>. QED BY <4>1, <4>3
    <3>3. InIo(fb'[g]) \/ Waits(g)' \/ (fb'[g].pc = "queued" /\ fb'[g].op # "sleep") => fb'[g].op \in Calls
      BY DEF Moves, IInv, Places, InIo, Waits
    <3>4. fb'[g].op = "sleep" => fb'[g].pc \in {"wait", "queued"} /\ ~fb'[g].timed
      BY DEF Moves, IInv, Places, Waits
    <3>. QED BY <3>1, <3>2, <3>3, <3>4
  <2>. QED BY <2>1 DEF Places
<1>3. Numbers'
  BY <1>1 DEF IInv, Numbers
<1>4. Owners'
  BY <1>1 DEF IInv, Owners
<1>5. CtxMatchesFile' /\ NonBlocking'
  BY DEF IInv, CtxMatchesFile, NonBlocking
<1>6. BlocksOnlyWhenStale'
  <2>1. \A g \in Fibers : fb'[g].pc = "blocked" => fb[g].pc = "blocked"
    BY DEF Moves
  <2>. QED BY <1>1, <2>1 DEF IInv, BlocksOnlyWhenStale
<1>7. Registered'
  <2>1. ASSUME NEW d \in Fds, NEW e \in Events, waiter'[d][e] # Nobody
        PROVE  /\ waiter'[d][e].file # 0
               /\ \E f \in Fibers : /\ waiter'[d][e].who = {f}
                                    /\ Waits(f)' /\ fb'[f].fd = d /\ EventOf(fb'[f].op) = e
    <3>1. waiter'[d][e] = waiter[d][e] /\ waiter[d][e].who \cap W = {}
      BY <2>1 DEF Withdrawn
    <3>2. PICK f \in Fibers : /\ waiter[d][e].who = {f}
                              /\ Waits(f) /\ fb[f].fd = d /\ EventOf(fb[f].op) = e
      BY <2>1, <3>1 DEF IInv, Registered
    <3>3. f \notin W
      BY <3>1, <3>2
    <3>4. waiter[d][e].file # 0
      BY <2>1, <3>1 DEF IInv, Registered
    <3>. QED BY <1>1, <3>1, <3>2, <3>3, <3>4
  <2>. QED BY <2>1 DEF Registered
<1>8. OrphanNeedsGap'
  <2>1. ASSUME NEW g \in Fibers, Waits(g)'
        PROVE  LET w == waiter'[fb'[g].fd][EventOf(fb'[g].op)] IN
               w.who = {g} /\ (w.file = open'[fb'[g].fd] \/ fb'[g].gap \/ fb'[g].fd \in bypassed')
    <3>1. Waits(g) /\ g \notin W /\ fb'[g].fd = fb[g].fd /\ fb'[g].op = fb[g].op /\ fb'[g].gap = fb[g].gap
      BY <1>1, <2>1
    <3>2. fb[g].fd \in Fds /\ EventOf(fb[g].op) \in Events
      BY <3>1, FbFacts, CallEvents DEF IInv, Places
    <3>3. LET w == waiter[fb[g].fd][EventOf(fb[g].op)] IN
          w.who = {g} /\ (w.file = open[fb[g].fd] \/ fb[g].gap \/ fb[g].fd \in bypassed)
      BY <3>1 DEF IInv, OrphanNeedsGap, Waits
    <3>4. waiter'[fb[g].fd][EventOf(fb[g].op)] = waiter[fb[g].fd][EventOf(fb[g].op)]
      BY <3>1, <3>2, <3>3 DEF Withdrawn
    <3>. QED BY <3>1, <3>3, <3>4
  <2>. QED BY <2>1 DEF OrphanNeedsGap, Waits
<1>9. Cancelled'
  <2>1. \A g \in Fibers : fb'[g].pc \in {"del", "close"} => g \in C \/ fb[g].pc \in {"del", "close"}
    BY DEF Moves
  <2>. QED BY <1>1, <2>1 DEF IInv, Cancelled
<1>10. TimeoutKnown'
  <2>1. \A g \in Fibers : Waits(g)' => Waits(g) /\ g \notin W
    BY <1>1
  <2>. QED BY <2>1 DEF Moves, TimeoutKnown
<1>. QED BY <1>2, <1>3, <1>4, <1>5, <1>6, <1>7, <1>8, <1>9, <1>10 DEF IInv

\* Who a registration of an open file schedules.
LEMMA LiveWaiter ==
    ASSUME IInv, NEW d \in Fds, NEW e \in Events, Live(d, e)
    PROVE  \E f \in Fibers : /\ waiter[d][e].who = {f}
                             /\ Waits(f) /\ fb[f].fd = d /\ EventOf(fb[f].op) = e
  BY DEF IInv, Registered, Live

\* The registrations of one fiber are those of its event.
LEMMA OneRegistration ==
    ASSUME IInv, NEW d \in Fds, NEW e \in Events, NEW h \in Fibers, waiter[d][e].who = {h},
           NEW c \in Fds, NEW k \in Events, h \in waiter[c][k].who
    PROVE  c = d /\ k = e
<1>1. waiter[d][e] # Nobody /\ waiter[c][k] # Nobody
  BY DEF Nobody
<1>. QED BY <1>1 DEF IInv, Registered

LEMMA WithdrawnOne ==
    ASSUME IInv, NEW d \in Fds, NEW e \in Events, NEW h \in Fibers, waiter[d][e].who = {h},
           waiter' = [waiter EXCEPT ![d][e] = Nobody]
    PROVE  /\ Withdrawn({h})
           /\ waiter' \in [Fds -> [Events -> [who : SUBSET Fibers, file : 0 .. MaxFiles]]]
<1>1. waiter \in [Fds -> [Events -> [who : SUBSET Fibers, file : 0 .. MaxFiles]]]
  BY DEF IInv, Types, TypeOK
<1>2. Nobody \in [who : SUBSET Fibers, file : 0 .. MaxFiles]
  BY HookAssumption DEF Nobody
<1>3. waiter' \in [Fds -> [Events -> [who : SUBSET Fibers, file : 0 .. MaxFiles]]]
  BY <1>1, <1>2
<1>4. ASSUME NEW c \in Fds, NEW k \in Events
      PROVE  \/ waiter'[c][k] = waiter[c][k] /\ waiter[c][k].who \cap {h} = {}
             \/ waiter'[c][k] = Nobody /\ waiter[c][k].who \subseteq {h}
  <2>1. CASE c = d /\ k = e
    BY <1>1, <2>1
  <2>2. CASE ~(c = d /\ k = e)
    <3>1. h \notin waiter[c][k].who
      BY <2>2, OneRegistration
    <3>2. waiter'[c][k] = waiter[c][k]
      BY <1>1, <2>2
    <3>. QED BY <3>1, <3>2
  <2>. QED BY <2>1, <2>2
<1>. QED BY <1>3, <1>4 DEF Withdrawn

LEMMA NextTrigger ==
    ASSUME IInv, NEW d \in Fds, NEW e \in Events, Trigger(d, e)
    PROVE  IInv'
<1>1. Types /\ fb \in [Fibers -> FbRec]
  BY DEF IInv, Types
<1>2. PICK h \in Fibers : /\ waiter[d][e].who = {h}
                          /\ Waits(h) /\ fb[h].fd = d /\ EventOf(fb[h].op) = e
  BY LiveWaiter DEF Trigger
<1>3. /\ Withdrawn({h})
      /\ waiter' \in [Fds -> [Events -> [who : SUBSET Fibers, file : 0 .. MaxFiles]]]
  BY <1>2, WithdrawnOne DEF Trigger
<1>4. fb' = [g \in Fibers |-> IF g = h THEN [fb[g] EXCEPT !.pc = "queued"] ELSE fb[g]]
  BY <1>2 DEF Trigger, Scheduled
<1>5. fb' \in [Fibers -> FbRec]
  BY <1>1, <1>4 DEF FbRec
<1>6. Types'
  <2>1. SharedTypes'
    BY <1>1, <1>3, TypesAre DEF Trigger, SharedTypes, kernel, mtx, ghosts
  <2>. QED BY <1>5, <2>1, TypesArePrime
<1>8. UNCHANGED <<open, file, made, datas, bypassed, ioctled, spinning>>
  BY DEF Trigger, kernel, mtx, ghosts
<1>7. ASSUME NEW g \in Fibers PROVE Moves(g, {h}, {})
  <2>1. CASE g # h
    <3>1. fb'[g] = fb[g]
      BY <1>4, <2>1
    <3>2. /\ fb[g].pc \in {"lock", "add", "wait"} /\ fb[g].timed => fb[g].armed \/ fb[g].late > 0 \/ fb[g].cancelled
          /\ fb[g].pc \in {"try", "arm", "lock", "add"} /\ fb[g].cancelled => fb[g].early
          /\ Waits(g) /\ fb[g].cancelled => fb[g].early \/ fb[g].gap \/ fb[g].fd \in bypassed \/ spinning
      BY DEF IInv, TimeoutKnown
    <3>3. fb[g] = [fb[g] EXCEPT !.pc = fb[g].pc]
      BY <1>1 DEF FbRec
    <3>. QED BY <1>8, <2>1, <3>1, <3>2, <3>3 DEF Moves
  <2>2. CASE g = h
    <3>1. /\ fb'[g].pc = "queued" /\ fb'[g].op = fb[g].op /\ fb'[g].fd = fb[g].fd
          /\ fb'[g].ctx = fb[g].ctx /\ fb'[g].timed = fb[g].timed /\ fb'[g].gap = fb[g].gap
      BY <1>1, <1>4, <2>2 DEF FbRec
    <3>. QED BY <1>2, <2>2, <3>1 DEF Moves, Owning, Waits
  <2>. QED BY <2>1, <2>2
<1>. QED BY <1>2, <1>3, <1>6, <1>7, <1>8, Wake

\* A callback that has not run belongs to a call with a timer.
LEMMA LateCall ==
    ASSUME IInv, NEW f \in Fibers, fb[f].late > 0
    PROVE  /\ fb[f].pc # "idle" /\ ~Owning(fb[f])
           /\ fb[f].op # "sleep" => fb[f].op \in Calls
           /\ fb[f].op = "sleep" => fb[f].pc \in {"wait", "queued"} /\ ~fb[f].timed
<1>1. fb[f] \in FbRec
  BY FbFacts DEF IInv
<1>2. fb[f].pc # "idle" /\ ~Owning(fb[f])
  <2>1. fb[f].pc = "idle" => fb[f].late = 0
    BY IdleIs DEF IInv, Places
  <2>2. Owning(fb[f]) => fb[f].late = 0
    <3>1. Owning(fb[f]) => fb[f] = [Idle EXCEPT !.pc = fb[f].pc, !.fd = fb[f].fd]
      BY DEF IInv, Places
    <3>2. [Idle EXCEPT !.pc = fb[f].pc, !.fd = fb[f].fd].late = 0
      BY DEF Idle
    <3>. QED BY <3>1, <3>2
  <2>3. fb[f].late # 0
    OBVIOUS
  <2>. QED BY <2>1, <2>2, <2>3
<1>3. InIo(fb[f]) \/ fb[f].pc \in {"wait", "queued"}
  BY <1>1, <1>2 DEF FbRec, Owning, InIo
<1>. QED BY <1>2, <1>3 DEF IInv, Places, Waits

\* A time-out that schedules nobody: the call has been told before, or nobody waits.
LEMMA TimeoutLocal ==
    ASSUME IInv, NEW f \in Fibers, fb[f].late > 0, NEW r \in FbRec,
           r.pc = fb[f].pc, r.op = fb[f].op, r.fd = fb[f].fd, r.ctx = fb[f].ctx,
           r.timed = fb[f].timed, r.armed = fb[f].armed, r.gap = fb[f].gap, r.cancelled,
           fb[f].pc \in {"try", "arm", "lock", "add"} => r.early,
           Waits(f) => r.early \/ r.gap \/ r.fd \in bypassed \/ spinning'
    PROVE  Fits(f, r)
<1>1. /\ fb[f].pc # "idle" /\ ~Owning(fb[f])
      /\ fb[f].op # "sleep" => fb[f].op \in Calls
      /\ fb[f].op = "sleep" => fb[f].pc \in {"wait", "queued"} /\ ~fb[f].timed
  BY LateCall
<1>2. ~Owning(r) /\ r.pc \notin {"idle", "create", "del", "close"}
  BY <1>1 DEF Owning
<1>3. r.pc = "blocked" /\ r.ctx # 0 =>
          \/ r.ctx # open[r.fd] \/ datas[r.fd] # open[r.fd]
          \/ open[r.fd] \in ioctled \/ r.fd \in bypassed
  BY DEF IInv, BlocksOnlyWhenStale
<1>4. (r.pc = "wait" /\ r.op # "sleep") <=> Waits(f)
  BY DEF Waits
<1>5. InIo(r) => r.op # "sleep"
  BY <1>1 DEF InIo
<1>. QED BY <1>1, <1>2, <1>3, <1>4, <1>5 DEF Fits

\* The timer may cancel another fiber's wait.
LEMMA TimeoutWakes ==
    ASSUME IInv, NEW f \in Fibers, fb[f].late > 0, NEW d \in Fds, NEW e \in Events, Live(d, e),
           NEW r \in FbRec, r.pc = fb[f].pc, r.op = fb[f].op, r.fd = fb[f].fd, r.ctx = fb[f].ctx,
           r.timed = fb[f].timed, r.gap = fb[f].gap, r.cancelled,
           fb[f].pc \in {"try", "arm", "lock", "add"} => r.early,
           Waits(f) => fb[f].fd = d /\ EventOf(fb[f].op) = e,
           fb[f].op # "sleep", ~Jammed,
           CancelEvent(d, e, [fb EXCEPT ![f] = r]),
           UNCHANGED <<kernel, datas, ctx, ghosts>>
    PROVE  IInv'
<1>1. Types /\ fb \in [Fibers -> FbRec]
  BY DEF IInv, Types
<1>2. PICK h \in Fibers : /\ waiter[d][e].who = {h}
                          /\ Waits(h) /\ fb[h].fd = d /\ EventOf(fb[h].op) = e
  BY LiveWaiter
<1>3. /\ Withdrawn({h})
      /\ waiter' \in [Fds -> [Events -> [who : SUBSET Fibers, file : 0 .. MaxFiles]]]
  BY <1>2, WithdrawnOne DEF CancelEvent
<1>. DEFINE now == [fb EXCEPT ![f] = r]
<1>4. fb' = [g \in Fibers |-> IF g = h THEN [now[g] EXCEPT !.pc = "queued"] ELSE now[g]]
  BY <1>2 DEF CancelEvent
<1>5. now \in [Fibers -> FbRec] /\ now[f] = r /\ \A g \in Fibers \ {f} : now[g] = fb[g]
  BY <1>1
<1>. HIDE DEF now
<1>6. fb' \in [Fibers -> FbRec]
  BY <1>4, <1>5 DEF FbRec
<1>0. readers' \in -2 .. 0 /\ UNCHANGED spinning
  BY <1>1 DEF CancelEvent, LockAndUnlockTwice, Jammed, Types, TypeOK
<1>7. Types'
  <2>1. SharedTypes'
    BY <1>0, <1>1, <1>3, TypesAre DEF SharedTypes, kernel, ghosts
  <2>. QED BY <1>6, <2>1, TypesArePrime
<1>8. \A g \in Fibers : now[g].op = fb[g].op /\ now[g].fd = fb[g].fd /\ now[g].ctx = fb[g].ctx
                       /\ now[g].timed = fb[g].timed /\ now[g].gap = fb[g].gap /\ now[g].pc = fb[g].pc
  BY <1>5
<1>9. Waits(f) => f = h
  <2>1. ASSUME Waits(f) PROVE waiter[d][e].who = {f}
    BY <2>1 DEF IInv, OrphanNeedsGap, Waits
  <2>. QED BY <1>2, <2>1
<1>10. fb[f].pc = "wait" => f = h
  BY <1>9 DEF Waits
<1>11. ASSUME NEW g \in Fibers PROVE Moves(g, {h}, {})
  <2>1. CASE g # h /\ g # f
    <3>1. fb'[g] = fb[g]
      BY <1>4, <1>5, <2>1
    <3>2. /\ fb[g].pc \in {"lock", "add", "wait"} /\ fb[g].timed => fb[g].armed \/ fb[g].late > 0 \/ fb[g].cancelled
          /\ fb[g].pc \in {"try", "arm", "lock", "add"} /\ fb[g].cancelled => fb[g].early
          /\ Waits(g) /\ fb[g].cancelled => fb[g].early \/ fb[g].gap \/ fb[g].fd \in bypassed \/ spinning
      BY DEF IInv, TimeoutKnown
    <3>3. fb[g] = [fb[g] EXCEPT !.pc = fb[g].pc]
      BY <1>1 DEF FbRec
    <3>. QED BY <1>0, <2>1, <3>1, <3>2, <3>3 DEF Moves
  <2>2. CASE g = h
    <3>1. /\ fb'[g].pc = "queued" /\ fb'[g].op = now[g].op /\ fb'[g].fd = now[g].fd
          /\ fb'[g].ctx = now[g].ctx /\ fb'[g].timed = now[g].timed /\ fb'[g].gap = now[g].gap
      BY <1>5, <1>4, <2>2 DEF FbRec
    <3>. QED BY <1>2, <1>8, <2>2, <3>1 DEF Moves, Owning, Waits
  <2>3. CASE g = f /\ g # h
    <3>1. fb'[g] = r
      BY <1>4, <1>5, <2>3
    <3>2. fb[f].pc # "idle" /\ ~Owning(fb[f])
      BY LateCall
    <3>3. fb[f].pc # "wait" /\ ~Waits(f)
      BY <1>9, <1>10, <2>3
    <3>. QED BY <2>3, <3>1, <3>2, <3>3 DEF Moves
  <2>. QED BY <2>1, <2>2, <2>3
<1>12. UNCHANGED <<open, file, made, datas, bypassed, ioctled>>
  BY DEF kernel, ghosts
<1>. QED BY <1>0, <1>2, <1>3, <1>7, <1>11, <1>12, Wake

LEMMA NextTimeout ==
    ASSUME IInv, NEW f \in Fibers, Timeout(f)
    PROVE  IInv'
<1>1. Types /\ fb[f] \in FbRec /\ fb[f].late > 0 /\ fb[f].late \in 1 .. MaxLate
      /\ fb \in [Fibers -> FbRec] /\ fb[f].fd \in Fds
  BY FbFacts, HookAssumption DEF IInv, Timeout, Types
<1>2. /\ fb[f].pc # "idle" /\ ~Owning(fb[f])
      /\ fb[f].op # "sleep" => fb[f].op \in Calls
      /\ fb[f].op = "sleep" => fb[f].pc \in {"wait", "queued"} /\ ~fb[f].timed
  BY <1>1, LateCall
<1>3. fb[f].late - 1 \in 0 .. MaxLate
  BY <1>1, HookAssumption
<1>. DEFINE r == [fb[f] EXCEPT !.late = @ - 1]
<1>4. r \in FbRec
  BY <1>1, <1>3 DEF FbRec
<1>5. /\ r.pc = fb[f].pc /\ r.op = fb[f].op /\ r.fd = fb[f].fd
      /\ r.ctx = fb[f].ctx /\ r.timed = fb[f].timed /\ r.armed = fb[f].armed /\ r.gap = fb[f].gap
      /\ r.cancelled = fb[f].cancelled /\ r.early = fb[f].early
  BY <1>1 DEF FbRec
<1>6. /\ UNCHANGED <<kernel, datas, ctx, ghosts>>
      /\ IF fb[f].op = "sleep"
         THEN fb' = [fb EXCEPT ![f] = [r EXCEPT !.pc = "queued"]] /\ UNCHANGED <<waiter, mtx>>
         ELSE IF fb[f].cancelled THEN fb' = [fb EXCEPT ![f] = r] /\ UNCHANGED <<waiter, mtx>>
         ELSE CancelEvent(fb[f].fd, EventOf(fb[f].op),
                          [fb EXCEPT ![f] = [r EXCEPT !.cancelled = TRUE,
                                                      !.early = r.pc \in {"try", "arm", "lock", "add"}]])
  BY DEF Timeout
<1>. HIDE DEF r
<1>7. CASE fb[f].op = "sleep"
  <2>. DEFINE q == [r EXCEPT !.pc = "queued"]
  <2>1. q \in FbRec /\ q.pc = "queued" /\ q.op = "sleep" /\ q.ctx = fb[f].ctx /\ q.timed = fb[f].timed
    BY <1>4, <1>5, <1>7 DEF FbRec
  <2>2. fb' = [fb EXCEPT ![f] = q] /\ UNCHANGED <<waiter, mtx>>
    BY <1>6, <1>7
  <2>. HIDE DEF q
  <2>3. Fits(f, q)
    BY <1>2, <1>7, <2>1 DEF Fits, Owning, InIo, Waits
  <2>. QED BY <1>6, <2>2, <2>3, StayLocal
<1>8. CASE fb[f].op # "sleep" /\ fb[f].cancelled
  <2>1. /\ fb[f].pc \in {"try", "arm", "lock", "add"} => r.early
        /\ Waits(f) => r.early \/ r.gap \/ r.fd \in bypassed \/ spinning'
    BY <1>5, <1>6, <1>8 DEF IInv, TimeoutKnown, mtx
  <2>2. Fits(f, r)
    BY <1>1, <1>4, <1>5, <1>8, <2>1, TimeoutLocal
  <2>. QED BY <1>6, <1>8, <2>2, StayLocal
<1>9. CASE fb[f].op # "sleep" /\ ~fb[f].cancelled
  <2>. DEFINE q == [r EXCEPT !.cancelled = TRUE, !.early = r.pc \in {"try", "arm", "lock", "add"}]
              d == fb[f].fd
              e == EventOf(fb[f].op)
  <2>1. q \in FbRec
    <3>1. ASSUME NEW b \in BOOLEAN PROVE [r EXCEPT !.cancelled = TRUE, !.early = b] \in FbRec
      BY <1>4 DEF FbRec
    <3>2. (r.pc \in {"try", "arm", "lock", "add"}) \in BOOLEAN
      OBVIOUS
    <3>. QED BY <3>1, <3>2
  <2>2. /\ q.pc = fb[f].pc /\ q.op = fb[f].op /\ q.fd = fb[f].fd
        /\ q.ctx = fb[f].ctx /\ q.timed = fb[f].timed /\ q.armed = fb[f].armed /\ q.gap = fb[f].gap
        /\ q.cancelled /\ (fb[f].pc \in {"try", "arm", "lock", "add"} => q.early)
    BY <1>4, <1>5 DEF FbRec
  <2>3. CancelEvent(d, e, [fb EXCEPT ![f] = q])
    BY <1>6, <1>9
  <2>. HIDE DEF q
  <2>4. d \in Fds /\ e \in Events
    BY <1>1, <1>2, <1>9, CallEvents
  <2>5. CASE Live(d, e) /\ ~Jammed
    BY <1>1, <1>6, <1>9, <2>1, <2>2, <2>3, <2>4, <2>5, TimeoutWakes
  <2>6. CASE ~(Live(d, e) /\ ~Jammed)
    <3>1. /\ fb' = [fb EXCEPT ![f] = q] /\ UNCHANGED waiter
          /\ readers' \in -2 .. 0 /\ spinning' \in BOOLEAN
          /\ spinning => spinning'
          /\ Jammed => spinning'
      <4>1. fb' = [fb EXCEPT ![f] = q] /\ UNCHANGED waiter
        BY <2>3, <2>6 DEF CancelEvent
      <4>2. readers' = (IF Jammed THEN readers ELSE readers - 1) /\ spinning' = (spinning \/ Jammed)
        BY <2>3 DEF CancelEvent, LockAndUnlockTwice
      <4>3. readers' \in -2 .. 0
        BY <1>1, <4>2 DEF Jammed, Types, TypeOK
      <4>4. spinning' \in BOOLEAN /\ (spinning => spinning') /\ (Jammed => spinning')
        BY <4>2, Zenon
      <4>. QED BY <4>1, <4>3, <4>4
    <3>2. Waits(f) => q.gap \/ q.fd \in bypassed \/ spinning'
      <4>1. ASSUME Waits(f), ~Jammed PROVE q.gap \/ q.fd \in bypassed
        <5>1. waiter[d][e].who = {f} /\ (waiter[d][e].file = open[d] \/ fb[f].gap \/ d \in bypassed)
          BY <4>1 DEF IInv, OrphanNeedsGap, Waits
        <5>2. waiter[d][e] # Nobody
          BY <5>1 DEF Nobody
        <5>. QED BY <2>2, <2>6, <4>1, <5>1, <5>2 DEF Live
      <4>. QED BY <3>1, <4>1
    <3>3. Fits(f, q)
      BY <1>1, <2>1, <2>2, <3>2, TimeoutLocal
    <3>. QED BY <1>6, <3>1, <3>3, MoveLocal
  <2>. QED BY <2>5, <2>6
<1>. QED BY <1>7, <1>8, <1>9

LEMMA NextCancelAll ==
    ASSUME IInv, NEW f \in Fibers, CancelAll(f)
    PROVE  IInv'
<1>. DEFINE d == fb[f].fd
            live == {e \in Events : Live(d, e)}
            W == UNION {waiter[d][e].who : e \in live}
<1>1. Types /\ fb \in [Fibers -> FbRec] /\ d \in Fds /\ fb[f].pc = "cancelAll"
      /\ waiter \in [Fds -> [Events -> [who : SUBSET Fibers, file : 0 .. MaxFiles]]]
  BY FbFacts DEF IInv, Types, TypeOK, CancelAll
<1>2. ASSUME NEW h \in W PROVE h \in Fibers /\ Waits(h) /\ fb[h].fd = d /\ EventOf(fb[h].op) \in live
  <2>1. PICK e \in live : h \in waiter[d][e].who
    OBVIOUS
  <2>. QED BY <1>1, <2>1, LiveWaiter
<1>3. waiter' = [waiter EXCEPT ![d] = [e \in Events |-> IF e \in live THEN Nobody ELSE waiter[d][e]]]
  BY DEF CancelAll
<1>4. fb' = [Scheduled(W) EXCEPT ![f] = [fb[f] EXCEPT !.pc = "del"]]
  BY DEF CancelAll
<1>5. UNCHANGED <<kernel, datas, ctx, spinning, ghosts>> /\ readers' \in -2 .. 0
  <2>1. readers' = readers - 1 /\ readers \in -2 .. 0 /\ ~(readers < -1)
    BY <1>1 DEF CancelAll, Jammed, Types, TypeOK
  <2>2. readers' \in -2 .. 0
    BY <2>1
  <2>. QED BY <2>2 DEF CancelAll
<1>6. \A e \in live : waiter[d][e].who \subseteq W
  OBVIOUS
<1>7. \A e \in Events : e \in live <=> Live(d, e)
  OBVIOUS
<1>8. f \notin W
  BY <1>1, <1>2 DEF Waits
<1>9. W \in SUBSET Fibers /\ live \in SUBSET Events
  BY <1>2
<1>. HIDE DEF W, live
<1>10. waiter' \in [Fds -> [Events -> [who : SUBSET Fibers, file : 0 .. MaxFiles]]]
  <2>1. Nobody \in [who : SUBSET Fibers, file : 0 .. MaxFiles]
    BY HookAssumption DEF Nobody
  <2>2. [e \in Events |-> IF e \in live THEN Nobody ELSE waiter[d][e]]
          \in [Events -> [who : SUBSET Fibers, file : 0 .. MaxFiles]]
    BY <1>1, <2>1
  <2>. QED BY <1>1, <1>3, <2>2
<1>11. Withdrawn(W)
  <2>1. ASSUME NEW c \in Fds, NEW k \in Events
        PROVE  \/ waiter'[c][k] = waiter[c][k] /\ waiter[c][k].who \cap W = {}
               \/ waiter'[c][k] = Nobody /\ waiter[c][k].who \subseteq W
    <3>1. CASE c = d /\ k \in live
      BY <1>1, <1>3, <1>6, <3>1
    <3>2. CASE ~(c = d /\ k \in live)
      <4>1. waiter'[c][k] = waiter[c][k]
        BY <1>1, <1>3, <3>2
      <4>2. ASSUME NEW h \in waiter[c][k].who, h \in W PROVE FALSE
        <5>1. waiter[c][k] # Nobody
          BY DEF Nobody
        <5>2. h \in Fibers /\ fb[h].fd = c /\ EventOf(fb[h].op) = k
          BY <5>1 DEF IInv, Registered
        <5>. QED BY <1>2, <3>2, <4>2, <5>2
      <4>. QED BY <4>1, <4>2
    <3>. QED BY <3>1, <3>2
  <2>. QED BY <2>1 DEF Withdrawn
<1>12. /\ \A g \in Fibers \ {f} : fb'[g] = IF g \in W THEN [fb[g] EXCEPT !.pc = "queued"] ELSE fb[g]
       /\ fb'[f] = [fb[f] EXCEPT !.pc = "del"]
  BY <1>1, <1>4 DEF Scheduled
<1>13. fb' \in [Fibers -> FbRec]
  <2>0. ASSUME NEW g \in Fibers PROVE [fb[g] EXCEPT !.pc = "queued"] \in FbRec
    <3>1. fb[g] \in FbRec
      BY <1>1
    <3>. QED BY <3>1 DEF FbRec
  <2>1. Scheduled(W) \in [Fibers -> FbRec]
    BY <1>1, <2>0 DEF Scheduled
  <2>2. [fb[f] EXCEPT !.pc = "del"] \in FbRec
    BY <1>1 DEF FbRec
  <2>. QED BY <1>4, <2>1, <2>2
<1>14. Types'
  <2>1. SharedTypes'
    BY <1>1, <1>5, <1>10, TypesAre DEF SharedTypes, kernel, ghosts
  <2>. QED BY <1>13, <2>1, TypesArePrime
<1>15. ASSUME NEW h \in Fibers \ W, Waits(h), fb[h].fd = d
       PROVE  fb[h].gap \/ fb[h].fd \in bypassed
  <2>. DEFINE e == EventOf(fb[h].op)
  <2>1. waiter[d][e].who = {h} /\ (waiter[d][e].file = open[d] \/ fb[h].gap \/ d \in bypassed)
    BY <1>15 DEF IInv, OrphanNeedsGap, Waits
  <2>2. e \in Events
    BY <1>15, CallEvents DEF IInv, Places
  <2>3. waiter[d][e] # Nobody
    BY <2>1 DEF Nobody
  <2>4. ~Live(d, e)
    BY <1>6, <1>7, <2>1, <2>2
  <2>. QED BY <1>15, <2>1, <2>3, <2>4 DEF Live
<1>16. ASSUME NEW g \in Fibers PROVE Moves(g, W, {f})
  <2>1. CASE g \notin W /\ g # f
    <3>1. fb'[g] = fb[g]
      BY <1>12, <2>1
    <3>2. /\ fb[g].pc \in {"lock", "add", "wait"} /\ fb[g].timed => fb[g].armed \/ fb[g].late > 0 \/ fb[g].cancelled
          /\ fb[g].pc \in {"try", "arm", "lock", "add"} /\ fb[g].cancelled => fb[g].early
          /\ Waits(g) /\ fb[g].cancelled => fb[g].early \/ fb[g].gap \/ fb[g].fd \in bypassed \/ spinning
      BY DEF IInv, TimeoutKnown
    <3>3. fb[g] = [fb[g] EXCEPT !.pc = fb[g].pc]
      BY <1>1 DEF FbRec
    <3>. QED BY <1>5, <2>1, <3>1, <3>2, <3>3 DEF Moves
  <2>2. CASE g \in W
    <3>1. /\ fb'[g].pc = "queued" /\ fb'[g].op = fb[g].op /\ fb'[g].fd = fb[g].fd
          /\ fb'[g].ctx = fb[g].ctx /\ fb'[g].timed = fb[g].timed /\ fb'[g].gap = fb[g].gap
      <4>1. fb'[g] = [fb[g] EXCEPT !.pc = "queued"] /\ fb[g] \in FbRec
        BY <1>1, <1>8, <1>12, <2>2
      <4>. QED BY <4>1 DEF FbRec
    <3>2. Waits(g)
      BY <1>2, <2>2
    <3>. QED BY <2>2, <3>1, <3>2 DEF Moves, Owning, Waits
  <2>3. CASE g = f
    <3>1. /\ fb'[g].pc = "del" /\ fb'[g].op = fb[g].op /\ fb'[g].fd = fb[g].fd
          /\ fb'[g].ctx = fb[g].ctx /\ fb'[g].timed = fb[g].timed /\ fb'[g].gap = fb[g].gap
      BY <1>1, <1>12, <2>3 DEF FbRec
    <3>2. fb'[g] = [fb[g] EXCEPT !.pc = fb'[g].pc]
      BY <1>12, <2>3, <3>1
    <3>. QED BY <1>1, <1>8, <2>3, <3>1, <3>2 DEF Moves, Waits
  <2>. QED BY <2>1, <2>2, <2>3
<1>17. UNCHANGED <<open, file, made, datas, bypassed, ioctled>>
  BY <1>5 DEF kernel, ghosts
<1>18. \A g \in W : Waits(g)
  BY <1>2
<1>. QED BY <1>1, <1>5, <1>9, <1>11, <1>14, <1>15, <1>16, <1>17, <1>18, Wake

-----------------------------------------------------------------------------
(* Steps that change flags and conditions of files only                      *)

LEMMA FilesOnly ==
    ASSUME IInv, Types', UNCHANGED <<open, made, datas, waiter, fb, spinning, bypassed>>,
           ioctled \subseteq ioctled', NonBlocking'
    PROVE  IInv'
<1>1. Places' /\ Numbers' /\ Owners' /\ Cancelled' /\ TimeoutKnown'
  BY DEF IInv, Places, Numbers, Owners, Cancelled, TimeoutKnown, Waits
<1>2. CtxMatchesFile' /\ BlocksOnlyWhenStale'
  BY DEF IInv, CtxMatchesFile, BlocksOnlyWhenStale
<1>3. Registered'
  BY DEF IInv, Registered, Waits
<1>4. OrphanNeedsGap'
  BY DEF IInv, OrphanNeedsGap
<1>. QED BY <1>1, <1>2, <1>3, <1>4 DEF IInv

LEMMA NextReady ==
    ASSUME IInv, NEW d \in Fds, NEW e \in Events, Ready(d, e)
    PROVE  IInv'
<1>1. Types /\ open[d] \in Files
  <2>1. Types
    BY DEF IInv
  <2>2. open[d] \in 0 .. MaxFiles
    BY <2>1 DEF Types, TypeOK
  <2>3. open[d] # 0 /\ MaxFiles \in Nat
    BY HookAssumption DEF Ready
  <2>. QED BY <2>1, <2>2, <2>3 DEF Files
<1>2. /\ file' \in [Files -> [nonblock : BOOLEAN, ready : SUBSET Events]]
      /\ \A x \in Files : file'[x].nonblock = file[x].nonblock
  <2>. DEFINE q == [file[open[d]] EXCEPT !.ready = @ \cup {e}]
  <2>1. file[open[d]] \in [nonblock : BOOLEAN, ready : SUBSET Events]
    BY <1>1 DEF Types, TypeOK
  <2>2. q \in [nonblock : BOOLEAN, ready : SUBSET Events] /\ q.nonblock = file[open[d]].nonblock
    BY <2>1
  <2>3. file' = [file EXCEPT ![open[d]] = q]
    BY <1>1 DEF Ready
  <2>. HIDE DEF q
  <2>. QED BY <1>1, <2>2, <2>3 DEF Types, TypeOK
<1>3. SharedTypes' /\ fb' \in [Fibers -> FbRec]
  BY <1>1, <1>2, TypesAre DEF SharedTypes, Ready, mtx, ghosts
<1>4. \A c \in Fds : datas[c] # 0 => datas[c] \in Files
  BY <1>1 DEF Types, TypeOK, Files
<1>5. NonBlocking'
  BY <1>2, <1>4 DEF IInv, NonBlocking, Ready, ghosts
<1>6. UNCHANGED <<open, made, datas, waiter, fb, spinning, bypassed, ioctled>>
  BY DEF Ready, mtx, ghosts
<1>. QED BY <1>3, <1>5, <1>6, TypesArePrime, FilesOnly

\* fcntl() keeps O_NONBLOCK of a socket with an FdCtx, ioctl() leaves a trace.
LEMMA NextFlag ==
    ASSUME IInv, NEW f \in Fibers, NEW d \in Fds, NEW b \in BOOLEAN, SetFl(f, d, b) \/ Ioctl(f, d, b)
    PROVE  IInv'
<1>1. /\ Types /\ open[d] \in Files /\ datas[d] \in 0 .. MaxFiles
      /\ ctls < MaxCtl /\ ctls' = ctls + 1
  <2>1. Types
    BY DEF IInv
  <2>2. open[d] \in 0 .. MaxFiles /\ datas[d] \in 0 .. MaxFiles
    BY <2>1 DEF Types, TypeOK
  <2>3. open[d] # 0 /\ ctls < MaxCtl /\ ctls' = ctls + 1
    BY DEF SetFl, Ioctl, Ctl, Known
  <2>4. MaxFiles \in Nat
    BY HookAssumption
  <2>. QED BY <2>1, <2>2, <2>3, <2>4 DEF Files
<1>2. ctx' \in [Files -> [user : BOOLEAN, timeout : [Events -> BOOLEAN]]]
  <2>1. CASE datas[d] = 0
    BY <1>1, <2>1 DEF SetFl, Ioctl, Types, TypeOK
  <2>2. CASE datas[d] # 0
    <3>1. datas[d] \in Files
      BY <1>1, <2>2, HookAssumption DEF Files
    <3>2. ctx' = [ctx EXCEPT ![datas[d]].user = b]
      BY <2>2 DEF SetFl, Ioctl
    <3>. QED BY <1>1, <3>1, <3>2 DEF Types, TypeOK
  <2>. QED BY <2>1, <2>2
<1>3. PICK n \in BOOLEAN :
        /\ file' = [file EXCEPT ![open[d]].nonblock = n]
        /\ ~n => datas[d] = 0 \/ open[d] \in ioctled'
        /\ ioctled \subseteq ioctled' /\ ioctled' \subseteq ioctled \cup {open[d]}
  <2>1. CASE SetFl(f, d, b)
    BY <2>1 DEF SetFl
  <2>2. CASE Ioctl(f, d, b)
    BY <2>2 DEF Ioctl
  <2>. QED BY <2>1, <2>2
<1>4. /\ file' \in [Files -> [nonblock : BOOLEAN, ready : SUBSET Events]]
      /\ \A x \in Files \ {open[d]} : file'[x].nonblock = file[x].nonblock
      /\ file'[open[d]].nonblock = n
  BY <1>1, <1>3 DEF Types, TypeOK
<1>5. UNCHANGED <<open, made, datas, waiter, fb, readers, spinning, bypassed>>
  BY DEF SetFl, Ioctl, mtx
<1>6. ctls' \in 0 .. MaxCtl
  BY <1>1, HookAssumption DEF Types, TypeOK
<1>7. SharedTypes' /\ fb' \in [Fibers -> FbRec]
  BY <1>1, <1>2, <1>3, <1>4, <1>5, <1>6, TypesAre DEF SharedTypes
<1>8. NonBlocking'
  <2>1. ASSUME NEW c \in Fds \ bypassed, datas[c] # 0
        PROVE  file'[datas[c]].nonblock \/ datas[c] \in ioctled'
    <3>1. datas[c] = open[c] /\ datas[c] \in Files
      BY <1>1, <2>1 DEF IInv, CtxMatchesFile, Types, TypeOK, Files
    <3>2. CASE c = d
      BY <1>3, <1>4, <2>1, <3>1, <3>2
    <3>3. CASE c # d
      <4>1. open[c] # open[d]
        BY <2>1, <3>1, <3>3 DEF IInv, Numbers
      <4>2. file[datas[c]].nonblock \/ datas[c] \in ioctled
        BY <2>1 DEF IInv, NonBlocking
      <4>. QED BY <1>3, <1>4, <3>1, <4>1, <4>2
    <3>. QED BY <3>2, <3>3
  <2>. QED BY <1>5, <2>1 DEF NonBlocking
<1>. QED BY <1>3, <1>5, <1>7, <1>8, TypesArePrime, FilesOnly

LEMMA NextSetTimeout ==
    ASSUME IInv, NEW f \in Fibers, NEW d \in Fds, NEW e \in Events, SetTimeout(f, d, e)
    PROVE  IInv'
<1>1. /\ Types /\ datas[d] \in Files /\ ctls < MaxCtl /\ ctls' = ctls + 1
  BY HookAssumption DEF IInv, Types, TypeOK, SetTimeout, Ctl, Files
<1>2. ctx' \in [Files -> [user : BOOLEAN, timeout : [Events -> BOOLEAN]]]
  BY <1>1 DEF SetTimeout, Types, TypeOK
<1>3. ctls' \in 0 .. MaxCtl
  BY <1>1, HookAssumption DEF Types, TypeOK
<1>4. UNCHANGED <<open, file, made, datas, waiter, fb, readers, spinning, bypassed, ioctled>>
  BY DEF SetTimeout, kernel, mtx
<1>5. SharedTypes' /\ fb' \in [Fibers -> FbRec]
  BY <1>1, <1>2, <1>3, <1>4, TypesAre DEF SharedTypes
<1>6. NonBlocking'
  BY <1>4 DEF IInv, NonBlocking
<1>. QED BY <1>4, <1>5, <1>6, TypesArePrime, FilesOnly

-----------------------------------------------------------------------------
(* addEvent, socket() and close()                                            *)

\* A fiber that registers behind a cancelAll is marked.
LEMMA NextAddEvent ==
    ASSUME IInv, NEW f \in Fibers, AddEvent(f)
    PROVE  IInv'
<1>. DEFINE d == fb[f].fd
            e == EventOf(fb[f].op)
<1>1. /\ Types /\ fb \in [Fibers -> FbRec] /\ d \in Fds /\ fb[f].pc = "add" /\ ~Waits(f)
      /\ fb[f] \in FbRec
  BY FbFacts DEF IInv, Types, AddEvent, Waits
<1>2. fb[f].op \in Calls /\ e \in Events /\ fb[f].op # "sleep"
  BY <1>1, CallEvents DEF IInv, Places, InIo, IoOps
<1>3. CASE open[d] = 0 \/ Stale(d)
  BY <1>1, <1>3, FitsIdle, StayLocal DEF AddEvent, Return
<1>4. CASE ~(open[d] = 0 \/ Stale(d))
  <2>. DEFINE r == [fb[f] EXCEPT !.pc = "wait", !.gap = Closing(d)]
              w == [who |-> {f}, file |-> open[d]]
  <2>1. Closing(d) \in BOOLEAN
    BY DEF Closing
  <2>2. /\ r \in FbRec /\ r.pc = "wait" /\ r.gap = Closing(d) /\ r.op = fb[f].op /\ r.fd = d
        /\ r.ctx = fb[f].ctx /\ r.timed = fb[f].timed /\ r.armed = fb[f].armed
        /\ r.late = fb[f].late /\ r.cancelled = fb[f].cancelled /\ r.early = fb[f].early
    BY <1>1, <2>1 DEF FbRec
  <2>3. /\ fb' = [fb EXCEPT ![f] = r] /\ waiter' = [waiter EXCEPT ![d][e] = w]
        /\ waiter[d][e] = Nobody /\ UNCHANGED <<kernel, datas, ctx, mtx, ghosts>>
    BY <1>1, <1>4 DEF AddEvent
  <2>. HIDE DEF r
  <2>4. fb'[f] = r /\ \A g \in Fibers \ {f} : fb'[g] = fb[g]
    BY <1>1, <2>3
  <2>5. /\ waiter'[d][e] = w
        /\ \A c \in Fds, k \in Events : ~(c = d /\ k = e) => waiter'[c][k] = waiter[c][k]
    BY <1>1, <1>2, <2>3 DEF Types, TypeOK
  <2>6. Types'
    <3>1. w \in [who : SUBSET Fibers, file : 0 .. MaxFiles]
      BY <1>1 DEF Types, TypeOK
    <3>2. waiter' \in [Fds -> [Events -> [who : SUBSET Fibers, file : 0 .. MaxFiles]]]
      BY <1>1, <1>2, <2>3, <3>1 DEF Types, TypeOK
    <3>3. SharedTypes'
      BY <1>1, <2>3, <3>2, TypesAre DEF SharedTypes, kernel, mtx, ghosts
    <3>. QED BY <1>1, <2>2, <2>3, <3>3, FbType, TypesArePrime
  <2>7. UNCHANGED <<open, file, made, datas, spinning, bypassed, ioctled>>
    BY <2>3 DEF kernel, mtx, ghosts
  <2>8. Waits(f)' /\ \A g \in Fibers \ {f} : Waits(g)' <=> Waits(g)
    BY <1>2, <2>2, <2>4 DEF Waits
  <2>9. ~Owning(r) /\ ~Owning(fb[f]) /\ ~InIo(r)
    BY <1>1, <2>2 DEF Owning, InIo
  <2>10. Places'
    <3>1. ASSUME NEW g \in Fibers, g # f
          PROVE  /\ fb'[g].pc = "idle" => fb'[g] = Idle
                 /\ Owning(fb'[g]) => fb'[g] = [Idle EXCEPT !.pc = fb'[g].pc, !.fd = fb'[g].fd]
                 /\ InIo(fb'[g]) \/ Waits(g)' \/ (fb'[g].pc = "queued" /\ fb'[g].op # "sleep") => fb'[g].op \in Calls
                 /\ fb'[g].op = "sleep" => fb'[g].pc \in {"wait", "queued"} /\ ~fb'[g].timed
      <4>1. fb'[g] = fb[g] /\ (Waits(g)' <=> Waits(g))
        BY <2>4, <2>8, <3>1
      <4>. QED BY <4>1 DEF IInv, Places
    <3>2. /\ fb'[f].pc # "idle" /\ ~Owning(fb'[f]) /\ fb'[f].op \in Calls /\ fb'[f].op # "sleep"
      BY <1>2, <2>2, <2>4, <2>9
    <3>. QED BY <3>1, <3>2 DEF Places
  <2>11. Numbers'
    BY <2>2, <2>4, <2>7 DEF IInv, Numbers
  <2>12. Owners'
    <3>1. \A g \in Fibers : Owning(fb'[g]) \/ fb'[g].pc \in {"create", "close"} => fb'[g] = fb[g] /\ g # f
      BY <2>2, <2>4, <2>9
    <3>2. \A g \in Fibers : fb'[g].ctx = fb[g].ctx
      BY <2>2, <2>4
    <3>. QED BY <2>7, <3>1, <3>2 DEF IInv, Owners
  <2>13. CtxMatchesFile' /\ NonBlocking'
    BY <2>7 DEF IInv, CtxMatchesFile, NonBlocking
  <2>14. BlocksOnlyWhenStale'
    BY <2>2, <2>4, <2>7 DEF IInv, BlocksOnlyWhenStale
  <2>15. Registered'
    <3>1. ASSUME NEW c \in Fds, NEW k \in Events, waiter'[c][k] # Nobody
          PROVE  /\ waiter'[c][k].file # 0
                 /\ \E g \in Fibers : /\ waiter'[c][k].who = {g}
                                      /\ Waits(g)' /\ fb'[g].fd = c /\ EventOf(fb'[g].op) = k
      <4>1. CASE c = d /\ k = e
        <5>1. waiter'[c][k].file # 0 /\ waiter'[c][k].who = {f}
          BY <1>4, <2>5, <4>1
        <5>. QED BY <2>2, <2>4, <2>8, <4>1, <5>1
      <4>2. CASE ~(c = d /\ k = e)
        <5>1. waiter'[c][k] = waiter[c][k]
          BY <2>5, <4>2
        <5>2. waiter[c][k].file # 0
          BY <3>1, <5>1 DEF IInv, Registered
        <5>3. PICK g \in Fibers : /\ waiter[c][k].who = {g}
                                  /\ Waits(g) /\ fb[g].fd = c /\ EventOf(fb[g].op) = k
          BY <3>1, <5>1 DEF IInv, Registered
        <5>4. g # f
          BY <1>1, <5>3
        <5>. QED BY <2>4, <2>8, <5>1, <5>2, <5>3, <5>4
      <4>. QED BY <4>1, <4>2
    <3>. QED BY <3>1 DEF Registered
  <2>16. OrphanNeedsGap'
    <3>1. ASSUME NEW g \in Fibers, Waits(g)'
          PROVE  LET v == waiter'[fb'[g].fd][EventOf(fb'[g].op)] IN
                 v.who = {g} /\ (v.file = open'[fb'[g].fd] \/ fb'[g].gap \/ fb'[g].fd \in bypassed')
      <4>1. CASE g = f
        <5>1. fb'[g].fd = d /\ EventOf(fb'[g].op) = e
          BY <2>2, <2>4, <4>1
        <5>. QED BY <2>5, <2>7, <4>1, <5>1
      <4>2. CASE g # f
        <5>1. fb'[g] = fb[g] /\ Waits(g)
          BY <2>4, <2>8, <3>1, <4>2
        <5>2. fb[g].fd \in Fds /\ EventOf(fb[g].op) \in Events
          BY <5>1, <1>1, FbFacts, CallEvents DEF IInv, Places
        <5>3. LET v == waiter[fb[g].fd][EventOf(fb[g].op)] IN
              v.who = {g} /\ (v.file = open[fb[g].fd] \/ fb[g].gap \/ fb[g].fd \in bypassed)
          BY <5>1 DEF IInv, OrphanNeedsGap, Waits
        <5>4. ~(fb[g].fd = d /\ EventOf(fb[g].op) = e)
          BY <2>3, <5>3 DEF Nobody
        <5>. QED BY <2>5, <2>7, <5>1, <5>2, <5>3, <5>4
      <4>. QED BY <4>1, <4>2
    <3>. QED BY <3>1 DEF OrphanNeedsGap, Waits
  <2>17. Cancelled'
    <3>1. ASSUME NEW g \in Fibers, NEW h \in Fibers, Waits(g)', fb'[h].pc \in {"del", "close"},
                 fb'[h].fd = fb'[g].fd
          PROVE  fb'[g].gap \/ fb'[g].fd \in bypassed'
      <4>1. h # f /\ fb'[h] = fb[h]
        BY <2>2, <2>4, <3>1
      <4>2. CASE g = f
        BY <2>2, <2>4, <3>1, <4>1, <4>2 DEF Closing
      <4>3. CASE g # f
        BY <2>4, <2>7, <2>8, <3>1, <4>1, <4>3 DEF IInv, Cancelled
      <4>. QED BY <4>2, <4>3
    <3>. QED BY <3>1 DEF Cancelled
  <2>18. TimeoutKnown'
    <3>1. /\ r.timed => r.armed \/ r.late > 0 \/ r.cancelled
          /\ r.cancelled => r.early
      BY <1>1, <2>2 DEF IInv, TimeoutKnown
    <3>. QED BY <2>2, <2>4, <2>7, <2>8, <3>1 DEF IInv, TimeoutKnown
  <2>. QED BY <2>6, <2>10, <2>11, <2>12, <2>13, <2>14, <2>15, <2>16, <2>17, <2>18 DEF IInv
<1>. QED BY <1>3, <1>4

\* A fiber outside the calls that wait, and the others as they were: what is said of
\* waiting fibers is what was said before, as long as their files and fds are the same.
LEMMA WaitersSame ==
    ASSUME IInv, NEW f \in Fibers, ~Waits(f), fb'[f].pc \in {"idle", "create", "close"},
           \A g \in Fibers \ {f} : fb'[g] = fb[g], UNCHANGED <<waiter, spinning>>,
           bypassed \subseteq bypassed'
    PROVE  /\ \A g \in Fibers : Waits(g)' <=> Waits(g)
           /\ \A g \in Fibers : Waits(g) => fb'[g] = fb[g]
           /\ Registered' /\ TimeoutKnown'
<1>1. \A g \in Fibers : Waits(g)' <=> Waits(g)
  BY DEF Waits
<1>2. \A g \in Fibers : Waits(g) => fb'[g] = fb[g]
  OBVIOUS
<1>3. Registered'
  BY <1>1, <1>2 DEF IInv, Registered
<1>4. TimeoutKnown'
  BY <1>1, <1>2 DEF IInv, TimeoutKnown
<1>. QED BY <1>1, <1>2, <1>3, <1>4

\* Another fiber's place is described as before; f is outside the calls that wait.
LEMMA PlacesSame ==
    ASSUME IInv, NEW f \in Fibers, \A g \in Fibers \ {f} : fb'[g] = fb[g],
           \/ fb'[f] = Idle
           \/ Owning(fb'[f]) /\ fb'[f] = [Idle EXCEPT !.pc = fb'[f].pc, !.fd = fb'[f].fd]
    PROVE  Places'
<1>1. ASSUME NEW g \in Fibers, g # f
      PROVE  /\ fb'[g].pc = "idle" => fb'[g] = Idle
             /\ Owning(fb'[g]) => fb'[g] = [Idle EXCEPT !.pc = fb'[g].pc, !.fd = fb'[g].fd]
             /\ InIo(fb'[g]) \/ Waits(g)' \/ (fb'[g].pc = "queued" /\ fb'[g].op # "sleep") => fb'[g].op \in Calls
             /\ fb'[g].op = "sleep" => fb'[g].pc \in {"wait", "queued"} /\ ~fb'[g].timed
  <2>1. fb'[g] = fb[g] /\ (Waits(g)' <=> Waits(g))
    BY <1>1 DEF Waits
  <2>. QED BY <2>1 DEF IInv, Places
<1>2. fb'[f].op = "none"
  <2>1. [Idle EXCEPT !.pc = fb'[f].pc, !.fd = fb'[f].fd].op = "none"
    BY DEF Idle
  <2>. QED BY <2>1, IdleIs
<1>3. /\ fb'[f].pc = "idle" => fb'[f] = Idle
      /\ Owning(fb'[f]) => fb'[f] = [Idle EXCEPT !.pc = fb'[f].pc, !.fd = fb'[f].fd]
      /\ ~InIo(fb'[f]) /\ ~Waits(f)' /\ fb'[f].pc # "queued"
  BY IdleIs DEF Owning, InIo, Waits
<1>. QED BY <1>1, <1>2, <1>3 DEF Places

\* The number is free, so no FdCtx is under it, and nobody knows the new file.
LEMMA NextSocket ==
    ASSUME IInv, NEW f \in Fibers, Socket(f)
    PROVE  IInv'
<1>. DEFINE free == {c \in Fds : open[c] = 0}
            d == Min(free)
<1>1. /\ Types /\ fb \in [Fibers -> FbRec] /\ fb[f] = Idle /\ ~Waits(f) /\ fb[f].pc = "idle"
      /\ made \in Nat /\ made + 1 \in Files /\ made + 1 \in 0 .. MaxFiles
  <2>1. Types /\ fb \in [Fibers -> FbRec] /\ fb[f].pc = "idle" /\ ~Waits(f)
    BY DEF IInv, Types, Socket, Waits
  <2>2. fb[f] = Idle
    BY <2>1 DEF IInv, Places
  <2>3. made \in 0 .. MaxFiles /\ made < MaxFiles
    BY <2>1 DEF Types, TypeOK, Socket
  <2>. QED BY <2>1, <2>2, <2>3, HookAssumption DEF Files
<1>2. d \in Fds /\ open[d] = 0
  <2>1. free \in SUBSET Nat /\ free # {}
    BY HookAssumption DEF Socket
  <2>2. d \in free
    BY <2>1, LowestIn
  <2>. QED BY <2>2
<1>3. /\ made' = made + 1 /\ open' = [open EXCEPT ![d] = made + 1]
      /\ fb' = fb \/ fb' = [fb EXCEPT ![f].pc = "create", ![f].fd = d]
      /\ UNCHANGED <<file, datas, ctx, waiter, mtx, ghosts>>
  BY DEF Socket
<1>. HIDE DEF d
<1>. DEFINE r == [Idle EXCEPT !.pc = "create", !.fd = d]
<1>4. /\ r \in FbRec /\ r.pc = "create" /\ r.fd = d /\ r.ctx = 0
      /\ r = [Idle EXCEPT !.pc = r.pc, !.fd = r.fd] /\ Owning(r)
  BY <1>2, IdleType DEF FbRec, Idle, Owning
<1>5. fb' = fb \/ fb' = [fb EXCEPT ![f] = r]
  BY <1>1, <1>3
<1>. HIDE DEF r
<1>6. /\ fb'[f] \in {Idle, r}
      /\ \A g \in Fibers \ {f} : fb'[g] = fb[g]
  BY <1>1, <1>3, <1>5, <1>4, IdleIs
<1>7. UNCHANGED <<file, datas, ctx, waiter, readers, spinning, ctls, bypassed, ioctled>>
  BY <1>3 DEF mtx, ghosts
<1>8. open'[d] = made + 1 /\ \A c \in Fds \ {d} : open'[c] = open[c]
  BY <1>1, <1>2, <1>3 DEF Types, TypeOK
<1>9. Types'
  <2>1. open' \in [Fds -> 0 .. MaxFiles] /\ made' \in 0 .. MaxFiles
    BY <1>1, <1>2, <1>3 DEF Types, TypeOK
  <2>2. SharedTypes'
    BY <1>1, <1>7, <2>1, TypesAre DEF SharedTypes
  <2>3. fb' \in [Fibers -> FbRec]
    BY <1>1, <1>3, <1>4, <1>5
  <2>. QED BY <2>2, <2>3, TypesArePrime
<1>10. /\ \A g \in Fibers : Waits(g)' <=> Waits(g)
       /\ \A g \in Fibers : Waits(g) => fb'[g] = fb[g]
       /\ Registered' /\ TimeoutKnown'
  BY <1>1, <1>4, <1>6, <1>7, IdleIs, WaitersSame
<1>11. Places'
  BY <1>4, <1>6, PlacesSame
<1>12. /\ \A c \in Fds : datas[c] \in Nat /\ datas[c] <= made /\ open[c] \in Nat /\ open[c] <= made
       /\ \A g \in Fibers : fb[g].ctx \in Nat /\ fb[g].ctx <= made
       /\ \A g \in Fibers : fb'[g].ctx = fb[g].ctx \/ fb'[g].ctx = 0
  <2>1. \A c \in Fds : datas[c] \in 0 .. MaxFiles /\ open[c] \in 0 .. MaxFiles
    BY <1>1 DEF Types, TypeOK
  <2>2. \A g \in Fibers : fb[g].ctx \in 0 .. MaxFiles
    BY <1>1, FbFacts
  <2>3. \A g \in Fibers : fb'[g].ctx = fb[g].ctx \/ fb'[g].ctx = 0
    BY <1>4, <1>6, IdleIs
  <2>. QED BY <2>1, <2>2, <2>3, HookAssumption DEF IInv, Numbers
<1>13. Numbers'
  <2>1. ASSUME NEW c \in Fds, NEW e \in Fds, open'[c] = open'[e], open'[c] # 0
        PROVE  c = e
    BY <1>1, <1>8, <1>12, <2>1 DEF IInv, Numbers
  <2>2. \A c \in Fds : open'[c] <= made + 1 /\ datas[c] <= made + 1
    BY <1>1, <1>8, <1>12
  <2>3. \A g \in Fibers : fb'[g].ctx <= made + 1
    BY <1>1, <1>12
  <2>. QED BY <1>3, <1>7, <2>1, <2>2, <2>3 DEF Numbers
<1>14. \A g \in Fibers : Owning(fb'[g]) =>
          \/ g = f /\ fb'[g] = r
          \/ g # f /\ fb'[g] = fb[g] /\ Owning(fb[g]) /\ fb[g].fd # d
  <2>1. \A g \in Fibers : Owning(fb[g]) => fb[g].fd # d
    BY <1>2 DEF IInv, Owners
  <2>2. ~Owning(Idle)
    BY IdleIs DEF Owning
  <2>. QED BY <1>6, <2>1, <2>2
<1>15. Owners'
  <2>1. \A g \in Fibers : Owning(fb'[g]) => open'[fb'[g].fd] # 0
    <3>1. made + 1 # 0
      BY <1>1
    <3>2. \A g \in Fibers : fb[g].fd \in Fds /\ (Owning(fb[g]) => open[fb[g].fd] # 0)
      BY <1>1, FbFacts DEF IInv, Owners
    <3>. QED BY <1>4, <1>8, <1>14, <3>1, <3>2
  <2>2. \A g, h \in Fibers : Owning(fb'[g]) /\ Owning(fb'[h]) /\ fb'[g].fd = fb'[h].fd => g = h
    BY <1>4, <1>14 DEF IInv, Owners
  <2>3. ASSUME NEW g \in Fibers, fb'[g].pc = "create"
        PROVE  /\ \A c \in Fds : datas[c] # open'[fb'[g].fd]
               /\ \A h \in Fibers : fb'[h].ctx # open'[fb'[g].fd]
    <3>1. Owning(fb'[g])
      BY <2>3 DEF Owning
    <3>2. CASE g = f /\ fb'[g] = r
      BY <1>1, <1>4, <1>8, <1>12, <3>2
    <3>3. CASE g # f /\ fb'[g] = fb[g] /\ Owning(fb[g]) /\ fb[g].fd # d
      <4>1. open'[fb'[g].fd] = open[fb[g].fd] /\ open[fb[g].fd] # 0
        BY <1>1, <1>8, <3>3, FbFacts DEF IInv, Owners
      <4>2. /\ \A c \in Fds : datas[c] # open[fb[g].fd]
            /\ \A h \in Fibers : fb[h].ctx # open[fb[g].fd]
        BY <2>3, <3>3 DEF IInv, Owners
      <4>. QED BY <1>12, <4>1, <4>2
    <3>. QED BY <1>14, <3>1, <3>2, <3>3
  <2>4. \A g \in Fibers : fb'[g].pc = "close" => datas[fb'[g].fd] = 0
    <3>1. \A g \in Fibers : fb'[g].pc = "close" => fb'[g] = fb[g]
      BY <1>4, <1>6, IdleIs
    <3>. QED BY <3>1 DEF IInv, Owners
  <2>. QED BY <1>7, <2>1, <2>2, <2>3, <2>4 DEF Owners
<1>16. CtxMatchesFile'
  BY <1>2, <1>7, <1>8 DEF IInv, CtxMatchesFile
<1>17. NonBlocking'
  BY <1>7 DEF IInv, NonBlocking
<1>18. BlocksOnlyWhenStale'
  <2>1. ASSUME NEW g \in Fibers, fb'[g].pc = "blocked", fb'[g].ctx # 0
        PROVE  LET x == open'[fb'[g].fd] IN
               fb'[g].ctx # x \/ datas'[fb'[g].fd] # x \/ x \in ioctled' \/ fb'[g].fd \in bypassed'
    <3>1. fb'[g] = fb[g] /\ fb[g].fd \in Fds
      BY <1>1, <1>4, <1>6, <2>1, IdleIs, FbFacts
    <3>2. CASE fb[g].fd = d
      BY <1>1, <1>8, <1>12, <3>1, <3>2
    <3>3. CASE fb[g].fd # d
      BY <1>7, <1>8, <2>1, <3>1, <3>3 DEF IInv, BlocksOnlyWhenStale
    <3>. QED BY <3>2, <3>3
  <2>. QED BY <2>1 DEF BlocksOnlyWhenStale
<1>19. OrphanNeedsGap'
  <2>1. ASSUME NEW g \in Fibers, Waits(g)'
        PROVE  LET v == waiter'[fb'[g].fd][EventOf(fb'[g].op)] IN
               v.who = {g} /\ (v.file = open'[fb'[g].fd] \/ fb'[g].gap \/ fb'[g].fd \in bypassed')
    <3>1. fb'[g] = fb[g] /\ Waits(g)
      BY <1>10, <2>1
    <3>2. fb[g].fd \in Fds /\ EventOf(fb[g].op) \in Events
      BY <1>1, <3>1, FbFacts, CallEvents DEF IInv, Places
    <3>3. LET v == waiter[fb[g].fd][EventOf(fb[g].op)] IN
          v.who = {g} /\ (v.file = open[fb[g].fd] \/ fb[g].gap \/ fb[g].fd \in bypassed)
      BY <3>1 DEF IInv, OrphanNeedsGap, Waits
    <3>4. waiter[fb[g].fd][EventOf(fb[g].op)].file # 0
      BY <3>2, <3>3 DEF IInv, Registered, Nobody
    <3>. QED BY <1>2, <1>7, <1>8, <3>1, <3>2, <3>3, <3>4
  <2>. QED BY <2>1 DEF OrphanNeedsGap, Waits
<1>20. Cancelled'
  <2>1. \A g \in Fibers : fb'[g].pc \in {"del", "close"} => fb'[g] = fb[g]
    BY <1>4, <1>6, IdleIs
  <2>. QED BY <1>7, <1>10, <2>1 DEF IInv, Cancelled
<1>. QED BY <1>9, <1>10, <1>11, <1>13, <1>15, <1>16, <1>17, <1>18, <1>19, <1>20 DEF IInv

\* Nobody has seen an FdCtx of this file, so nobody is blocked with it.
LEMMA NextCreate ==
    ASSUME IInv, NEW f \in Fibers, Create(f)
    PROVE  IInv'
<1>. DEFINE d == fb[f].fd
            x == open[d]
<1>1. /\ Types /\ fb \in [Fibers -> FbRec] /\ fb[f].pc = "create" /\ ~Waits(f) /\ d \in Fds
      /\ Owning(fb[f]) /\ x # 0 /\ x \in Files /\ x \in 0 .. MaxFiles /\ x <= made
  <2>1. Types /\ fb \in [Fibers -> FbRec] /\ fb[f].pc = "create" /\ d \in Fds
    BY FbFacts DEF IInv, Types, Create
  <2>2. Owning(fb[f]) /\ ~Waits(f)
    BY <2>1 DEF Owning, Waits
  <2>3. x # 0 /\ x \in 0 .. MaxFiles /\ x <= made
    BY <2>1, <2>2 DEF IInv, Owners, Types, TypeOK, Numbers
  <2>. QED BY <2>1, <2>2, <2>3, HookAssumption DEF Files
<1>2. /\ fb' = [fb EXCEPT ![f] = Idle]
      /\ UNCHANGED <<open, made, waiter, readers, spinning, ctls, bypassed, ioctled>>
  BY DEF Create, Return, mtx, ghosts
<1>3. fb'[f] = Idle /\ \A g \in Fibers \ {f} : fb'[g] = fb[g]
  BY <1>1, <1>2
<1>4. CASE datas[d] # 0
  <2>1. UNCHANGED <<datas, ctx, file>>
    BY <1>4 DEF Create
  <2>2. Fits(f, Idle)
    BY <1>1, FitsIdle
  <2>. QED BY <1>2, <2>1, <2>2, StayLocal DEF kernel, mtx, ghosts
<1>5. CASE datas[d] = 0
  <2>1. /\ datas' = [datas EXCEPT ![d] = x] /\ ctx' = [ctx EXCEPT ![x] = FreshCtx]
        /\ file' = [file EXCEPT ![x].nonblock = TRUE]
    BY <1>5 DEF Create
  <2>2. /\ datas'[d] = x /\ \A c \in Fds \ {d} : datas'[c] = datas[c]
        /\ \A y \in Files \ {x} : file'[y].nonblock = file[y].nonblock
        /\ file'[x].nonblock
    <3>1. /\ datas \in [Fds -> 0 .. MaxFiles] /\ x \in Files /\ d \in Fds
          /\ file \in [Files -> [nonblock : BOOLEAN, ready : SUBSET Events]]
      BY <1>1 DEF Types, TypeOK
    <3>. HIDE DEF x, d
    <3>2. datas'[d] = x /\ \A c \in Fds \ {d} : datas'[c] = datas[c]
      BY <2>1, <3>1
    <3>3. \A y \in Files \ {x} : file'[y] = file[y]
      BY <2>1, <3>1
    <3>4. file'[x] = [file[x] EXCEPT !.nonblock = TRUE] /\ file[x] \in [nonblock : BOOLEAN, ready : SUBSET Events]
      BY <2>1, <3>1
    <3>5. file'[x].nonblock
      BY <3>4
    <3>. QED BY <3>2, <3>3, <3>5
  <2>3. Types'
    <3>1. FreshCtx \in [user : BOOLEAN, timeout : [Events -> BOOLEAN]]
      BY DEF FreshCtx
    <3>2. /\ datas' \in [Fds -> 0 .. MaxFiles]
          /\ file' \in [Files -> [nonblock : BOOLEAN, ready : SUBSET Events]]
          /\ ctx' \in [Files -> [user : BOOLEAN, timeout : [Events -> BOOLEAN]]]
      <4>1. datas' \in [Fds -> 0 .. MaxFiles]
        BY <1>1, <2>1 DEF Types, TypeOK
      <4>2. file' \in [Files -> [nonblock : BOOLEAN, ready : SUBSET Events]]
        BY <1>1, <2>1 DEF Types, TypeOK
      <4>3. ctx' \in [Files -> [user : BOOLEAN, timeout : [Events -> BOOLEAN]]]
        BY <1>1, <2>1, <3>1 DEF Types, TypeOK
      <4>. QED BY <4>1, <4>2, <4>3
    <3>3. SharedTypes'
      BY <1>1, <1>2, <3>2, TypesAre DEF SharedTypes
    <3>. QED BY <1>1, <1>2, <3>3, FbType, IdleType, TypesArePrime
  <2>4. /\ \A g \in Fibers : Waits(g)' <=> Waits(g)
        /\ \A g \in Fibers : Waits(g) => fb'[g] = fb[g]
        /\ Registered' /\ TimeoutKnown'
    BY <1>1, <1>2, <1>3, IdleIs, WaitersSame
  <2>5. Places'
    BY <1>3, PlacesSame
  <2>6. Numbers'
    <3>0. made \in Nat
      BY <1>1, HookAssumption DEF Types, TypeOK
    <3>1. 0 <= made /\ \A c \in Fds : open[c] <= made /\ datas'[c] <= made
      BY <1>1, <2>2, <3>0 DEF IInv, Numbers
    <3>2. \A g \in Fibers : fb'[g].ctx <= made
      BY <1>3, <3>1, IdleIs DEF IInv, Numbers
    <3>. QED BY <1>2, <3>1, <3>2 DEF IInv, Numbers
  <2>7. \A g \in Fibers : Owning(fb'[g]) => g # f /\ fb'[g] = fb[g] /\ Owning(fb[g]) /\ fb[g].fd # d
    <3>1. ~Owning(Idle)
      BY IdleIs DEF Owning
    <3>. QED BY <1>1, <1>3, <3>1 DEF IInv, Owners
  <2>8. \A g \in Fibers : fb'[g].ctx = fb[g].ctx \/ fb'[g].ctx = 0
    BY <1>3, IdleIs
  <2>9. Owners'
    <3>1. ASSUME NEW g \in Fibers, fb'[g].pc = "create"
          PROVE  /\ \A c \in Fds : datas'[c] # open[fb'[g].fd]
                 /\ \A h \in Fibers : fb'[h].ctx # open[fb'[g].fd]
      <4>1. fb'[g] = fb[g] /\ fb[g].fd # d /\ open[fb[g].fd] # 0 /\ fb[g].fd \in Fds
        BY <1>1, <2>7, <3>1, FbFacts DEF Owning, IInv, Owners
      <4>2. open[fb[g].fd] # x
        BY <1>1, <4>1 DEF IInv, Numbers
      <4>3. /\ \A c \in Fds : datas[c] # open[fb[g].fd]
            /\ \A h \in Fibers : fb[h].ctx # open[fb[g].fd]
        BY <3>1, <4>1 DEF IInv, Owners
      <4>. QED BY <2>2, <2>8, <4>1, <4>2, <4>3
    <3>2. \A g \in Fibers : fb'[g].pc = "close" => datas'[fb'[g].fd] = 0
      BY <1>1, <2>2, <2>7, FbFacts DEF Owning, IInv, Owners
    <3>3. \A g \in Fibers : Owning(fb'[g]) => open[fb'[g].fd] # 0
      BY <2>7 DEF IInv, Owners
    <3>4. \A g, h \in Fibers : Owning(fb'[g]) /\ Owning(fb'[h]) /\ fb'[g].fd = fb'[h].fd => g = h
      BY <2>7 DEF IInv, Owners
    <3>. QED BY <1>2, <3>1, <3>2, <3>3, <3>4 DEF Owners
  <2>10. CtxMatchesFile'
    BY <1>2, <2>2 DEF IInv, CtxMatchesFile
  <2>11. NonBlocking'
    <3>1. ASSUME NEW c \in Fds \ bypassed, datas'[c] # 0
          PROVE  file'[datas'[c]].nonblock \/ datas'[c] \in ioctled
      <4>1. CASE c = d
        BY <2>2, <4>1
      <4>2. CASE c # d
        <5>1. datas'[c] = datas[c] /\ datas[c] \in Files
          BY <1>1, <2>2, <3>1, <4>2 DEF Types, TypeOK, Files
        <5>2. datas[c] # x
          BY <1>1 DEF IInv, Owners
        <5>. QED BY <2>2, <3>1, <5>1, <5>2 DEF IInv, NonBlocking
      <4>. QED BY <4>1, <4>2
    <3>. QED BY <1>2, <3>1 DEF NonBlocking
  <2>12. BlocksOnlyWhenStale'
    <3>1. ASSUME NEW g \in Fibers, fb'[g].pc = "blocked", fb'[g].ctx # 0
          PROVE  LET y == open'[fb'[g].fd] IN
                 fb'[g].ctx # y \/ datas'[fb'[g].fd] # y \/ y \in ioctled' \/ fb'[g].fd \in bypassed'
      <4>1. fb'[g] = fb[g] /\ fb[g].fd \in Fds
        BY <1>1, <1>3, <3>1, IdleIs, FbFacts
      <4>2. CASE fb[g].fd = d
        BY <1>1, <1>2, <4>1, <4>2 DEF IInv, Owners
      <4>3. CASE fb[g].fd # d
        BY <1>2, <2>2, <3>1, <4>1, <4>3 DEF IInv, BlocksOnlyWhenStale
      <4>. QED BY <4>2, <4>3
    <3>. QED BY <3>1 DEF BlocksOnlyWhenStale
  <2>13. OrphanNeedsGap'
    <3>1. ASSUME NEW g \in Fibers, Waits(g)'
          PROVE  LET v == waiter'[fb'[g].fd][EventOf(fb'[g].op)] IN
                 v.who = {g} /\ (v.file = open'[fb'[g].fd] \/ fb'[g].gap \/ fb'[g].fd \in bypassed')
      <4>1. fb'[g] = fb[g] /\ Waits(g)
        BY <2>4, <3>1
      <4>2. LET v == waiter[fb[g].fd][EventOf(fb[g].op)] IN
            v.who = {g} /\ (v.file = open[fb[g].fd] \/ fb[g].gap \/ fb[g].fd \in bypassed)
        BY <4>1 DEF IInv, OrphanNeedsGap, Waits
      <4>. QED BY <1>2, <4>1, <4>2
    <3>. QED BY <3>1 DEF OrphanNeedsGap, Waits
  <2>14. Cancelled'
    <3>1. \A g \in Fibers : fb'[g].pc \in {"del", "close"} => fb'[g] = fb[g]
      BY <1>3, IdleIs
    <3>. QED BY <1>2, <2>4, <3>1 DEF IInv, Cancelled
  <2>. QED BY <2>3, <2>4, <2>5, <2>6, <2>9, <2>10, <2>11, <2>12, <2>13, <2>14 DEF IInv
<1>. QED BY <1>4, <1>5

\* FdManager::del; the close() that calls it still owns the fd.
LEMMA NextDel ==
    ASSUME IInv, NEW f \in Fibers, Del(f)
    PROVE  IInv'
<1>. DEFINE d == fb[f].fd
            r == [fb[f] EXCEPT !.pc = "close"]
<1>1. /\ Types /\ fb \in [Fibers -> FbRec] /\ fb[f].pc = "del" /\ ~Waits(f) /\ d \in Fds
      /\ Owning(fb[f]) /\ open[d] # 0 /\ fb[f] \in FbRec
  <2>1. Types /\ fb \in [Fibers -> FbRec] /\ fb[f].pc = "del" /\ d \in Fds
    BY FbFacts DEF IInv, Types, Del
  <2>2. Owning(fb[f]) /\ ~Waits(f)
    BY <2>1 DEF Owning, Waits
  <2>. QED BY <2>1, <2>2 DEF IInv, Owners
<1>2. /\ datas' = [datas EXCEPT ![d] = 0] /\ fb' = [fb EXCEPT ![f] = r]
      /\ UNCHANGED <<open, file, made, ctx, waiter, readers, spinning, ctls, bypassed, ioctled>>
  BY <1>1 DEF Del, Goto, kernel, mtx, ghosts
<1>3. /\ r \in FbRec /\ r.pc = "close" /\ r.fd = d /\ r.ctx = fb[f].ctx /\ Owning(r)
  BY <1>1 DEF FbRec, Owning
<1>4. r = [Idle EXCEPT !.pc = r.pc, !.fd = r.fd]
  <2>1. fb[f] = [Idle EXCEPT !.pc = fb[f].pc, !.fd = d]
    BY <1>1 DEF IInv, Places
  <2>2. [fb[f] EXCEPT !.pc = "close"] = [Idle EXCEPT !.pc = "close", !.fd = d]
    BY <2>1 DEF Idle
  <2>. QED BY <1>3, <2>2
<1>. HIDE DEF r
<1>5. fb'[f] = r /\ \A g \in Fibers \ {f} : fb'[g] = fb[g]
  BY <1>1, <1>2
<1>6. datas'[d] = 0 /\ \A c \in Fds \ {d} : datas'[c] = datas[c]
  BY <1>1, <1>2 DEF Types, TypeOK
<1>7. Types'
  <2>1. datas' \in [Fds -> 0 .. MaxFiles]
    BY <1>1, <1>2, HookAssumption DEF Types, TypeOK
  <2>2. SharedTypes'
    BY <1>1, <1>2, <2>1, TypesAre DEF SharedTypes
  <2>. QED BY <1>1, <1>2, <1>3, <2>2, FbType, TypesArePrime
<1>8. /\ \A g \in Fibers : Waits(g)' <=> Waits(g)
      /\ \A g \in Fibers : Waits(g) => fb'[g] = fb[g]
      /\ Registered' /\ TimeoutKnown'
  BY <1>1, <1>2, <1>3, <1>5, WaitersSame
<1>9. Places'
  BY <1>3, <1>4, <1>5, PlacesSame
<1>10. \A g \in Fibers : /\ fb'[g].fd = fb[g].fd /\ fb'[g].ctx = fb[g].ctx
                         /\ (Owning(fb'[g]) <=> Owning(fb[g]))
  BY <1>1, <1>3, <1>5
<1>11. Numbers'
  <2>1. \A c \in Fds : datas'[c] <= made
    BY <1>1, <1>6, HookAssumption DEF IInv, Numbers, Types, TypeOK
  <2>. QED BY <1>2, <1>10, <2>1 DEF IInv, Numbers
<1>12. Owners'
  <2>1. ASSUME NEW g \in Fibers, fb'[g].pc = "create"
        PROVE  /\ \A c \in Fds : datas'[c] # open[fb'[g].fd]
               /\ \A h \in Fibers : fb'[h].ctx # open[fb'[g].fd]
    <3>1. fb'[g] = fb[g]
      BY <1>3, <1>5, <2>1
    <3>2. open[fb[g].fd] # 0
      BY <2>1, <3>1 DEF IInv, Owners, Owning
    <3>. QED BY <1>6, <1>10, <2>1, <3>1, <3>2 DEF IInv, Owners
  <2>2. ASSUME NEW g \in Fibers, fb'[g].pc = "close" PROVE datas'[fb'[g].fd] = 0
    <3>1. fb[g].fd \in Fds
      BY <1>1, FbFacts
    <3>2. CASE g = f
      BY <1>3, <1>5, <1>6, <3>2
    <3>3. CASE g # f
      <4>1. fb'[g] = fb[g] /\ datas[fb[g].fd] = 0
        BY <1>5, <2>2, <3>3 DEF IInv, Owners
      <4>. QED BY <1>6, <3>1, <4>1
    <3>. QED BY <3>2, <3>3
  <2>3. /\ \A g \in Fibers : Owning(fb'[g]) => open[fb'[g].fd] # 0
        /\ \A g, h \in Fibers : Owning(fb'[g]) /\ Owning(fb'[h]) /\ fb'[g].fd = fb'[h].fd => g = h
    BY <1>10 DEF IInv, Owners
  <2>. QED BY <1>2, <2>1, <2>2, <2>3 DEF Owners
<1>13. CtxMatchesFile' /\ NonBlocking'
  BY <1>2, <1>6 DEF IInv, CtxMatchesFile, NonBlocking
<1>14. BlocksOnlyWhenStale'
  <2>1. ASSUME NEW g \in Fibers, fb'[g].pc = "blocked", fb'[g].ctx # 0
        PROVE  LET y == open'[fb'[g].fd] IN
               fb'[g].ctx # y \/ datas'[fb'[g].fd] # y \/ y \in ioctled' \/ fb'[g].fd \in bypassed'
    <3>1. fb'[g] = fb[g] /\ fb[g].fd \in Fds
      BY <1>1, <1>3, <1>5, <2>1, FbFacts
    <3>2. CASE fb[g].fd = d
      BY <1>1, <1>2, <1>6, <3>1, <3>2
    <3>3. CASE fb[g].fd # d
      BY <1>2, <1>6, <2>1, <3>1, <3>3 DEF IInv, BlocksOnlyWhenStale
    <3>. QED BY <3>2, <3>3
  <2>. QED BY <2>1 DEF BlocksOnlyWhenStale
<1>15. OrphanNeedsGap'
  <2>1. ASSUME NEW g \in Fibers, Waits(g)'
        PROVE  LET v == waiter'[fb'[g].fd][EventOf(fb'[g].op)] IN
               v.who = {g} /\ (v.file = open'[fb'[g].fd] \/ fb'[g].gap \/ fb'[g].fd \in bypassed')
    <3>1. fb'[g] = fb[g] /\ Waits(g)
      BY <1>8, <2>1
    <3>2. LET v == waiter[fb[g].fd][EventOf(fb[g].op)] IN
          v.who = {g} /\ (v.file = open[fb[g].fd] \/ fb[g].gap \/ fb[g].fd \in bypassed)
      BY <3>1 DEF IInv, OrphanNeedsGap, Waits
    <3>. QED BY <1>2, <3>1, <3>2
  <2>. QED BY <2>1 DEF OrphanNeedsGap, Waits
<1>16. Cancelled'
  <2>1. \A g \in Fibers : fb'[g].pc \in {"del", "close"} => fb[g].pc \in {"del", "close"} /\ fb'[g].fd = fb[g].fd
    BY <1>1, <1>5, <1>10
  <2>. QED BY <1>2, <1>8, <2>1 DEF IInv, Cancelled
<1>. QED BY <1>7, <1>8, <1>9, <1>11, <1>12, <1>13, <1>14, <1>15, <1>16 DEF IInv

\* The kernel forgets the registrations of the file: who still waits for one came behind
\* the cancelAll, or the close is one that bypassed it.
LEMMA NextCloseF ==
    ASSUME IInv, NEW f \in Fibers, CloseF(f)
    PROVE  IInv'
<1>. DEFINE d == fb[f].fd
<1>1. /\ Types /\ fb \in [Fibers -> FbRec] /\ fb[f].pc \in {"close", "raw"} /\ ~Waits(f) /\ d \in Fds
      /\ Owning(fb[f])
  <2>1. Types /\ fb \in [Fibers -> FbRec] /\ fb[f].pc \in {"close", "raw"} /\ d \in Fds
    BY FbFacts DEF IInv, Types, CloseF
  <2>. QED BY <2>1 DEF Owning, Waits
<1>2. /\ open' = [open EXCEPT ![d] = 0] /\ fb' = [fb EXCEPT ![f] = Idle]
      /\ UNCHANGED <<made, datas, ctx, waiter, readers, spinning, ctls, ioctled>>
      /\ file' = [file EXCEPT ![open[d]].ready = {}]
  BY DEF CloseF, Return, mtx
<1>17. /\ file' \in [Files -> [nonblock : BOOLEAN, ready : SUBSET Events]]
       /\ \A x \in Files : file'[x].nonblock = file[x].nonblock
  BY <1>1, <1>2 DEF Types, TypeOK
<1>3. /\ bypassed \subseteq bypassed' /\ bypassed' \subseteq bypassed \cup {d}
      /\ d \notin bypassed' => datas[d] = 0
      /\ d \notin bypassed' => fb[f].pc = "close" \/ \A e \in Events : ~Live(d, e)
  <2>1. /\ fb[f].pc = "close" => datas[d] = 0
    BY DEF IInv, Owners
  <2>. QED BY <1>1, <2>1 DEF CloseF
<1>4. fb'[f] = Idle /\ \A g \in Fibers \ {f} : fb'[g] = fb[g]
  BY <1>1, <1>2
<1>5. open'[d] = 0 /\ \A c \in Fds \ {d} : open'[c] = open[c]
  BY <1>1, <1>2 DEF Types, TypeOK
<1>6. Types'
  <2>1. open' \in [Fds -> 0 .. MaxFiles]
    BY <1>1, <1>2, HookAssumption DEF Types, TypeOK
  <2>2. bypassed' \subseteq Fds
    BY <1>1, <1>3 DEF Types
  <2>3. SharedTypes'
    BY <1>1, <1>2, <1>17, <2>1, <2>2, TypesAre DEF SharedTypes
  <2>. QED BY <1>1, <1>2, <2>3, FbType, IdleType, TypesArePrime
<1>7. /\ \A g \in Fibers : Waits(g)' <=> Waits(g)
      /\ \A g \in Fibers : Waits(g) => fb'[g] = fb[g]
      /\ Registered' /\ TimeoutKnown'
  BY <1>1, <1>2, <1>3, <1>4, IdleIs, WaitersSame
<1>8. Places'
  BY <1>4, PlacesSame
<1>9. Numbers'
  <2>1. \A c \in Fds : open'[c] <= made /\ datas'[c] <= made
    BY <1>1, <1>2, <1>5, HookAssumption DEF IInv, Numbers, Types, TypeOK
  <2>2. \A c, e \in Fds : open'[c] = open'[e] /\ open'[c] # 0 => c = e
    BY <1>5 DEF IInv, Numbers
  <2>3. \A g \in Fibers : fb'[g].ctx <= made
    <3>1. 0 <= made
      BY <1>1, HookAssumption DEF Types, TypeOK
    <3>. QED BY <1>4, <3>1, IdleIs DEF IInv, Numbers
  <2>. QED BY <1>2, <2>1, <2>2, <2>3 DEF Numbers
<1>10. \A g \in Fibers : Owning(fb'[g]) => g # f /\ fb'[g] = fb[g] /\ Owning(fb[g]) /\ fb[g].fd # d
  <2>1. ~Owning(Idle)
    BY IdleIs DEF Owning
  <2>. QED BY <1>1, <1>4, <2>1 DEF IInv, Owners
<1>11. \A g \in Fibers : Owning(fb'[g]) => open'[fb'[g].fd] = open[fb[g].fd] /\ open[fb[g].fd] # 0
  BY <1>1, <1>5, <1>10, FbFacts DEF IInv, Owners
<1>12. Owners'
  <2>1. ASSUME NEW g \in Fibers, fb'[g].pc = "create"
        PROVE  /\ \A c \in Fds : datas[c] # open'[fb'[g].fd]
               /\ \A h \in Fibers : fb'[h].ctx # open'[fb'[g].fd]
    <3>1. fb'[g] = fb[g] /\ open'[fb'[g].fd] = open[fb[g].fd] /\ open[fb[g].fd] # 0
      BY <1>10, <1>11, <2>1 DEF Owning
    <3>2. \A h \in Fibers : fb'[h].ctx = fb[h].ctx \/ fb'[h].ctx = 0
      BY <1>4, IdleIs
    <3>. QED BY <2>1, <3>1, <3>2 DEF IInv, Owners
  <2>2. \A g \in Fibers : fb'[g].pc = "close" => datas[fb'[g].fd] = 0
    BY <1>10 DEF Owning, IInv, Owners
  <2>3. \A g, h \in Fibers : Owning(fb'[g]) /\ Owning(fb'[h]) /\ fb'[g].fd = fb'[h].fd => g = h
    BY <1>10 DEF IInv, Owners
  <2>. QED BY <1>2, <1>11, <2>1, <2>2, <2>3 DEF Owners
<1>13. CtxMatchesFile' /\ NonBlocking'
  <2>1. \A c \in Fds : datas[c] # 0 => datas[c] \in Files
    BY <1>1 DEF Types, TypeOK, Files
  <2>. QED BY <1>2, <1>3, <1>5, <1>17, <2>1 DEF IInv, CtxMatchesFile, NonBlocking
<1>14. BlocksOnlyWhenStale'
  <2>1. ASSUME NEW g \in Fibers, fb'[g].pc = "blocked", fb'[g].ctx # 0
        PROVE  LET y == open'[fb'[g].fd] IN
               fb'[g].ctx # y \/ datas'[fb'[g].fd] # y \/ y \in ioctled' \/ fb'[g].fd \in bypassed'
    <3>1. fb'[g] = fb[g] /\ fb[g].fd \in Fds
      BY <1>1, <1>4, <2>1, IdleIs, FbFacts
    <3>2. CASE fb[g].fd = d
      BY <1>5, <2>1, <3>1, <3>2
    <3>3. CASE fb[g].fd # d
      BY <1>2, <1>3, <1>5, <2>1, <3>1, <3>3 DEF IInv, BlocksOnlyWhenStale
    <3>. QED BY <3>2, <3>3
  <2>. QED BY <2>1 DEF BlocksOnlyWhenStale
<1>15. OrphanNeedsGap'
  <2>1. ASSUME NEW g \in Fibers, Waits(g)'
        PROVE  LET v == waiter'[fb'[g].fd][EventOf(fb'[g].op)] IN
               v.who = {g} /\ (v.file = open'[fb'[g].fd] \/ fb'[g].gap \/ fb'[g].fd \in bypassed')
    <3>1. fb'[g] = fb[g] /\ Waits(g)
      BY <1>7, <2>1
    <3>2. fb[g].fd \in Fds /\ EventOf(fb[g].op) \in Events
      BY <1>1, <3>1, FbFacts, CallEvents DEF IInv, Places
    <3>3. LET v == waiter[fb[g].fd][EventOf(fb[g].op)] IN
          v.who = {g} /\ (v.file = open[fb[g].fd] \/ fb[g].gap \/ fb[g].fd \in bypassed)
      BY <3>1 DEF IInv, OrphanNeedsGap, Waits
    <3>4. CASE fb[g].fd # d
      BY <1>2, <1>3, <1>5, <3>1, <3>2, <3>3, <3>4
    <3>5. CASE fb[g].fd = d
      <4>1. CASE fb[f].pc = "close"
        <5>1. fb[g].gap \/ fb[g].fd \in bypassed
          BY <3>1, <3>5, <4>1 DEF IInv, Cancelled
        <5>. QED BY <1>2, <1>3, <3>1, <3>3, <5>1
      <4>2. CASE fb[f].pc # "close" /\ d \notin bypassed'
        <5>1. ~Live(d, EventOf(fb[g].op))
          BY <1>3, <3>2, <4>2
        <5>2. waiter[d][EventOf(fb[g].op)] # Nobody
          BY <3>3, <3>5 DEF Nobody
        <5>3. fb[g].gap \/ fb[g].fd \in bypassed
          BY <3>3, <3>5, <5>1, <5>2 DEF Live
        <5>. QED BY <1>2, <1>3, <3>1, <3>3, <5>3
      <4>3. CASE d \in bypassed'
        BY <1>2, <3>1, <3>3, <3>5, <4>3
      <4>. QED BY <4>1, <4>2, <4>3
    <3>. QED BY <3>4, <3>5
  <2>. QED BY <2>1 DEF OrphanNeedsGap, Waits
<1>16. Cancelled'
  <2>1. \A g \in Fibers : fb'[g].pc \in {"del", "close"} => fb'[g] = fb[g]
    BY <1>4, IdleIs
  <2>. QED BY <1>3, <1>7, <2>1 DEF IInv, Cancelled
<1>. QED BY <1>6, <1>7, <1>8, <1>9, <1>12, <1>13, <1>14, <1>15, <1>16 DEF IInv

-----------------------------------------------------------------------------
(* The theorem                                                               *)

LEMMA Initially == Init => IInv
<1>. SUFFICES ASSUME Init PROVE IInv
  OBVIOUS
<1>1. \A f \in Fibers : fb[f] = Idle /\ ~Waits(f) /\ ~Owning(fb[f]) /\ ~InIo(fb[f])
  BY IdleIs DEF Init, Waits, Owning, InIo
<1>2. Types
  <2>1. Nobody \in [who : SUBSET Fibers, file : 0 .. MaxFiles]
    BY HookAssumption DEF Nobody
  <2>2. FreshCtx \in [user : BOOLEAN, timeout : [Events -> BOOLEAN]]
    BY DEF FreshCtx
  <2>3. fb \in [Fibers -> FbRec]
    BY IdleType DEF Init
  <2>4. 0 \in 0 .. MaxFiles /\ 0 \in 0 .. MaxCtl /\ 0 \in -2 .. 0
    BY HookAssumption
  <2>5. waiter \in [Fds -> [Events -> [who : SUBSET Fibers, file : 0 .. MaxFiles]]]
    BY <2>1 DEF Init
  <2>6. file \in [Files -> [nonblock : BOOLEAN, ready : SUBSET Events]]
    BY DEF Init
  <2>. QED BY <2>2, <2>3, <2>4, <2>5, <2>6, TypesAre DEF Init, SharedTypes
<1>3. Places /\ Owners /\ Cancelled /\ TimeoutKnown
  BY <1>1, IdleIs DEF Places, Owners, Cancelled, TimeoutKnown, Owning, InIo
<1>4. Numbers /\ CtxMatchesFile /\ NonBlocking
  BY <1>1, IdleIs DEF Init, Numbers, CtxMatchesFile, NonBlocking
<1>5. BlocksOnlyWhenStale /\ OrphanNeedsGap /\ Registered
  BY <1>1, IdleIs DEF Init, BlocksOnlyWhenStale, OrphanNeedsGap, Registered, Waits
<1>. QED BY <1>2, <1>3, <1>4, <1>5 DEF IInv

LEMMA NextIInv == IInv /\ [Next]_vars => IInv'
<1>. SUFFICES ASSUME IInv, [Next]_vars PROVE IInv'
  OBVIOUS
<1>1. ASSUME NEW d \in Fds, NEW e \in Events, Trigger(d, e) \/ Ready(d, e) PROVE IInv'
  BY <1>1, NextTrigger, NextReady
<1>2. ASSUME NEW f \in Fibers, Unblock(f) PROVE IInv'
  BY <1>2, NextDone DEF Unblock
<1>3. ASSUME NEW f \in Fibers, Step(f) PROVE IInv'
  <2>1. ASSUME Try(f) PROVE IInv'
    BY <2>1, NextDone, NextWouldBlock DEF Try
  <2>. QED BY <1>3, <2>1, NextCreate, NextArmTimer, NextLock, NextAddEvent, NextResume, NextCancelAll,
              NextDel, NextCloseF DEF Step
<1>4. ASSUME NEW f \in Fibers, Enter(f) PROVE IInv'
  <2>1. CASE Socket(f) \/ Sleep(f)
    BY <2>1, NextSocket, NextSleep
  <2>2. ASSUME NEW d \in Fds, Close(f, d) PROVE IInv'
    BY <2>2, NextClose
  <2>3. ASSUME NEW d \in Fds, NEW op \in IoCalls[f] \ {"sleep"}, IoCall(f, op, d) PROVE IInv'
    BY <2>3, NextIoCall
  <2>4. ASSUME NEW d \in Fds, NEW b \in BOOLEAN, SetFl(f, d, b) \/ Ioctl(f, d, b) PROVE IInv'
    BY <2>4, NextFlag
  <2>5. ASSUME NEW d \in Fds, NEW op \in Calls \ {"connect"}, SetTimeout(f, d, EventOf(op)) PROVE IInv'
    BY <2>5, CallEvents, NextSetTimeout
  <2>. QED BY <1>4, <2>1, <2>2, <2>3, <2>4, <2>5 DEF Enter
<1>5. ASSUME NEW f \in Fibers, Expire(f) \/ Timeout(f) PROVE IInv'
  BY <1>5, NextExpire, NextTimeout
<1>6. CASE UNCHANGED vars
  <2>1. Types'
    BY <1>6 DEF IInv, Types, TypeOK, vars
  <2>2. NonBlocking'
    BY <1>6 DEF IInv, NonBlocking, vars
  <2>. QED BY <1>6, <2>1, <2>2, FilesOnly DEF vars
<1>. QED BY <1>1, <1>2, <1>3, <1>4, <1>5, <1>6 DEF Next, World

\* A call that waits with a time-out has it before it, but for the cases TimeoutAhead names.
LEMMA Implied == IInv => HookInv
<1>. SUFFICES ASSUME IInv PROVE HookInv
  OBVIOUS
<1>1. TimeoutAhead
  <2>1. ASSUME NEW f \in Fibers, fb[f].pc = "wait", fb[f].timed
        PROVE  \/ fb[f].armed \/ fb[f].late > 0
               \/ fb[f].early \/ fb[f].gap \/ fb[f].fd \in bypassed
               \/ spinning /\ fb[f].cancelled
    <3>1. Waits(f)
      BY <2>1 DEF IInv, Places, Waits
    <3>. QED BY <2>1, <3>1 DEF IInv, TimeoutKnown
  <2>. QED BY <2>1 DEF TimeoutAhead
<1>. QED BY <1>1 DEF IInv, Types, HookInv

\* Whatever fibers and unhooked threads do with whatever fds: the FdCtx under a number is
\* that of the file under it, a call that found an FdCtx blocks no thread, close() leaves
\* nobody waiting, and a call with a time-out keeps it, each with the exceptions that
\* HookInv names: a close on an unhooked thread, ioctl(), a registration between cancelAll
\* and close_f, a time-out before the registration, a callback that spins for m_mtx.
THEOREM HookSafe == Spec => []HookInv
<1>1. Spec => []IInv
  BY Initially, NextIInv, PTL DEF Spec
<1>. QED BY <1>1, Implied, PTL
=============================================================================
