------------------------------- MODULE Socket -------------------------------
(***************************************************************************)
(* One Socket object, used by several threads: connect, reconnect, bind,   *)
(* listen, close, send and receive, the cached addresses, and the fd       *)
(* numbers that the kernel gives to others once they are free.             *)
(*                                                                         *)
(* Nothing in Socket is locked; a step ends where a thread can be overtaken*)
(* between two uses of m_sock, m_Connected or the cached addresses.        *)
(***************************************************************************)
EXTENDS Integers, FiniteSets, FiniteSetsExt

CONSTANTS
    Users,          \* threads that use the object
    FdNums,         \* fd numbers, in Nat
    Addrs,          \* addresses of the socket's family
    MaxOpens,       \* sockets opened in a run, by the object or by others
    MaxOps          \* operations on the object in a run

ASSUME SocketAssumption ==
    /\ IsFiniteSet(FdNums) /\ FdNums \subseteq Nat \ {0}
    /\ MaxOpens \in Nat /\ MaxOps \in Nat

VARIABLES
    m,              \* the object: m_sock, m_Connected, m_localAddress, m_remoteAddress
    fds,            \* the kernel's table: the file behind a number, or Closed
    user,           \* what each thread is doing
    opens, ops,     \* sockets opened, operations begun
    overlap,        \* ghost: two threads were inside the object at once
    rebound,        \* ghost: the name of the file has changed since m_localAddress was cached
    stolen          \* ghost: a call has reached a file that is not the object's

sockVars == <<m, fds, user, opens, ops, overlap, rebound, stolen>>

NoFd == 0                       \* -1 in the code
NoAddr == "none"                \* a null pointer
Wild == "wild"                  \* the name of a file that has not been bound
Foreign == "foreign"            \* an address of another family
Picked == "any"                 \* a name the kernel chooses (an ephemeral port)
Lost == "lost"                  \* the name of a file that no Socket has
Closed == [mine |-> FALSE, name |-> NoAddr, peer |-> NoAddr, up |-> FALSE]
Open == {d \in FdNums : fds[d].up}
Idle == [pc |-> "idle", op |-> "none", to |-> NoAddr]

SocketInit ==
    /\ m = [sock |-> NoFd, connected |-> FALSE, local |-> NoAddr, remote |-> NoAddr]
    /\ fds = [d \in FdNums |-> Closed]
    /\ user = [u \in Users |-> Idle]
    /\ opens = 0 /\ ops = 0
    /\ overlap = FALSE /\ rebound = FALSE /\ stolen = FALSE

Go(u, pc) == user' = [user EXCEPT ![u].pc = pc]
Done(u) == user' = [user EXCEPT ![u] = Idle]
At(u, pc) == user[u].pc = pc

\* A call of the kernel on m_sock: has the number been given to somebody else?
Reaches(d) == stolen' = (stolen \/ (d # NoFd /\ fds[d].up /\ ~fds[d].mine))

\* A thread enters an operation.
Enter(u, op, pc, to) ==
    /\ At(u, "idle") /\ ops < MaxOps
    /\ ops' = ops + 1
    /\ user' = [user EXCEPT ![u] = [pc |-> pc, op |-> op, to |-> to]]
    /\ overlap' = (overlap \/ \E v \in Users \ {u} : user[v].pc # "idle")

\* accept() makes the object: init(fd) takes the fd and both addresses.  It does not if the
\* FdCtx of the number says that it is closed; then accept() drops the object, which has
\* no fd, and the file stays open.
Adopt ==
    /\ opens = 0 /\ ops = 0
    /\ opens' = 1
    /\ \E d \in FdNums, a \in Addrs :
          \/ /\ m' = [sock |-> d, connected |-> TRUE, local |-> Picked, remote |-> a]
             /\ fds' = [fds EXCEPT ![d] = [mine |-> TRUE, name |-> Picked, peer |-> a, up |-> TRUE]]
          \/ /\ fds' = [fds EXCEPT ![d] = [mine |-> FALSE, name |-> Lost, peer |-> a, up |-> TRUE]]
             /\ UNCHANGED m
    /\ UNCHANGED <<user, ops, overlap, rebound, stolen>>

\* Somebody else opens or closes a socket of its own.
Others ==
    /\ \/ /\ Open # FdNums /\ opens < MaxOpens
          /\ fds' = [fds EXCEPT ![Min(FdNums \ Open)] = [Closed EXCEPT !.up = TRUE]]
          /\ opens' = opens + 1
       \/ \E d \in Open : /\ ~fds[d].mine /\ fds[d].name # Lost
                          /\ fds' = [fds EXCEPT ![d] = Closed]
                          /\ UNCHANGED opens
    /\ UNCHANGED <<m, user, ops, overlap, rebound, stolen>>

-----------------------------------------------------------------------------
(* Operations                                                                *)

\* bind, connect, reconnect, listen (isValid), the send and recv functions (isConnected),
\* close, and the addresses.  reconnect needs a remote address, and forgets
\* the local one.
Begin(u) ==
    \/ \E to \in Addrs \union {Foreign}, op \in {"bind", "connect"} :
          /\ Enter(u, op, "new", to)
          /\ UNCHANGED <<m, rebound>>
    \/ /\ m.remote # NoAddr
       /\ Enter(u, "connect", "new", m.remote)
       /\ m' = [m EXCEPT !.local = NoAddr]
       /\ rebound' = FALSE
    \/ /\ m.sock # NoFd \/ m.connected
       /\ Enter(u, "use", "use", NoAddr)
       /\ UNCHANGED <<m, rebound>>
    \/ /\ Enter(u, "addresses", "addresses", NoAddr)
       /\ UNCHANGED <<m, rebound>>
    \/ /\ m.connected \/ m.sock # NoFd
       /\ Enter(u, "close", "close", NoAddr)
       /\ m' = [m EXCEPT !.connected = FALSE]
       /\ UNCHANGED rebound

\* newSock(), if there is no fd; its options are set only if that fails.  A cached local
\* address was another file's.
NewSock(u) ==
    /\ At(u, "new")
    /\ IF m.sock # NoFd THEN Go(u, user[u].op) /\ UNCHANGED <<m, fds, opens, rebound>>
       ELSE IF Open = FdNums \/ opens = MaxOpens THEN Done(u) /\ UNCHANGED <<m, fds, opens, rebound>>
       ELSE LET d == Min(FdNums \ Open) IN
            /\ fds' = [fds EXCEPT ![d] = [Closed EXCEPT !.up = TRUE, !.mine = TRUE, !.name = Wild]]
            /\ m' = [m EXCEPT !.sock = d]
            /\ opens' = opens + 1
            /\ rebound' = (m.local # NoAddr)
            /\ Go(u, user[u].op)
    /\ UNCHANGED <<ops, overlap, stolen>>

\* getLocalAddress(), getRemoteAddress(): cached, else asked of the kernel
Local(d) == IF m.local # NoAddr THEN m.local ELSE IF d = NoFd THEN NoAddr ELSE fds[d].name
Remote(d) == IF m.remote # NoAddr THEN m.remote ELSE IF d = NoFd THEN NoAddr ELSE fds[d].peer

Addresses(u) ==
    /\ At(u, "addresses")
    /\ Reaches(m.sock)
    /\ m' = [m EXCEPT !.local = Local(m.sock), !.remote = Remote(m.sock)]
    /\ Done(u)
    /\ UNCHANGED <<fds, opens, ops, overlap, rebound>>

\* bind(): a wrong family, a unix path that somebody answers on, or an error leaves the
\* file as it is; else the file has a name, which is cached if none was.
Bind(u) ==
    LET d == m.sock IN
    /\ At(u, "bind")
    /\ Reaches(d)
    /\ \/ UNCHANGED <<m, fds, rebound>>
       \/ /\ user[u].to # Foreign /\ d # NoFd /\ fds[d].name = Wild
          /\ fds' = [fds EXCEPT ![d].name = user[u].to]
          /\ m' = [m EXCEPT !.local = IF @ # NoAddr THEN @ ELSE user[u].to]
          /\ rebound' = (rebound \/ m.local # NoAddr)
    /\ Done(u)
    /\ UNCHANGED <<opens, ops, overlap>>

\* connect(), up to the kernel's answer: a wrong family ends it, else m_remoteAddress is
\* set before the answer is known.  A file that has no name, or only a port, gets one.
Connect(u) ==
    LET d == m.sock IN
    /\ At(u, "connect")
    /\ Reaches(d)
    /\ \/ user[u].to = Foreign /\ Done(u) /\ UNCHANGED <<m, fds, rebound>>
       \/ /\ user[u].to # Foreign
          /\ m' = [m EXCEPT !.remote = user[u].to]
          /\ Go(u, "failed") /\ UNCHANGED <<fds, rebound>>
       \/ /\ user[u].to # Foreign
          /\ m' = [m EXCEPT !.remote = user[u].to]
          /\ d # NoFd /\ fds[d].up /\ fds[d].peer = NoAddr
          /\ fds' = [fds EXCEPT ![d].peer = user[u].to, ![d].name = Picked]
          /\ rebound' = (rebound \/ m.local \notin {NoAddr, Picked})
          /\ Go(u, "connected")
    /\ UNCHANGED <<opens, ops, overlap>>

\* m_Connected, then the addresses
Connected(u) ==
    /\ At(u, "connected")
    /\ m' = [m EXCEPT !.connected = TRUE, !.local = Local(m.sock), !.remote = Remote(m.sock)]
    /\ Done(u)
    /\ UNCHANGED <<fds, opens, ops, overlap, rebound, stolen>>

\* A failed connect closes.
Failed(u) ==
    /\ At(u, "failed")
    /\ m' = [m EXCEPT !.connected = FALSE]
    /\ IF m.connected \/ m.sock # NoFd THEN Go(u, "close") ELSE Done(u)
    /\ UNCHANGED <<fds, opens, ops, overlap, rebound, stolen>>

\* listen, a send or a recv function: one call on m_sock
Use(u) ==
    /\ At(u, "use")
    /\ Reaches(m.sock)
    /\ Done(u)
    /\ UNCHANGED <<m, fds, opens, ops, overlap, rebound>>

\* ::close(m_sock), the file that has the number now
Close(u) ==
    LET d == m.sock IN
    /\ At(u, "close")
    /\ Reaches(d)
    /\ fds' = IF d # NoFd THEN [fds EXCEPT ![d] = Closed] ELSE fds
    /\ Go(u, IF d = NoFd THEN "closed" ELSE "forget")
    /\ UNCHANGED <<m, opens, ops, overlap, rebound>>

\* Mutant: m_sock keeps its value.
ForgetNothing(u) ==
    /\ At(u, "forget")
    /\ Done(u)
    /\ UNCHANGED <<m, fds, opens, ops, overlap, rebound, stolen>>

\* m_sock = -1; the cached addresses stay
Forget(u) ==
    /\ At(u, "forget")
    /\ m' = [m EXCEPT !.sock = NoFd]
    /\ Done(u)
    /\ UNCHANGED <<fds, opens, ops, overlap, rebound, stolen>>

Leave(u) ==
    /\ At(u, "closed")
    /\ Done(u)
    /\ UNCHANGED <<m, fds, opens, ops, overlap, rebound, stolen>>

SocketNext ==
    \/ Adopt \/ Others
    \/ \E u \in Users :
          \/ Begin(u) /\ UNCHANGED <<fds, opens, stolen>>
          \/ NewSock(u) \/ Bind(u) \/ Connect(u) \/ Connected(u) \/ Failed(u)
          \/ Use(u) \/ Addresses(u) \/ Close(u) \/ Forget(u) \/ Leave(u)

SocketSpec == SocketInit /\ [][SocketNext]_sockVars

-----------------------------------------------------------------------------
(* Properties                                                                *)

Quiet == \A u \in Users : user[u].pc = "idle"

\* As long as operations do not overlap, no call reaches a file of somebody else, however
\* the kernel reuses numbers: not after close(), not after a failed connect.
OwnFileOnly == stolen => overlap

\* Under the same condition the object owns one file at most: m_sock's.  (The file of an
\* accept() whose init() fails has no object.)
NothingLeaked ==
    Quiet /\ ~overlap => {d \in Open : fds[d].mine} = {m.sock} \ {NoFd}

\* A connected Socket reports the peer of its file, also after any failed or repeated
\* connect; and its local address is the file's name, unless it was cached before the
\* name changed (by bind or connect, or for an earlier file: only reconnect forgets it).
AddressesCurrent ==
    Quiet /\ ~overlap /\ m.connected =>
        /\ m.sock # NoFd /\ m.remote = fds[m.sock].peer
        /\ rebound \/ Local(m.sock) = fds[m.sock].name

\* What a Socket that is used by one thread at a time promises: its own file only, one
\* file only, current addresses.
SocketInv == OwnFileOnly /\ NothingLeaked /\ AddressesCurrent
=============================================================================
