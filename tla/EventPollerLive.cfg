CONSTANTS
    c1 = c1  c2 = c2  p1 = p1  p2 = p2  f1 = f1  f2 = f2  big = big  w1 = w1  w2 = w2
    Callers = {c1}
    Pollers = {p1}
    Fds = {f1, big}
    Table = {f1}
    Waiters = {w1, w2}
    Conditions = {"READ", "HUP"}
    CtlResults = {TRUE}
    NoThread = NoThread
    NoWaiter = NoWaiter
SPECIFICATION FairSpec
INVARIANT TypeOK
PROPERTY ReadyIsDelivered
