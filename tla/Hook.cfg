CONSTANTS
    f1 = f1  f2 = f2  u = u
    Fibers = {f1, f2, u}
    Unhooked = {u}
    Fds = {3}
    MaxFiles = 2
    MaxLate = 1
    MaxCtl = 1
    IoCalls <- MCIoCalls
    ConnectTimed = {TRUE}
SPECIFICATION FairSpec
INVARIANT HookInv
PROPERTY TimedCallReturns
CHECK_DEADLOCK FALSE
