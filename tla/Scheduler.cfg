CONSTANTS
    r0 = r0  w1 = w1  w2 = w2  t1 = t1  t2 = t2  t3 = t3
    Workers = {w1, w2}
    Root = r0
    UseCaller = TRUE
    Poller = FALSE
    Tasks = {t1, t2, t3}
    Pin <- MCPin
    AnyThread = AnyThread
    CountLimit = 4
SPECIFICATION FairSpec
INVARIANTS TypeOK StopDrains
PROPERTY StopReturns
