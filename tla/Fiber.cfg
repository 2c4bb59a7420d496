CONSTANTS
    w1 = w1  w2 = w2  f1 = f1  f2 = f2  f3 = f3  f4 = f4  j1 = j1  j2 = j2  j3 = j3
    Workers = {w1}
    Fibers = {f1, f2, f3}
    Jobs = {j1, j2}
    MaxYields = 2
    LateThrows = FALSE
    NoFiber = NoFiber
    NoJob = NoJob
SPECIFICATION FairSpec
INVARIANTS TypeOK AssertsHold ExecIsRunning
PROPERTY ScheduledEnds
