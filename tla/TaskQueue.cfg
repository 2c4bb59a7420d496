CONSTANTS
    p1 = p1  p2 = p2  w1 = w1  w2 = w2  t1 = t1  t2 = t2  t3 = t3  t4 = t4
    Producers = {p1}
    Workers = {w1, w2}
    Tasks = {t1, t2, t3, t4}
    FiberTasks = {t4}
    Pin <- MCPin
    AnyWorker = AnyWorker
    End = End
    NoTask = NoTask
SPECIFICATION Spec
INVARIANTS TypeOK AtMostOnce CallbackOrder NoStalledBacklog
PROPERTY PoolSpec
