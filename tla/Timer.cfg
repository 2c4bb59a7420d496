CONSTANTS
    c1 = c1  c2 = c2  p1 = p1
    Timers = {1, 2}
    Recurring = {2}
    Callers = {c1, c2}
    Pollers = {p1}
    Delays = {1}
    ResetDelays = {1, 2}
    MaxTimeout = 2
    Horizon = 2
SPECIFICATION FairSpec
INVARIANTS TimerInv OneShot SleepsNoLongerThanFirst
PROPERTY DueIsCollected
