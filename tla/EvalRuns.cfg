SPECIFICATION FairSpec
CONSTANTS
    w1 = w1
    w2 = w2
    c1 = c1
    c2 = c2
    None = None
    Workers = {w1, w2}
    Callers = {c1, c2}
    Items = 2
    MaxLimit = 2
    MaxEnqueues = 1
    MaxCancels = 1
    MaxFaults = 1
CONSTRAINT OneDisturbance
CHECK_DEADLOCK FALSE
INVARIANTS
    VerdictFits
    RunningWithinLimit
    QueuedHasMessage
PROPERTIES
    ResultStays
    PlanFinishes
