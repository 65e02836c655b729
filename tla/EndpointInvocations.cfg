SPECIFICATION FairSpec
CONSTANTS
    i1 = i1
    i2 = i2
    a1 = a1
    a2 = a2
    b1 = b1
    NoTask = none
    Invocations = {i1, i2}
    OldWorkers = {a1}
    NewWorkers = {b1}
    MaxFaults = 1
INVARIANTS
    TypeOK
    HandledOnce
    AnswerIsHeard
PROPERTIES
    DrainSparesClaim
    InvocationServed
CHECK_DEADLOCK FALSE
