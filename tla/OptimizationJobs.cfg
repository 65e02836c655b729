SPECIFICATION FairSpec
CONSTANTS
    j1 = j1
    j2 = j2
    w1 = w1
    w2 = w2
    api = api
    Jobs = {j1, j2}
    NoJob = none
    Workers = {w1, w2}
    Requests = {api}
    InstallLimit = 1
    MaxRuns = 2
    MaxCancels = 1
    MaxFaults = 1
CHECK_DEADLOCK FALSE
INVARIANTS
    TypeOK
    SucceededAsRecorded
    CanceledInTimeHasNoResult
PROPERTIES
    FollowupEnds
