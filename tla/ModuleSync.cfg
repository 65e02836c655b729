SPECIFICATION Spec
CONSTANTS
    Syncs = {s1}
    Validations = {c1}
    Checks = {c1}
    BadCommits = {2}
    MaxCommit = 3
    MaxFaults = 2
INVARIANTS
    RecordedWasValidated
    SyncedRevisionIsItsCommit
PROPERTY SyncCatchesUp
CHECK_DEADLOCK FALSE
