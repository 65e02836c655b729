SPECIFICATION Spec
CONSTANTS
    MaxBuilds = 2
    MaxLogs = 1
    MaxFaults = 1
INVARIANTS
    NoChildOutlivesBuild
    ClosedChildIsLeftAlone
PROPERTIES
    PublishedAsFound
    StopEnds
CHECK_DEADLOCK FALSE
